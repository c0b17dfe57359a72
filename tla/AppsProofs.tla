----------------------------- MODULE AppsProofs -----------------------------
(***************************************************************************)
(* Proofs about the components of coro_apps, as MCApps composes them: what *)
(* a step of the composition is to a component, and for each component an  *)
(* inductive invariant.                                                    *)
(***************************************************************************)
EXTENDS MCApps, Integers, FiniteSets, FiniteSetTheorems, SequenceTheorems,
        WellFoundedInduction, TLAPS

-----------------------------------------------------------------------------
(* A step of the composition is a step of the component that runs, or leaves *)
(* its variables alone.                                                      *)

(* The balancers start as their module says and make its steps only. *)
LEMMA LbRuns ==
  /\ MCInit => Lb!Init
  /\ [MCNext]_<<component, vars, appVars>> => [Lb!Next]_lbVars
BY DEF MCInit, MCNext, appVars, lbVars

(* So does the rate limiter. *)
LEMMA RateRuns ==
  /\ MCInit => Rate!Init
  /\ [MCNext]_<<component, vars, appVars>> => [Rate!Next]_rateVars
BY DEF MCInit, MCNext, appVars, rateVars

(* So does the map in shards. *)
LEMMA MapRuns ==
  /\ MCInit => Shards!Init
  /\ [MCNext]_<<component, vars, appVars>> => [Shards!Next]_mapVars
BY DEF MCInit, MCNext, appVars, mapVars

-----------------------------------------------------------------------------
(* Induction.  The finite subsets of the numbers are well-founded, and so    *)
(* are the intervals 0..n among them.                                        *)

(* A set of natural numbers that is not empty has a least element.           *)
LEMMA LeastNumber ==
  ASSUME NEW T \in SUBSET Nat, T # {}
  PROVE  \E m \in T : \A k \in T : m <= k
  <1> DEFINE R == StrictSubsetOrdering(Nat)
             F == FiniteSubsetsOf(Nat)
             U == {0..t : t \in T}
  <1>1. IsWellFoundedOn(R, F)
    BY FS_StrictSubsetOrderingWellFounded
  <1>2. U \subseteq F
    <2> SUFFICES ASSUME NEW t \in T PROVE 0..t \in F
      OBVIOUS
    <2>1. IsFiniteSet(0..t)
      BY FS_Interval
    <2> QED
      BY <2>1 DEF FiniteSubsetsOf
  <1>3. U # {}
    OBVIOUS
  <1>4. PICK x \in U : \A y \in U : <<y, x>> \notin R
    <2> HIDE DEF R, F, U
    <2> QED
      BY <1>1, <1>2, <1>3, WFMin
  <1>5. PICK m \in T : x = 0..m
    OBVIOUS
  <1>6. ASSUME NEW k \in T, k < m PROVE FALSE
    <2>1. 0..k \subseteq 0..m /\ 0..k # 0..m
      BY <1>6
    <2>2. <<0..k, 0..m>> \in R
      BY <2>1 DEF StrictSubsetOrdering
    <2> QED
      BY <2>2, <1>4, <1>5
  <1> QED
    BY <1>6

(* A set of numbers with a bound has a greatest.                             *)
LEMMA GreatestNumber ==
  ASSUME NEW b \in Nat, NEW T \in SUBSET (0..b), T # {}
  PROVE  \E m \in T : \A k \in T : m >= k
  <1> DEFINE U == {b - t : t \in T}
  <1>1. U \in SUBSET Nat /\ U # {}
    <2>1. \A t \in T : b - t \in Nat
      OBVIOUS
    <2>2. U # {}
      OBVIOUS
    <2> QED
      BY <2>1, <2>2
  <1>2. PICK u \in U : \A v \in U : u <= v
    BY <1>1, LeastNumber
  <1>3. PICK m \in T : u = b - m
    BY <1>2
  <1>4. ASSUME NEW k \in T PROVE m >= k
    <2>1. u <= b - k
      BY <1>2
    <2> QED
      BY <2>1, <1>3
  <1> QED
    BY <1>4

(* So has a finite set.                                                      *)
LEMMA GreatestOfFinite ==
  ASSUME NEW T \in SUBSET Nat, T # {}, IsFiniteSet(T)
  PROVE  \E m \in T : \A k \in T : m >= k
  <1> DEFINE U == {0..t : t \in T}
  <1>1. IsFiniteSet(U)
    <2> DEFINE f == [t \in T |-> 0..t]
    <2>1. f \in Surjection(T, U)
      BY DEF Surjection
    <2> QED
      BY <2>1, FS_Surjection
  <1>2. \A u \in U : IsFiniteSet(u)
    BY FS_Interval
  <1>3. IsFiniteSet(UNION U)
    <2> HIDE DEF U
    <2> QED
      BY <1>1, <1>2, FS_UNION
  <1>4. Cardinality(UNION U) \in Nat
    BY <1>3, FS_CardinalityType
  <1>5. ASSUME NEW t \in T PROVE t <= Cardinality(UNION U)
    <2>1. 0..t \subseteq UNION U
      OBVIOUS
    <2>2. Cardinality(0..t) = t + 1
      BY FS_Interval
    <2>3. Cardinality(0..t) <= Cardinality(UNION U)
      <3> HIDE DEF U
      <3> QED
        BY <2>1, <1>3, FS_Subset
    <2> QED
      BY <2>2, <2>3, <1>4
  <1>6. T \in SUBSET (0..Cardinality(UNION U))
    <2> HIDE DEF U
    <2> QED
      BY <1>4, <1>5
  <1> QED
    BY <1>4, <1>6, GreatestNumber

(* A sequence of numbers each of which is equal to the one before it is      *)
(* constant.                                                                 *)
LEMMA ConstantSequence ==
  ASSUME NEW n \in Nat, NEW p \in [0..n -> Int], \A i \in 1..n : p[i] = p[i - 1]
  PROVE  p[n] = p[0]
  <1> SUFFICES ASSUME p[n] # p[0] PROVE FALSE
    OBVIOUS
  <1> DEFINE T == {i \in 0..n : p[i] # p[0]}
  <1>1. PICK m \in T : \A k \in T : m <= k
    <2>1. T \in SUBSET Nat /\ n \in T
      OBVIOUS
    <2> HIDE DEF T
    <2> QED
      BY <2>1, LeastNumber
  <1>2. m \in 1..n /\ m - 1 \in 0..n
    OBVIOUS
  <1>3. m - 1 \notin T
    BY <1>1, <1>2
  <1> QED
    BY <1>2, <1>3

-----------------------------------------------------------------------------
(* LoadBlancer: a pool that a thread got for a host is the one in the        *)
(* manager, and an entry of the manager is never replaced.                   *)

Asking == [host : Nat, at : {"find", "make", "emplace", "read"}, pool : Nat]

LbTypeOK ==
  /\ weights \in Seq(Nat)
  /\ made \in Nat
  /\ manager \in [Lb!Hosts -> Nat]
  /\ asking \in [Threads -> Asking]
  /\ got \in [Threads -> Seq(Nat)]

(* What thread t has is in the manager, and so is what it is about to read;  *)
(* a pool that is about to be stored has been made.                          *)
Consistent(t) ==
  /\ Len(got[t]) = asking[t].host
  /\ asking[t].host <= Lb!N
  /\ \A i \in 1..Len(got[t]) : got[t][i] = manager[i - 1] /\ got[t][i] # 0
  /\ asking[t].at = "emplace" => asking[t].pool # 0
  /\ asking[t].at = "read" /\ asking[t].host < Lb!N => manager[asking[t].host] # 0

LbInv == LbTypeOK /\ \A t \in Threads : Consistent(t)

(* Balancers start with an empty manager. *)
LEMMA LbInit == Lb!Init => LbInv
  <1> SUFFICES ASSUME Lb!Init PROVE LbInv
    OBVIOUS
  <1> PICK config \in Configs : algorithm = config[1] /\ weights = config[2]
    BY DEF Lb!Init
  <1>1. weights \in Seq(Nat)
    BY InstanceAssumption DEF Lb!LbAssumption
  <1>2. LbTypeOK
    BY <1>1 DEF Lb!Init, LbTypeOK, Lb!Hosts, Lb!N, Lb!Start, Asking
  <1>3. ASSUME NEW t \in Threads PROVE Consistent(t)
    BY <1>1 DEF Lb!Init, Consistent, Lb!N, Lb!Start
  <1> QED
    BY <1>2, <1>3 DEF LbInv

(* A thread that gets the pool in the manager goes on to the next host. *)
LEMMA GetsPool ==
  ASSUME LbInv, NEW t \in Threads, asking[t].host \in Lb!Hosts,
         manager[asking[t].host] # 0, Lb!Gets(t, manager[asking[t].host]),
         UNCHANGED <<weights, manager, made>>
  PROVE  LbInv'
  <1> USE DEF LbInv, LbTypeOK
  <1> DEFINE h == asking[t].host
             own == manager[h]
  <1>1. h \in 0..(Lb!N - 1) /\ Lb!N \in Nat /\ own \in Nat
    BY DEF Lb!Hosts, Lb!N
  <1>2. got' = [got EXCEPT ![t] = Append(got[t], own)]
    BY DEF Lb!Gets
  <1>3. asking' = [asking EXCEPT ![t] = [host |-> h + 1, at |-> "find", pool |-> 0]]
    BY DEF Lb!Gets, Lb!Start
  <1>4. LbTypeOK'
    <2>1. asking' \in [Threads -> Asking]
      BY <1>1, <1>3 DEF Asking
    <2>2. got' \in [Threads -> Seq(Nat)]
      BY <1>1, <1>2
    <2> QED
      BY <2>1, <2>2 DEF Lb!Hosts, Lb!N
  <1>5. ASSUME NEW u \in Threads PROVE Consistent(u)'
    <2>1. Consistent(u)
      OBVIOUS
    <2>2. CASE u = t
      <3>1. got'[t] = Append(got[t], own) /\ asking'[t].host = h + 1 /\ asking'[t].at = "find"
        BY <1>2, <1>3
      <3>2. Len(got'[t]) = h + 1
        BY <3>1, <2>1, <2>2, <1>1 DEF Consistent
      <3>3. ASSUME NEW i \in 1..(h + 1)
            PROVE  got'[t][i] = manager[i - 1] /\ got'[t][i] # 0
        <4>1. CASE i = h + 1
          BY <4>1, <3>1, <2>1, <2>2, <1>1 DEF Consistent
        <4>2. CASE i # h + 1
          <5>1. i \in 1..Len(got[t]) /\ got'[t][i] = got[t][i]
            BY <4>2, <3>1, <2>1, <2>2, <1>1 DEF Consistent
          <5> QED
            BY <5>1, <2>1, <2>2 DEF Consistent
        <4> QED
          BY <4>1, <4>2
      <3>4. h + 1 <= Lb!N /\ Lb!N' = Lb!N
        BY <1>1 DEF Lb!N
      <3>5. Consistent(t)'
        BY <3>1, <3>2, <3>3, <3>4 DEF Consistent
      <3> QED
        BY <3>5, <2>2
    <2>3. CASE u # t
      BY <2>1, <2>3, <1>2, <1>3 DEF Consistent, Lb!N
    <2> QED
      BY <2>2, <2>3
  <1> QED
    BY <1>4, <1>5

(* Every step of the balancers preserves the invariant. *)
LEMMA LbStep == LbInv /\ [Lb!Next]_lbVars => LbInv'
  <1> SUFFICES ASSUME LbInv, [Lb!Next]_lbVars PROVE LbInv'
    OBVIOUS
  <1> USE DEF LbInv, LbTypeOK
  <1>1. ASSUME UNCHANGED <<weights, manager, asking, got, made>>
        PROVE  LbInv'
    BY <1>1 DEF Consistent, Lb!Hosts, Lb!N
  <1>2. ASSUME NEW t \in Threads, Lb!FindPool(t) PROVE LbInv'
    <2>1. asking[t].host \in Lb!Hosts /\ UNCHANGED <<weights, manager, made>>
      BY <1>2 DEF Lb!FindPool, Lb!Asks, Lb!Balancing
    <2>2. CASE manager[asking[t].host] # 0
      BY <2>1, <2>2, <1>2, GetsPool DEF Lb!FindPool
    <2>3. CASE manager[asking[t].host] = 0
      <3>1. asking' = [asking EXCEPT ![t].at = "make"] /\ got' = got
        BY <1>2, <2>3 DEF Lb!FindPool
      <3>2. LbTypeOK'
        <4>1. asking' \in [Threads -> Asking]
          BY <3>1 DEF Asking
        <4> QED
          BY <2>1, <3>1, <4>1 DEF Lb!Hosts, Lb!N
      <3>3. ASSUME NEW u \in Threads PROVE Consistent(u)'
        BY <2>1, <3>1 DEF Consistent, Lb!N
      <3> QED
        BY <3>2, <3>3
    <2> QED
      BY <2>2, <2>3
  <1>3. ASSUME NEW t \in Threads, Lb!MakePool(t) PROVE LbInv'
    <2>1. /\ made' = made + 1 /\ UNCHANGED <<weights, manager, got>>
          /\ asking' = [asking EXCEPT ![t].at = "emplace", ![t].pool = made + 1]
      BY <1>3 DEF Lb!MakePool, Lb!Balancing
    <2>2. LbTypeOK'
      <3>1. asking[t] \in Asking /\ made + 1 \in Nat
        OBVIOUS
      <3>2. asking[t].host \in Nat
        BY <3>1 DEF Asking
      <3>3. asking'[t] = [host |-> asking[t].host, at |-> "emplace", pool |-> made + 1]
        BY <3>1, <2>1 DEF Asking
      <3>4. asking'[t] \in Asking
        BY <3>1, <3>2, <3>3 DEF Asking
      <3>5. asking' \in [Threads -> Asking]
        BY <3>4, <2>1
      <3> QED
        BY <2>1, <3>5 DEF Lb!Hosts, Lb!N
    <2>3. ASSUME NEW u \in Threads PROVE Consistent(u)'
      BY <2>1 DEF Consistent, Lb!N
    <2> QED
      BY <2>2, <2>3
  <1>4. ASSUME NEW t \in Threads, Lb!EmplacePool(t) PROVE LbInv'
    <2> DEFINE h == asking[t].host
    <2>1. /\ UNCHANGED <<weights, made, got>> /\ h \in Lb!Hosts /\ asking[t].at = "emplace"
          /\ asking' = [asking EXCEPT ![t].at = "read"]
      BY <1>4 DEF Lb!EmplacePool, Lb!Balancing, Lb!Asks
    <2>2. manager' = IF manager[h] = 0 THEN [manager EXCEPT ![h] = asking[t].pool] ELSE manager
      BY <1>4 DEF Lb!EmplacePool
    <2>3. asking[t].pool \in Nat /\ asking[t].pool # 0
      <3>1. asking[t] \in Asking /\ Consistent(t)
        OBVIOUS
      <3> QED
        BY <2>1, <3>1 DEF Consistent, Asking
    <2>4. LbTypeOK'
      <3>1. asking' \in [Threads -> Asking]
        BY <2>1 DEF Asking
      <3>2. manager' \in [Lb!Hosts -> Nat]
        BY <2>2, <2>3
      <3> QED
        BY <2>1, <3>1, <3>2 DEF Lb!Hosts, Lb!N
    <2>5. /\ manager'[h] # 0
          /\ \A g \in Lb!Hosts : manager[g] # 0 => manager'[g] = manager[g]
      BY <2>1, <2>2, <2>3
    <2>6. ASSUME NEW u \in Threads PROVE Consistent(u)'
      <3>1. Consistent(u) /\ got'[u] = got[u] /\ asking'[u].host = asking[u].host
        BY <2>1
      <3>2. ASSUME NEW i \in 1..Len(got[u])
            PROVE  got[u][i] = manager'[i - 1] /\ got[u][i] # 0
        <4>1. i - 1 \in Lb!Hosts
          BY <3>1 DEF Consistent, Lb!Hosts, Lb!N
        <4> QED
          BY <4>1, <3>1, <2>5 DEF Consistent
      <3>3. asking'[u].at = "emplace" => asking'[u].pool # 0
        BY <3>1, <2>1 DEF Consistent
      <3>4. asking'[u].at = "read" /\ asking'[u].host < Lb!N => manager'[asking'[u].host] # 0
        <4>1. CASE u = t
          BY <4>1, <3>1, <2>5
        <4>2. CASE u # t
          <5>1. asking'[u] = asking[u]
            BY <4>2, <2>1
          <5>2. asking[u].host < Lb!N => asking[u].host \in Lb!Hosts
            <6>1. asking[u] \in Asking
              OBVIOUS
            <6> QED
              BY <6>1 DEF Lb!Hosts, Lb!N, Asking
          <5> QED
            BY <5>1, <5>2, <3>1, <2>5 DEF Consistent
        <4> QED
          BY <4>1, <4>2
      <3> QED
        BY <3>1, <3>2, <3>3, <3>4, <2>1 DEF Consistent, Lb!N
    <2> QED
      BY <2>4, <2>6
  <1>5. ASSUME NEW t \in Threads, Lb!ReadPool(t) PROVE LbInv'
    <2>1. /\ asking[t].host \in Lb!Hosts /\ asking[t].at = "read"
          /\ UNCHANGED <<weights, manager, made>>
          /\ Lb!Gets(t, manager[asking[t].host])
      BY <1>5 DEF Lb!ReadPool, Lb!Asks, Lb!Balancing
    <2>2. manager[asking[t].host] # 0
      BY <2>1 DEF Consistent, Lb!Hosts, Lb!N
    <2> QED
      BY <2>1, <2>2, GetsPool
  <1>6. CASE UNCHANGED lbVars
    BY <1>1, <1>6 DEF lbVars
  <1>7. ASSUME \/ \E h \in Lb!Hosts : Lb!AliveChanges(h)
               \/ Lb!SendRequest \/ Lb!PickRR \/ Lb!PickRandom \/ Lb!PickWRR
               \/ Lb!TestAlive \/ Lb!Send
        PROVE  LbInv'
    BY <1>1, <1>7 DEF Lb!AliveChanges, Lb!SendRequest, Lb!PickRR, Lb!PickRandom, Lb!PickWRR,
                      Lb!Picking, Lb!TestAlive, Lb!Send, Lb!pools
  <1> QED
    BY <1>2, <1>3, <1>4, <1>5, <1>6, <1>7 DEF Lb!Next, Lb!Ask

(* load_blancer: whichever threads create balancers, and in whatever order   *)
(* they look for a pool, make one and store it, all get the same pool for a  *)
(* host, and none gets a null pointer.                                       *)
THEOREM OnePoolPerHostHolds == MCSpec => []OnePoolPerHost
  <1>1. LbInv => OnePoolPerHost
    <2> SUFFICES ASSUME LbInv, NEW t \in Threads, NEW u \in Threads,
                        NEW i \in DOMAIN got[t] \cap DOMAIN got[u]
                 PROVE  got[t][i] = got[u][i] /\ got[t][i] # 0
      BY DEF OnePoolPerHost, Lb!OnePoolPerHost
    <2>1. got[t] \in Seq(Nat) /\ got[u] \in Seq(Nat)
      BY DEF LbInv, LbTypeOK
    <2>2. i \in 1..Len(got[t]) /\ i \in 1..Len(got[u])
      BY <2>1
    <2> QED
      BY <2>2 DEF LbInv, Consistent
  <1> QED
    BY <1>1, LbRuns, LbInit, LbStep, PTL DEF MCSpec

-----------------------------------------------------------------------------
(* LoadBlancer, the weights: what get_max_weight_gcd() and get_max_weight()  *)
(* return.                                                                   *)

(* d divides x. *)
Divides(d, x) == \E q \in Nat : x = q * d

(* What divides a divisor of a number divides the number.                    *)
LEMMA DividesOn ==
  ASSUME NEW d \in Nat, NEW e \in Nat, NEW x \in Nat, Divides(d, e), Divides(e, x)
  PROVE  Divides(d, x)
  <1> PICK q \in Nat : e = q * d
    BY DEF Divides
  <1> PICK r \in Nat : x = r * e
    BY DEF Divides
  <1>1. \A i, j, k \in Nat : i * (j * k) = (i * j) * k /\ i * j \in Nat
    OBVIOUS
  <1>2. x = (r * q) * d /\ r * q \in Nat
    BY <1>1
  <1> QED
    BY <1>2 DEF Divides

(* std::gcd: the greatest common divisor divides both.                       *)
LEMMA GcdDivides ==
  ASSUME NEW a \in Nat, NEW b \in Nat
  PROVE  Lb!gcd(a, b) \in Nat /\ Divides(Lb!gcd(a, b), a) /\ Divides(Lb!gcd(a, b), b)
  <1>1. \A x \in Nat : x = 1 * x /\ 0 = 0 * x
    OBVIOUS
  <1>2. CASE a = 0
    <2>1. Lb!gcd(a, b) = b
      BY <1>2 DEF Lb!gcd
    <2> QED
      BY <2>1, <1>1, <1>2 DEF Divides
  <1>3. CASE a # 0 /\ b = 0
    <2>1. Lb!gcd(a, b) = a
      BY <1>3 DEF Lb!gcd
    <2> QED
      BY <2>1, <1>1, <1>3 DEF Divides
  <1>4. CASE a # 0 /\ b # 0
    <2> DEFINE T == {d \in 1..a : a % d = 0 /\ b % d = 0}
    <2>1. 1 \in T
      <3>1. a % 1 = 0 /\ b % 1 = 0
        OBVIOUS
      <3> QED
        BY <3>1, <1>4
    <2>2. PICK m \in T : \A k \in T : m >= k
      <3>1. T \in SUBSET (0..a)
        OBVIOUS
      <3> HIDE DEF T
      <3> QED
        BY <3>1, <2>1, GreatestNumber
    <2>3. Lb!gcd(a, b) = Lb!Max(T)
      BY <1>4 DEF Lb!gcd, Lb!Max
    <2>4. Lb!Max(T) \in T
      <3> HIDE DEF T
      <3> QED
        BY <2>2 DEF Lb!Max
    <2>5. \A x, d \in Nat : d > 0 /\ x % d = 0 => x = (x \div d) * d /\ x \div d \in Nat
      OBVIOUS
    <2>6. PICK d \in 1..a : d = Lb!gcd(a, b) /\ a % d = 0 /\ b % d = 0
      BY <2>3, <2>4
    <2>7. d \in Nat /\ d > 0
      BY <2>6
    <2>8. Divides(d, a) /\ Divides(d, b)
      BY <2>5, <2>6, <2>7 DEF Divides
    <2> QED
      BY <2>6, <2>7, <2>8
  <1> QED
    BY <1>2, <1>3, <1>4

(* The loop of get_max_weight_gcd(): what it has after i weights, given what *)
(* it had after each number of weights.                                      *)
DivisorFrom(f, i) == IF i = 0 THEN weights[1] ELSE Lb!gcd(f[i - 1], weights[i])

(* The loop computes what its definition says.                               *)
LEMMA DivisorExists ==
  ASSUME weights \in Seq(Nat)
  PROVE  \A i \in 0..Lb!N : Lb!res[i] = DivisorFrom(Lb!res, i)
  <1> DEFINE n == Lb!N
             D == 0..n
             Solves(f, k) ==
               /\ f = [s \in D |-> f[s]]
               /\ \A s \in D : s <= k => f[s] = DivisorFrom(f, s)
             Unsolved == {k \in D : ~ \E f : Solves(f, k)}
  <1>1. n \in Nat
    BY DEF Lb!N
  <1>2. \E f : Solves(f, 0)
    <2>1. Solves([s \in D |-> weights[1]], 0)
      BY <1>1 DEF DivisorFrom
    <2> QED
      BY <2>1
  <1>3. ASSUME NEW k \in D, k < n, NEW f, Solves(f, k) PROVE \E g : Solves(g, k + 1)
    <2> HIDE DEF n
    <2> DEFINE g == [s \in D |-> IF s = k + 1 THEN DivisorFrom(f, k + 1) ELSE f[s]]
    <2>1. \A s \in D : s # k + 1 => g[s] = f[s]
      OBVIOUS
    <2>2. g[k + 1] = DivisorFrom(f, k + 1) /\ g = [s \in D |-> g[s]]
      BY <1>1, <1>3
    <2> HIDE DEF g
    <2>3. ASSUME NEW s \in D, s <= k + 1 PROVE DivisorFrom(g, s) = DivisorFrom(f, s)
      <3>1. CASE s = 0
        BY <3>1 DEF DivisorFrom
      <3>2. CASE s # 0
        <4>1. s - 1 \in D /\ s - 1 # k + 1
          BY <3>2, <2>3, <1>1, <1>3
        <4> QED
          BY <4>1, <2>1, <3>2 DEF DivisorFrom
      <3> QED
        BY <3>1, <3>2
    <2>4. ASSUME NEW s \in D, s <= k + 1 PROVE g[s] = DivisorFrom(g, s)
      <3>1. CASE s = k + 1
        BY <3>1, <2>2, <2>3, <2>4
      <3>2. CASE s # k + 1
        <4>1. s <= k
          BY <3>2, <2>4, <1>1, <1>3
        <4>2. f[s] = DivisorFrom(f, s)
          BY <4>1, <1>3
        <4> QED
          BY <3>2, <4>2, <2>1, <2>3, <2>4
      <3> QED
        BY <3>1, <3>2
    <2> QED
      BY <2>2, <2>4
  <1> HIDE DEF Solves, n
  <1>4. Unsolved = {}
    <2> SUFFICES ASSUME Unsolved # {} PROVE FALSE
      OBVIOUS
    <2>1. Unsolved \in SUBSET Nat
      BY <1>1
    <2>2. PICK k \in Unsolved : \A j \in Unsolved : k <= j
      BY <2>1, LeastNumber
    <2>3. k \in D /\ k # 0 /\ ~ \E f : Solves(f, k)
      BY <2>2, <1>2
    <2>4. k - 1 \in D /\ k - 1 < n /\ (k - 1) + 1 = k /\ k - 1 \notin Unsolved
      BY <2>2, <2>3, <1>1
    <2>5. PICK f : Solves(f, k - 1)
      BY <2>4
    <2> QED
      BY <2>3, <2>4, <2>5, <1>3
  <1>5. PICK f : Solves(f, n)
    <2>1. n \in D
      BY <1>1
    <2>2. n \notin Unsolved
      BY <1>4
    <2> QED
      BY <2>1, <2>2
  <1>6. f = [s \in D |-> DivisorFrom(f, s)]
    <2>1. f = [s \in D |-> f[s]] /\ \A s \in D : f[s] = DivisorFrom(f, s)
      BY <1>5, <1>1 DEF Solves
    <2> QED
      BY <2>1
  <1>7. Lb!res = CHOOSE h : h = [s \in D |-> DivisorFrom(h, s)]
    BY DEF Lb!res, DivisorFrom, n
  <1>8. Lb!res = [s \in D |-> DivisorFrom(Lb!res, s)]
    <2> DEFINE Right(h) == h = [s \in D |-> DivisorFrom(h, s)]
    <2>1. Right(f)
      BY <1>6
    <2>2. Right(CHOOSE h : Right(h))
      BY <2>1
    <2> QED
      BY <2>2, <1>7
  <1> QED
    BY <1>8 DEF n

(* max_gcd_ divides every weight.                                            *)
LEMMA WeightsDivided ==
  ASSUME weights \in Seq(Nat), Lb!N > 0
  PROVE  Lb!MaxGcd \in Nat /\ \A h \in Lb!Hosts : Divides(Lb!MaxGcd, Lb!W(h))
  <1> DEFINE n == Lb!N
             r == Lb!res
             Right(i) == r[i] \in Nat /\ \A j \in 1..i : Divides(r[i], weights[j])
             Wrong == {i \in 0..n : ~Right(i)}
  <1>1. n \in Nat /\ n > 0 /\ \A i \in 1..n : weights[i] \in Nat
    BY DEF Lb!N
  <1>2. \A i \in 0..n : r[i] = IF i = 0 THEN weights[1] ELSE Lb!gcd(r[i - 1], weights[i])
    BY DivisorExists DEF DivisorFrom
  <1> HIDE DEF n, r
  <1>3. Right(0)
    BY <1>1, <1>2
  <1>4. ASSUME NEW i \in 0..n, i < n, Right(i) PROVE Right(i + 1)
    <2>1. i + 1 \in 1..n /\ (i + 1) - 1 = i
      BY <1>1, <1>4
    <2>2. r[i + 1] = Lb!gcd(r[i], weights[i + 1]) /\ weights[i + 1] \in Nat
      BY <1>1, <1>2, <2>1
    <2>3. /\ r[i + 1] \in Nat /\ Divides(r[i + 1], weights[i + 1]) /\ Divides(r[i + 1], r[i])
      BY <2>2, <1>4, GcdDivides
    <2>4. ASSUME NEW j \in 1..(i + 1) PROVE Divides(r[i + 1], weights[j])
      <3>1. CASE j = i + 1
        BY <3>1, <2>3
      <3>2. CASE j # i + 1
        <4>1. j \in 1..i /\ j \in 1..n
          BY <3>2, <2>1, <2>4, <1>1, <1>4
        <4>2. Divides(r[i], weights[j]) /\ weights[j] \in Nat /\ r[i] \in Nat
          BY <4>1, <1>4, <1>1
        <4> QED
          BY <4>2, <2>3, DividesOn
      <3> QED
        BY <3>1, <3>2
    <2> QED
      BY <2>3, <2>4
  <1> HIDE DEF Right
  <1>5. Wrong = {}
    <2> SUFFICES ASSUME Wrong # {} PROVE FALSE
      OBVIOUS
    <2>1. Wrong \in SUBSET Nat
      BY <1>1
    <2>2. PICK k \in Wrong : \A j \in Wrong : k <= j
      BY <2>1, LeastNumber
    <2>3. k \in 0..n /\ k # 0 /\ ~Right(k)
      BY <2>2, <1>3
    <2>4. k - 1 \in 0..n /\ k - 1 < n /\ (k - 1) + 1 = k /\ k - 1 \notin Wrong
      BY <2>2, <2>3, <1>1
    <2> QED
      BY <2>3, <2>4, <1>4
  <1>6. Right(n)
    BY <1>5, <1>1
  <1>7. Lb!MaxGcd = r[n]
    BY DEF Lb!MaxGcd, n, r
  <1>8. ASSUME NEW h \in Lb!Hosts PROVE Divides(Lb!MaxGcd, Lb!W(h))
    <2>1. h + 1 \in 1..n
      BY <1>1 DEF Lb!Hosts, n
    <2> QED
      BY <2>1, <1>6, <1>7 DEF Lb!W, Right
  <1> QED
    BY <1>6, <1>7, <1>8 DEF Right

(* max_weight_ is one of the weights, and none is greater.                   *)
LEMMA WeightsBounded ==
  ASSUME weights \in Seq(Nat), Lb!N > 0
  PROVE  /\ Lb!MaxWeight \in Nat
         /\ \E h \in Lb!Hosts : Lb!W(h) = Lb!MaxWeight
         /\ \A h \in Lb!Hosts : Lb!W(h) <= Lb!MaxWeight
  <1> DEFINE T == {Lb!W(h) : h \in Lb!Hosts}
  <1>1. Lb!N \in Nat /\ \A h \in Lb!Hosts : Lb!W(h) \in Nat
    BY DEF Lb!N, Lb!Hosts, Lb!W
  <1>2. Lb!ToSet(weights) = T
    <2>1. ASSUME NEW i \in 1..Lb!N PROVE weights[i] \in T
      <3>1. i - 1 \in Lb!Hosts /\ (i - 1) + 1 = i
        BY <1>1 DEF Lb!Hosts
      <3> QED
        BY <3>1 DEF Lb!W
    <2>2. ASSUME NEW h \in Lb!Hosts PROVE h + 1 \in 1..Lb!N
      BY <1>1 DEF Lb!Hosts
    <2>3. DOMAIN weights = 1..Lb!N
      BY DEF Lb!N
    <2>4. Lb!ToSet(weights) = {weights[i] : i \in 1..Lb!N}
      BY <2>3 DEF Lb!ToSet
    <2> QED
      BY <2>1, <2>2, <2>4 DEF Lb!W
  <1>3. IsFiniteSet(T)
    <2>1. IsFiniteSet(Lb!Hosts)
      BY <1>1, FS_Interval DEF Lb!Hosts
    <2>2. [h \in Lb!Hosts |-> Lb!W(h)] \in Surjection(Lb!Hosts, T)
      BY DEF Surjection
    <2> QED
      BY <2>1, <2>2, FS_Surjection
  <1>4. PICK m \in T : \A k \in T : m >= k
    <2>1. T \in SUBSET Nat /\ T # {}
      <3>1. 0 \in Lb!Hosts
        BY <1>1 DEF Lb!Hosts
      <3> QED
        BY <1>1, <3>1
    <2> HIDE DEF T
    <2> QED
      BY <1>3, <2>1, GreatestOfFinite
  <1>5. Lb!MaxWeight = CHOOSE x \in T : \A y \in T : x >= y
    BY <1>2 DEF Lb!MaxWeight, Lb!Max
  <1>6. Lb!MaxWeight \in T /\ \A k \in T : Lb!MaxWeight >= k
    <2> HIDE DEF T
    <2> QED
      BY <1>4, <1>5
  <1> QED
    BY <1>1, <1>6

-----------------------------------------------------------------------------
(* LoadBlancer, the weighted round robin: between two turns of the maximum   *)
(* a host has been taken once for each step by which the weight to be        *)
(* reached has come down to its own or below.                                *)

Positive(x) == IF x > 0 THEN x ELSE 0

(* What the picks of a host of weight v amount to, when hosts up to c have   *)
(* been looked at with weight w.                                             *)
Share(v, w, c, h) == Positive(IF h <= c THEN (v - w) + Lb!MaxGcd ELSE v - w)

Counted ==
  /\ weight \in Nat /\ current \in -1..(Lb!N - 1)
  /\ weight = 0 => Lb!MaxWeight = 0 \/ current = -1
  /\ weight # 0 =>
       /\ current \in Lb!Hosts /\ weight <= Lb!MaxWeight /\ Divides(Lb!MaxGcd, weight)
       /\ \A h \in Lb!Hosts : picks[h] * Lb!MaxGcd = Share(Lb!W(h), weight, current, h)

RoundInv ==
  /\ weights \in Seq(Nat) /\ picks \in [Lb!Hosts -> Nat]
  /\ step \in {"pick", "test"} => Lb!N > 1
  /\ algorithm = "WRR" /\ Lb!N > 1 => Counted

(* Multiples of a number differ by it at least.                              *)
LEMMA MultiplesApart ==
  ASSUME NEW g \in Nat, NEW x \in Nat, NEW y \in Nat, Divides(g, x), Divides(g, y), x < y
  PROVE  x + g <= y /\ Divides(g, y - g)
  <1> PICK a \in Nat : x = a * g
    BY DEF Divides
  <1> PICK b \in Nat : y = b * g
    BY DEF Divides
  <1>1. \A i, k \in Nat : (i + k) * g = i * g + k * g /\ i * g \in Nat /\ 1 * g = g
    OBVIOUS
  <1>2. a < b
    <2>1. CASE b <= a
      <3>1. a - b \in Nat /\ a = b + (a - b)
        BY <2>1
      <3>2. a * g = b * g + (a - b) * g /\ (a - b) * g \in Nat
        BY <3>1, <1>1
      <3>3. PICK d \in Nat : d = (a - b) * g
        BY <3>2
      <3> QED
        BY <3>2, <3>3
    <2> QED
      BY <2>1
  <1>3. PICK k \in Nat : b = a + (1 + k)
    <2>1. b - a - 1 \in Nat /\ b = a + (1 + (b - a - 1))
      BY <1>2
    <2> QED
      BY <2>1
  <1>4. b * g = a * g + (1 + k) * g /\ (1 + k) * g = g + k * g /\ k * g \in Nat
    <2>1. 1 + k \in Nat /\ 1 \in Nat
      OBVIOUS
    <2> QED
      BY <2>1, <1>1, <1>3
  <1>5. (a + k) * g = a * g + k * g /\ a + k \in Nat
    BY <1>1
  <1>6. PICK d \in Nat : d = k * g
    BY <1>4
  <1>7. y = x + (g + d)
    BY <1>4, <1>6
  <1>8. y - g = x + d
    BY <1>7
  <1>9. y - g = (a + k) * g
    BY <1>8, <1>5, <1>6
  <1>10. x + g <= y
    BY <1>7
  <1>11. Divides(g, y - g)
    BY <1>9, <1>5 DEF Divides
  <1> QED
    BY <1>10, <1>11

(* The maximum and the divisor of the same weights are the same.             *)
LEMMA SameWeights ==
  ASSUME UNCHANGED weights
  PROVE  /\ Lb!N' = Lb!N /\ Lb!Hosts' = Lb!Hosts
         /\ Lb!MaxGcd' = Lb!MaxGcd /\ Lb!MaxWeight' = Lb!MaxWeight
         /\ \A h : Lb!W(h)' = Lb!W(h)
  <1>1. Lb!N' = Lb!N /\ Lb!Hosts' = Lb!Hosts /\ \A h : Lb!W(h)' = Lb!W(h)
    BY DEF Lb!N, Lb!Hosts, Lb!W
  <1>2. Lb!MaxWeight' = Lb!MaxWeight
    BY DEF Lb!MaxWeight, Lb!Max, Lb!ToSet
  <1>3. Lb!MaxGcd' = Lb!MaxGcd
    BY DEF Lb!MaxGcd, Lb!res, Lb!N
  <1> QED
    BY <1>1, <1>2, <1>3

(* A balancer that has not chosen anything has given nobody a turn. *)
LEMMA RoundInit == Lb!Init => RoundInv
  <1> SUFFICES ASSUME Lb!Init PROVE RoundInv
    OBVIOUS
  <1> PICK config \in Configs : algorithm = config[1] /\ weights = config[2]
    BY DEF Lb!Init
  <1>1. weights \in Seq(Nat)
    BY InstanceAssumption DEF Lb!LbAssumption
  <1>2. picks \in [Lb!Hosts -> Nat] /\ step = "none" /\ weight = 0 /\ current = -1
    BY DEF Lb!Init
  <1> QED
    BY <1>1, <1>2 DEF RoundInv, Counted, Lb!N

(* A turn of the loop counts the host if its weight reaches what is asked.   *)
LEMMA TurnCounted ==
  ASSUME RoundInv, Lb!PickWRR
  PROVE  Counted' /\ picks' \in [Lb!Hosts -> Nat]
  <1> DEFINE g == Lb!MaxGcd
             m == Lb!MaxWeight
             n == Lb!N
             w == weight
             c == Lb!NextHost
             v == Lb!NextWeight
             counted == IF Lb!RoundBegins THEN [h \in Lb!Hosts |-> 0] ELSE picks
  <1>1. /\ step = "pick" /\ algorithm = "WRR" /\ UNCHANGED weights
        /\ current' = c /\ weight' = v
        /\ picks' = IF Lb!W(c) >= v THEN [counted EXCEPT ![c] = @ + 1] ELSE counted
    BY DEF Lb!PickWRR, Lb!Picking, Lb!pools
  <1>2. n \in Nat /\ n > 1 /\ Counted /\ weights \in Seq(Nat) /\ picks \in [Lb!Hosts -> Nat]
    BY <1>1 DEF RoundInv, Lb!N
  <1>3. /\ g \in Nat /\ m \in Nat
        /\ \A h \in Lb!Hosts : Lb!W(h) <= m /\ Divides(g, Lb!W(h)) /\ Lb!W(h) \in Nat
    BY <1>2, WeightsDivided, WeightsBounded DEF Lb!W, Lb!Hosts, Lb!N
  <1>4. Divides(g, m)
    BY <1>2, <1>3, WeightsBounded
  <1>5. /\ c = IF current = n - 1 THEN 0 ELSE current + 1
        /\ c \in Lb!Hosts /\ current \in -1..(n - 1)
    <2>1. \A k \in 0..(n - 1) : k % n = k
      BY <1>2
    <2>2. n % n = 0
      BY <1>2
    <2>3. current \in -1..(n - 1)
      BY <1>2 DEF Counted
    <2>4. CASE current = n - 1
      BY <2>2, <2>4, <1>2 DEF Lb!NextHost, Lb!Hosts
    <2>5. CASE current # n - 1
      <3>1. current + 1 \in 0..(n - 1) /\ current + 1 # n
        BY <2>3, <2>5, <1>2
      <3> QED
        BY <3>1, <2>1, <2>5, <2>3 DEF Lb!NextHost, Lb!Hosts
    <2> QED
      BY <2>4, <2>5
  <1>6. counted \in [Lb!Hosts -> Nat] /\ picks' \in [Lb!Hosts -> Nat]
    BY <1>1, <1>2, <1>5
  <1>7. w \in Nat /\ v = IF c = 0 THEN IF w - g <= 0 THEN m ELSE w - g ELSE w
    BY <1>2 DEF Counted, Lb!NextWeight, Lb!Lowered
  <1>8. Lb!RoundBegins <=> c = 0 /\ w - g <= 0
    BY DEF Lb!RoundBegins
  <1>9. \A h \in Lb!Hosts :
          picks'[h] = IF h = c /\ Lb!W(c) >= v THEN counted[h] + 1 ELSE counted[h]
    BY <1>1, <1>6, <1>5
  <1>10. v \in Nat /\ v <= m /\ Divides(g, v)
    <2>1. CASE w = 0
      <3>1. m = 0 \/ c = 0
        BY <2>1, <1>2, <1>5 DEF Counted
      <3>2. v = m
        BY <2>1, <3>1, <1>7, <1>3
      <3> QED
        BY <3>2, <1>3, <1>4
    <2>2. CASE w # 0
      <3>1. Divides(g, w) /\ w <= m
        BY <2>2, <1>2 DEF Counted
      <3>2. Divides(g, 0)
        <4>1. 0 = 0 * g
          BY <1>3
        <4> QED
          BY <4>1 DEF Divides
      <3>3. 0 + g <= w /\ Divides(g, w - g)
        BY <3>1, <3>2, <2>2, <1>3, <1>7, MultiplesApart
      <3> QED
        BY <3>1, <3>3, <1>3, <1>4, <1>7
    <2> QED
      BY <2>1, <2>2
  <1>11. v = 0 => m = 0
    <2>1. w = 0 /\ m # 0 => v = m
      BY <1>2, <1>5, <1>7, <1>3 DEF Counted
    <2>2. w # 0 => (v = 0 => m = 0)
      BY <1>7, <1>3
    <2> QED
      BY <2>1, <2>2
  <1>12. ASSUME v # 0, NEW h \in Lb!Hosts
         PROVE  picks'[h] * g = Share(Lb!W(h), v, c, h)
    <2> DEFINE val == Lb!W(h)
               p == picks[h]
    <2>1. /\ h \in Nat /\ h <= n - 1 /\ val \in Nat /\ val <= m /\ Divides(g, val) /\ p \in Nat
          /\ c \in Nat /\ c <= n - 1
      BY <1>2, <1>3, <1>5 DEF Lb!Hosts
    <2>2. PICK x \in Nat : x = p * g /\ (p + 1) * g = x + g /\ 0 * g = 0 /\ (0 + 1) * g = g
      <3>1. \A i, j \in Nat : i * j \in Nat /\ (i + 1) * j = i * j + j /\ 0 * j = 0 /\ (0 + 1) * j = j
        OBVIOUS
      <3> QED
        BY <3>1, <2>1, <1>3
    <2>3. val < v => val + g <= v
      BY <2>1, <1>3, <1>10, MultiplesApart
    <2>4. picks'[h] = IF h = c /\ val >= v THEN counted[h] + 1 ELSE counted[h]
      BY <1>9
    <2>5. w # 0 => x = Positive(IF h <= current THEN (val - w) + g ELSE val - w)
      BY <1>2, <2>2 DEF Counted, Share
    <2>6. Share(val, v, c, h) = Positive(IF h <= c THEN (val - v) + g ELSE val - v)
      BY DEF Share
    <2>7. counted[h] = IF c = 0 /\ w - g <= 0 THEN 0 ELSE p
      BY <1>8
    <2>8. c = 0 => current \in {-1, n - 1}
      BY <1>5
    <2> HIDE DEF g, m, n, w, c, counted, v, p
    <2>9. CASE c = 0 /\ w - g <= 0
      <3>1. v = m /\ counted[h] = 0
        BY <2>9, <1>7, <2>7
      <3>2. CASE h = 0 /\ val = m
        <4>1. picks'[h] * g = g
          BY <3>1, <3>2, <2>4, <2>9, <2>2, <1>3
        <4>2. Share(val, v, c, h) = g
          BY <3>1, <3>2, <2>6, <2>9, <1>3 DEF Positive
        <4> QED
          BY <4>1, <4>2
      <3>3. CASE ~(h = 0 /\ val = m)
        <4>1. picks'[h] * g = 0
          <5>1. ~(h = c /\ val >= v)
            BY <3>1, <3>3, <2>9, <2>1, <1>3
          <5> QED
            BY <5>1, <2>4, <3>1, <2>2
        <4>2. Share(val, v, c, h) = 0
          BY <3>1, <3>3, <2>6, <2>9, <1>3, <2>1, <2>3 DEF Positive
        <4> QED
          BY <4>1, <4>2
      <3> QED
        BY <3>2, <3>3
    <2>10. CASE c = 0 /\ ~(w - g <= 0)
      <3>1. v = w - g /\ counted[h] = p /\ w # 0 /\ w > g
        BY <2>10, <1>7, <2>7, <1>3
      <3>2. h <= current
        <4>1. current # -1
          BY <3>1, <1>2 DEF Counted, w, Lb!Hosts
        <4> QED
          BY <4>1, <2>1, <2>8, <2>10, <1>2
      <3>3. x = Positive((val - w) + g)
        BY <2>5, <3>1, <3>2
      <3>4. CASE h = 0 /\ val >= v
        <4>1. picks'[h] * g = x + g
          BY <3>1, <3>4, <2>4, <2>10, <2>2
        <4>2. Share(val, v, c, h) = x + g
          BY <3>1, <3>3, <3>4, <2>6, <2>10, <1>3, <1>7, <2>1 DEF Positive
        <4> QED
          BY <4>1, <4>2
      <3>5. CASE ~(h = 0 /\ val >= v)
        <4>1. picks'[h] * g = x
          BY <3>1, <3>5, <2>4, <2>10, <2>2
        <4>2. Share(val, v, c, h) = x
          BY <3>1, <3>3, <3>5, <2>6, <2>10, <1>3, <1>7, <2>1, <2>3 DEF Positive
        <4> QED
          BY <4>1, <4>2
      <3> QED
        BY <3>4, <3>5
    <2>11. CASE c # 0
      <3>1. v = w /\ counted[h] = p /\ w # 0 /\ c = current + 1 /\ current \in -1..(n - 1)
        BY <2>11, <1>7, <2>7, <1>5, <1>12
      <3>2. x = Positive(IF h <= current THEN (val - w) + g ELSE val - w)
        BY <2>5, <3>1
      <3>3. CASE h = c /\ val >= v
        <4>1. picks'[h] * g = x + g
          BY <3>1, <3>3, <2>4, <2>2
        <4>2. Share(val, v, c, h) = x + g
          BY <3>1, <3>2, <3>3, <2>6, <1>3, <1>7, <2>1 DEF Positive
        <4> QED
          BY <4>1, <4>2
      <3>4. CASE ~(h = c /\ val >= v)
        <4>1. picks'[h] * g = x
          BY <3>1, <3>4, <2>4, <2>2
        <4>2. Share(val, v, c, h) = x
          BY <3>1, <3>2, <3>4, <2>6, <1>3, <1>7, <2>1, <2>3 DEF Positive
        <4> QED
          BY <4>1, <4>2
      <3> QED
        BY <3>3, <3>4
    <2> QED
      BY <2>9, <2>10, <2>11
  <1>13. /\ Lb!N' = n /\ Lb!Hosts' = Lb!Hosts /\ Lb!MaxGcd' = g /\ Lb!MaxWeight' = m
         /\ \A h : Lb!W(h)' = Lb!W(h)
    BY <1>1, SameWeights
  <1>14. weight' = v /\ current' = c /\ c \in -1..(n - 1)
    BY <1>1, <1>5, <1>2 DEF Lb!Hosts
  <1>15. \A h : Share(Lb!W(h), weight, current, h)' = Share(Lb!W(h), v, c, h)
    BY <1>13, <1>14 DEF Share
  <1> HIDE DEF g, m, n, w, c, counted, v
  <1> QED
    BY <1>5, <1>6, <1>10, <1>11, <1>12, <1>13, <1>14, <1>15 DEF Counted

(* So does every step of a balancer. *)
LEMMA RoundStep == RoundInv /\ [Lb!Next]_lbVars => RoundInv'
  <1> SUFFICES ASSUME RoundInv, [Lb!Next]_lbVars PROVE RoundInv'
    OBVIOUS
  <1>1. ASSUME UNCHANGED <<weights, algorithm, current, weight, picks>>,
               step' \in {"pick", "test"} => step \in {"pick", "test"} \/ Lb!N > 1
        PROVE  RoundInv'
    <2>1. /\ Lb!N' = Lb!N /\ Lb!Hosts' = Lb!Hosts
          /\ Lb!MaxGcd' = Lb!MaxGcd /\ Lb!MaxWeight' = Lb!MaxWeight
          /\ \A h : Lb!W(h)' = Lb!W(h)
      BY <1>1, SameWeights
    <2>2. Counted => Counted'
      BY <2>1, <1>1 DEF Counted, Share
    <2> QED
      BY <2>1, <2>2, <1>1 DEF RoundInv
  <1>2. CASE \E t \in Threads : Lb!Ask(t)
    BY <1>1, <1>2 DEF Lb!Ask, Lb!FindPool, Lb!MakePool, Lb!EmplacePool, Lb!ReadPool, Lb!Balancing
  <1>3. CASE \/ \E h \in Lb!Hosts : Lb!AliveChanges(h)
             \/ Lb!SendRequest \/ Lb!TestAlive \/ Lb!Send
    BY <1>1, <1>3 DEF Lb!AliveChanges, Lb!SendRequest, Lb!TestAlive, Lb!Send, Lb!pools
  <1>4. CASE Lb!PickRR \/ Lb!PickRandom
    <2>1. /\ algorithm # "WRR" /\ UNCHANGED <<weights, algorithm>> /\ step = "pick"
          /\ \E h : picks' = [picks EXCEPT ![h] = picks[h] + 1]
      BY <1>4 DEF Lb!PickRR, Lb!PickRandom, Lb!Picking, Lb!Choose, Lb!pools
    <2>2. picks' \in [Lb!Hosts -> Nat]
      <3>1. picks \in [Lb!Hosts -> Nat]
        BY DEF RoundInv
      <3>2. PICK h : picks' = [picks EXCEPT ![h] = picks[h] + 1]
        BY <2>1
      <3>3. \A k \in Lb!Hosts : picks[k] + 1 \in Nat
        BY <3>1
      <3> QED
        BY <3>1, <3>2, <3>3, Zenon
    <2>3. Lb!N' = Lb!N /\ Lb!Hosts' = Lb!Hosts
      BY <2>1, SameWeights
    <2> QED
      BY <2>1, <2>2, <2>3 DEF RoundInv
  <1>5. CASE Lb!PickWRR
    <2>1. Counted' /\ picks' \in [Lb!Hosts -> Nat]
      BY <1>5, TurnCounted
    <2>2. UNCHANGED weights /\ step = "pick"
      BY <1>5 DEF Lb!PickWRR, Lb!Picking, Lb!pools
    <2>3. Lb!N' = Lb!N /\ Lb!Hosts' = Lb!Hosts
      BY <2>2, SameWeights
    <2> QED
      BY <2>1, <2>2, <2>3 DEF RoundInv
  <1>6. CASE UNCHANGED lbVars
    BY <1>1, <1>6 DEF lbVars
  <1> QED
    BY <1>2, <1>3, <1>4, <1>5, <1>6 DEF Lb!Next

(* When the maximum has its turn again, every host has had its share.        *)
LEMMA RoundIsFair ==
  ASSUME RoundInv, step = "pick", algorithm = "WRR", Lb!RoundBegins, weight # 0,
         NEW h \in Lb!Hosts
  PROVE  picks[h] * Lb!MaxGcd = Lb!W(h)
  <1>1. Lb!N \in Nat /\ Lb!N > 1 /\ Counted /\ weights \in Seq(Nat)
    BY DEF RoundInv, Lb!N
  <1>2. /\ Lb!MaxGcd \in Nat /\ Divides(Lb!MaxGcd, Lb!W(h)) /\ Lb!W(h) \in Nat
    BY <1>1, WeightsDivided DEF Lb!W, Lb!Hosts, Lb!N
  <1>3. /\ weight \in Nat /\ Divides(Lb!MaxGcd, weight) /\ current \in 0..(Lb!N - 1)
        /\ picks[h] * Lb!MaxGcd = Share(Lb!W(h), weight, current, h)
    BY <1>1 DEF Counted, Lb!Hosts
  <1>4. current = Lb!N - 1
    <2>1. \A k \in 0..(Lb!N - 1) : k % Lb!N = k
      BY <1>1
    <2>2. (current + 1) % Lb!N = 0
      BY DEF Lb!RoundBegins, Lb!NextHost
    <2> QED
      BY <2>1, <2>2, <1>1, <1>3
  <1>5. Divides(Lb!MaxGcd, 0)
    <2>1. 0 = 0 * Lb!MaxGcd
      BY <1>2
    <2> QED
      BY <2>1 DEF Divides
  <1>6. weight = Lb!MaxGcd
    <2>1. 0 + Lb!MaxGcd <= weight
      BY <1>2, <1>3, <1>5, MultiplesApart
    <2>2. weight - Lb!MaxGcd <= 0
      BY DEF Lb!RoundBegins
    <2> QED
      BY <2>1, <2>2, <1>2, <1>3
  <1>7. h <= current
    BY <1>4, <1>1 DEF Lb!Hosts
  <1> QED
    BY <1>2, <1>3, <1>6, <1>7 DEF Share, Positive

(* load_blancer: with weighted round robin, for any weights of any number of *)
(* hosts, each is taken as often as its weight says, in units of the common  *)
(* divisor, between two turns of the maximum.                                *)
THEOREM WeightsAlwaysRespected == MCSpec => WeightsRespected
  <1>1. RoundInv => (step = "pick" /\ algorithm = "WRR" /\ Lb!RoundBegins /\ weight # 0 =>
                       (step' # "none" => \A h \in Lb!Hosts : picks[h] * Lb!MaxGcd = Lb!W(h)))
    BY RoundIsFair
  <1> QED
    BY <1>1, LbRuns, RoundInit, RoundStep, PTL
    DEF MCSpec, WeightsRespected, Lb!WeightsRespected

-----------------------------------------------------------------------------
(* RateLimiter.  nextFree - stored is the time up to which everything that   *)
(* was granted has been paid for: resync() never lowers it, and a grant      *)
(* raises it by its cost.                                                    *)

Even(n) == n \in Nat /\ n % 2 = 0
Grants == [at : Int, before : Int, after : Int]

RateTypeOK ==
  /\ now \in Nat /\ nextFree \in Nat
  /\ Even(interval) /\ Even(stored) /\ stored <= Burst
  /\ grants \in Seq(Grants)

(* What was granted from grant i on has been paid from a full bucket or is   *)
(* paid in the time after it.                                                *)
PaidFor ==
  \A i \in 1..Len(grants) :
    Rate!Granted - grants[i].before <= Burst + (nextFree - stored) - grants[i].at

RateInv == RateTypeOK /\ PaidFor /\ RateHolds

(* resync() keeps stored in its range and does not take back what is paid.   *)
LEMMA Resync ==
  ASSUME RateTypeOK
  PROVE  /\ Rate!NextFree \in Nat /\ Even(Rate!Stored) /\ Rate!Stored <= Burst
         /\ nextFree - stored <= Rate!NextFree - Rate!Stored
         /\ now <= Rate!NextFree
  <1> USE InstanceAssumption
      DEF Rate!RateAssumption, RateTypeOK, Even, Rate!NextFree, Rate!Larger
  <1>1. /\ Rate!Passed \in Nat /\ Rate!Passed % 2 = 0
        /\ Rate!Passed <= Rate!NextFree - nextFree
    BY DEF Rate!Passed, Rate!Cut
  <1>2. /\ Rate!Stored \in Nat /\ Rate!Stored <= Burst
        /\ Rate!Stored <= stored + Rate!Passed /\ Rate!Stored % 2 = 0
    BY <1>1 DEF Rate!Stored, Rate!Smaller
  <1> QED
    BY <1>1, <1>2

(* What is paid for stays so when nextFree - stored rises by the cost. *)
LEMMA StillPaid ==
  ASSUME NEW total \in Int, NEW before \in Int, NEW at \in Int, NEW paid \in Int,
         NEW cost \in Int, NEW paidNow \in Int, Burst \in Int,
         paid + cost <= paidNow, total - before <= Burst + paid - at
  PROVE  (total + cost) - before <= Burst + paidNow - at
  OBVIOUS

(* A debt of at most one more than the next free time keeps the rate. *)
LEMMA WithinRate ==
  ASSUME NEW total \in Int, NEW before \in Int, NEW at \in Int, NEW paid \in Int,
         NEW until \in Int, Burst \in Int,
         paid <= until + 1, total - before <= Burst + paid - at
  PROVE  total - before < Burst + until - at + 2
  OBVIOUS

(* What was granted so far is a number. *)
LEMMA GrantedIsNumber == ASSUME RateTypeOK PROVE Rate!Granted \in Int
  <1>1. grants \in Seq(Grants)
    BY DEF RateTypeOK
  <1>2. CASE grants = <<>>
    BY <1>2 DEF Rate!Granted
  <1>3. CASE grants # <<>>
    <2>1. Len(grants) \in 1..Len(grants)
      BY <1>1, <1>3
    <2>2. grants[Len(grants)] \in Grants
      BY <1>1, <2>1
    <2> QED
      BY <1>3, <2>2 DEF Rate!Granted, Grants
  <1> QED
    BY <1>2, <1>3

(* The limiter starts with an empty bucket. *)
LEMMA RateInit == Rate!Init => RateInv
  BY InstanceAssumption
  DEF Rate!Init, RateInv, RateTypeOK, PaidFor, RateHolds, Rate!RateHolds, Even, Grants,
      Rate!RateAssumption

(* A grant preserves the invariant: it raises nextFree - stored by its cost. *)
LEMMA RateAcquire ==
  ASSUME RateInv, NEW c \in Callers, Rate!Acquire(c)
  PROVE  RateInv'
  <1>a. PICK permits \in Permits :
        /\ nextFree' = Rate!NextFree
              + Rate!Cut(permits * interval - Rate!Smaller(permits * interval, Rate!Stored))
        /\ stored' = Rate!Stored - Rate!Smaller(permits * interval, Rate!Stored)
        /\ grants' = Append(grants,
              [at |-> now + Rate!Cut(Rate!NextFree - now), before |-> Rate!Granted,
               after |-> Rate!Granted + permits * interval])
    BY DEF Rate!Acquire
  <1> DEFINE cost  == permits * interval
             until == now + Rate!Cut(Rate!NextFree - now)
             spent == Rate!Smaller(cost, Rate!Stored)
             n     == Len(grants)
  <1>1. /\ RateTypeOK /\ PaidFor /\ RateHolds /\ UNCHANGED <<now, interval>>
        /\ Burst \in Nat
    BY InstanceAssumption DEF RateInv, Rate!Acquire, Rate!RateAssumption
  <1>2. cost \in Nat
    BY <1>1, InstanceAssumption DEF Rate!RateAssumption, RateTypeOK, Even
  <1>e. cost % 2 = 0 /\ Rate!Stored % 2 = 0
    <2>1. permits \in Nat /\ interval \in Nat
      BY <1>1, InstanceAssumption DEF Rate!RateAssumption, RateTypeOK, Even
    <2>2. PICK k \in Nat : interval = 2 * k
      BY <1>1, <2>1 DEF RateTypeOK, Even
    <2>3. cost = 2 * (permits * k)
      BY <2>1, <2>2
    <2>4. permits * k \in Nat
      BY <2>1
    <2>5. Rate!Stored % 2 = 0
      BY <1>1, Resync DEF Even
    <2> HIDE DEF cost
    <2> QED
      BY <2>3, <2>4, <2>5
  <1> HIDE DEF cost
  <1>0. /\ Rate!NextFree \in Nat /\ now \in Nat /\ now <= Rate!NextFree
        /\ Rate!Stored \in Nat /\ Rate!Stored <= Burst
        /\ nextFree \in Nat /\ stored \in Nat
        /\ nextFree - stored <= Rate!NextFree - Rate!Stored
    BY <1>1, Resync DEF Even, RateTypeOK
  <1>3. /\ until \in Int /\ until <= Rate!NextFree /\ Rate!NextFree < until + 2
    BY <1>0 DEF Rate!Cut
  <1>4. /\ spent = cost \/ spent = Rate!Stored
        /\ spent \in Nat /\ spent <= Rate!Stored /\ spent <= cost
    BY <1>2, <1>0 DEF Rate!Smaller
  <1>5. /\ nextFree' = Rate!NextFree + cost - spent
        /\ stored' = Rate!Stored - spent
    <2>1. cost - spent \in Nat /\ (cost - spent) % 2 = 0
      <3> HIDE DEF spent
      <3>1. spent % 2 = 0
        BY <1>4, <1>e
      <3> QED
        BY <3>1, <1>2, <1>4, <1>e
    <2>2. Rate!Cut(cost - spent) = cost - spent
      <3> HIDE DEF spent
      <3> QED
        BY <2>1 DEF Rate!Cut
    <2>3. nextFree' = Rate!NextFree + Rate!Cut(cost - spent) /\ stored' = Rate!Stored - spent
      BY <1>a DEF cost
    <2> HIDE DEF spent
    <2> QED
      BY <2>1, <2>2, <2>3, <1>0, <1>2, <1>4
  <1> HIDE DEF spent, until
  <1>6. Rate!Granted \in Int
    BY <1>1, GrantedIsNumber
  <1>7. grants' = Append(grants, [at |-> until, before |-> Rate!Granted,
                                  after |-> Rate!Granted + cost])
    BY <1>a DEF cost, until
  <1>8. RateTypeOK'
    <2>1. grants' \in Seq(Grants)
      BY <1>1, <1>7, <1>6, <1>2, <1>3 DEF RateTypeOK, Grants
    <2>2. nextFree' \in Nat /\ stored' \in Nat /\ stored' <= Burst
      BY <1>5, <1>4, <1>2, <1>1, <1>0
    <2>3. stored' % 2 = 0
      BY <1>5, <1>4, <1>2, <1>0, <1>e
    <2> QED
      BY <2>1, <2>2, <2>3, <1>1 DEF RateTypeOK, Even
  <1>9. /\ n \in Nat /\ Len(grants') = n + 1
        /\ \A i \in 1..n : grants'[i] = grants[i] /\ grants[i] \in Grants
        /\ grants'[n + 1] = [at |-> until, before |-> Rate!Granted,
                             after |-> Rate!Granted + cost]
    BY <1>1, <1>7 DEF RateTypeOK
  <1>10. Rate!Granted' = Rate!Granted + cost
    BY <1>9 DEF Rate!Granted
  <1>11. ASSUME NEW i \in 1..n
         PROVE  Rate!Granted - grants[i].before
                  <= Burst + (Rate!NextFree - Rate!Stored) - grants[i].at
    <2>1. grants[i].before \in Int /\ grants[i].at \in Int
      BY <1>9 DEF Grants
    <2>2. Rate!Granted - grants[i].before <= Burst + (nextFree - stored) - grants[i].at
      BY <1>1 DEF PaidFor
    <2> QED
      BY <2>1, <2>2, <1>1, <1>6, <1>0, SMTT(20)
  <1>12. PaidFor'
    <2>1. ASSUME NEW i \in 1..(n + 1)
          PROVE  (Rate!Granted + cost) - grants'[i].before
                   <= Burst + (nextFree' - stored') - grants'[i].at
      <3>1. nextFree' - stored' = Rate!NextFree - Rate!Stored + cost
        BY <1>0, <1>2, <1>4, <1>5
      <3>2. nextFree' \in Int /\ stored' \in Int
        BY <1>0, <1>2, <1>4, <1>5
      <3>3. CASE i = n + 1
        <4>1. grants'[i].before = Rate!Granted /\ grants'[i].at = until
          BY <3>3, <1>9
        <4>2. Rate!Granted - Rate!Granted <= Burst + (Rate!NextFree - Rate!Stored) - until
          BY <1>0, <1>1, <1>3, <1>6
        <4>3. (Rate!NextFree - Rate!Stored) + cost <= nextFree' - stored'
          BY <3>1, <3>2
        <4>4. (Rate!Granted + cost) - Rate!Granted <= Burst + (nextFree' - stored') - until
          <5>1. /\ nextFree' - stored' \in Int /\ Rate!NextFree - Rate!Stored \in Int
                /\ cost \in Int /\ until \in Int /\ Burst \in Int
            BY <3>2, <1>0, <1>1, <1>2, <1>3
          <5> QED
            BY <5>1, <4>2, <4>3, <1>6, StillPaid
        <4> QED
          BY <4>1, <4>4
      <3>4. CASE i # n + 1
        <4>1. i \in 1..n /\ grants'[i] = grants[i]
          BY <3>4, <1>9
        <4>2. grants[i].before \in Int /\ grants[i].at \in Int
          BY <4>1, <1>9 DEF Grants
        <4>3. Rate!Granted - grants[i].before
                <= Burst + (Rate!NextFree - Rate!Stored) - grants[i].at
          BY <4>1, <1>11
        <4>4. (Rate!Granted + cost) - grants[i].before
                <= Burst + (nextFree' - stored') - grants[i].at
          <5>1. /\ nextFree' - stored' \in Int /\ Rate!NextFree - Rate!Stored \in Int
                /\ cost \in Int /\ Burst \in Int
            BY <3>2, <1>0, <1>1, <1>2
          <5>2. (Rate!NextFree - Rate!Stored) + cost <= nextFree' - stored'
            BY <3>1, <3>2
          <5> QED
            BY <5>1, <5>2, <4>2, <4>3, <1>6, StillPaid
        <4> QED
          BY <4>1, <4>4
      <3> QED
        BY <3>3, <3>4
    <2>2. Len(grants') = n + 1 /\ Rate!Granted' = Rate!Granted + cost
      BY <1>9, <1>10
    <2> QED
      BY <2>1, <2>2 DEF PaidFor
  <1>13. RateHolds'
    <2> SUFFICES ASSUME NEW j \in 1..(n + 1), NEW i \in 1..(j - 1)
                 PROVE  grants'[j].before - grants'[i].before
                          < Burst + grants'[j].at - grants'[i].at + 2
      BY <1>8, <1>9 DEF RateHolds, Rate!RateHolds, RateTypeOK
    <2>1. i \in 1..n /\ grants[i].before \in Int /\ grants[i].at \in Int
      BY <1>9 DEF Grants
    <2>3. CASE j = n + 1
      <3>1. grants'[i] = grants[i]
        BY <2>1, <1>9
      <3>2. grants'[j].before = Rate!Granted /\ grants'[j].at = until
        BY <2>3, <1>9
      <3>3. Rate!Granted - grants[i].before <= Burst + (Rate!NextFree - Rate!Stored) - grants[i].at
        BY <2>1, <1>11
      <3>4. PICK x \in Int : x = Rate!NextFree - Rate!Stored
        BY <1>0
      <3>5. x <= until + 1 /\ until \in Int
        BY <3>4, <1>0, <1>3
      <3>6. Rate!Granted - grants[i].before <= Burst + x - grants[i].at
        BY <3>3, <3>4
      <3>7. Burst \in Int
        BY <1>0, <1>1
      <3>8. Rate!Granted - grants[i].before < Burst + until - grants[i].at + 2
        <4> HIDE DEF until
        <4> QED
          BY <3>5, <3>6, <3>7, <2>1, <1>6, WithinRate
      <3> QED
        BY <3>1, <3>2, <3>8
    <2>4. CASE j # n + 1
      <3>1. j \in DOMAIN grants /\ i \in 1..(j - 1)
        BY <2>4, <1>9, <1>1 DEF RateTypeOK
      <3> QED
        BY <3>1, <2>1, <1>9, <1>1, <2>4 DEF RateHolds, Rate!RateHolds
    <2> QED
      BY <2>3, <2>4
  <1> QED
    BY <1>8, <1>12, <1>13 DEF RateInv

(* Every step of the limiter preserves the invariant. *)
LEMMA RateStep == RateInv /\ [Rate!Next]_rateVars => RateInv'
  <1> SUFFICES ASSUME RateInv, [Rate!Next]_rateVars PROVE RateInv'
    OBVIOUS
  <1>1. RateTypeOK /\ PaidFor /\ RateHolds /\ Burst \in Nat
    BY InstanceAssumption DEF RateInv, Rate!RateAssumption
  <1>2. ASSUME UNCHANGED <<nextFree, interval, stored, grants>>, now' \in Nat
        PROVE  RateInv'
    BY <1>1, <1>2 DEF RateInv, RateTypeOK, Even, PaidFor, RateHolds, Rate!RateHolds, Rate!Granted
  <1>3. CASE Rate!SetRate
    <2>1. /\ interval' \in Intervals /\ UNCHANGED <<now, grants>>
          /\ stored' = Rate!Stored /\ nextFree' = Rate!NextFree
      BY <1>3 DEF Rate!SetRate
    <2>2. RateTypeOK'
      BY <2>1, <1>1, Resync, InstanceAssumption DEF RateTypeOK, Even, Rate!RateAssumption
    <2>3. PaidFor'
      <3> SUFFICES ASSUME NEW i \in 1..Len(grants)
                   PROVE  Rate!Granted - grants[i].before
                            <= Burst + (nextFree' - stored') - grants[i].at
        BY <2>1 DEF PaidFor, Rate!Granted
      <3>0. grants[i] \in Grants
        BY <1>1 DEF RateTypeOK
      <3>1. grants[i].before \in Int /\ grants[i].at \in Int
        BY <3>0 DEF Grants
      <3>2. Rate!Granted \in Int
        BY <1>1, GrantedIsNumber
      <3>3. /\ Rate!NextFree \in Nat /\ Rate!Stored \in Nat /\ nextFree \in Nat /\ stored \in Nat
            /\ nextFree - stored <= Rate!NextFree - Rate!Stored
        BY <1>1, Resync DEF Even, RateTypeOK
      <3>4. Rate!Granted - grants[i].before <= Burst + (nextFree - stored) - grants[i].at
        BY <1>1 DEF PaidFor
      <3>5. Rate!Granted + 0 - grants[i].before
              <= Burst + (Rate!NextFree - Rate!Stored) - grants[i].at
        BY <3>1, <3>2, <3>3, <3>4, <1>1, StillPaid
      <3>6. nextFree' - stored' = Rate!NextFree - Rate!Stored
        BY <2>1
      <3>7. Rate!Granted + 0 = Rate!Granted
        BY <3>2
      <3> QED
        BY <3>1, <3>2, <3>3, <3>5, <3>6, <3>7, <2>1, <1>1
    <2> QED
      BY <2>1, <2>2, <2>3, <1>1 DEF RateInv, RateHolds, Rate!RateHolds
  <1>4. CASE Rate!Tick
    BY <1>4, <1>1, <1>2 DEF Rate!Tick, RateTypeOK
  <1>5. ASSUME NEW c \in Callers, Rate!WakeUp(c) PROVE RateInv'
    BY <1>5, <1>1, <1>2 DEF Rate!WakeUp, RateTypeOK
  <1>6. CASE UNCHANGED rateVars
    BY <1>6, <1>1, <1>2 DEF rateVars, RateTypeOK
  <1> QED
    BY <1>3, <1>4, <1>5, <1>6, RateAcquire DEF Rate!Next

(* rate_limiter: for every rate, every set_rate() between the requests and   *)
(* every number of callers, what is granted between two grants is paid from  *)
(* a full bucket and the time that lies between them.                        *)
THEOREM RateHoldsAlways == MCSpec => []RateHolds
  <1>1. RateInv => RateHolds
    BY DEF RateInv
  <1> QED
    BY <1>1, RateRuns, RateInit, RateStep, PTL DEF MCSpec

-----------------------------------------------------------------------------
(* MapSharded.  What the callers owe size_ is added up along an enumeration  *)
(* of them: Totals has the partial sums, from size_ to the size of the map.  *)

CallerState == [op : {"idle", "one", "erase_if", "erase_one", "copy"}, shard : Nat,
                keys : SUBSET Keys, owes : Int]

MapTypeOK ==
  /\ map \in SUBSET Keys
  /\ count \in Int
  /\ caller \in [Callers -> CallerState]
  /\ copied \in [Callers -> SUBSET Keys]
  /\ stayed \in [Callers -> SUBSET Keys]

Many == Cardinality(Callers)
Nth == CHOOSE f : f \in Bijection(1..Many, Callers)

Totals(p) ==
  /\ p \in [0..Many -> Int]
  /\ p[0] = count
  /\ \A i \in 1..Many : p[i] = p[i - 1] + caller[Nth[i]].owes
  /\ p[Many] = Cardinality(map)

(* A copy() has what stayed in the shards behind it. *)
Copies(t) ==
  /\ stayed[t] \subseteq map
  /\ caller[t].op = "copy" =>
       \A k \in stayed[t] : k % ShardNum < caller[t].shard => k \in copied[t]

MapInv == MapTypeOK /\ (\E p : Totals(p)) /\ \A t \in Callers : Copies(t)

(* The module of the map has the finite sets of this one. *)
LEMMA SameFiniteSets ==
  ASSUME NEW S
  PROVE  /\ Shards!IsFiniteSet(S) <=> IsFiniteSet(S)
         /\ Shards!Cardinality(S) = Cardinality(S)
  <1>1. Shards!IsFiniteSet(S) <=> IsFiniteSet(S)
    BY DEF Shards!IsFiniteSet, IsFiniteSet
  <1>2. Shards!Cardinality(S) = Cardinality(S)
    BY DEF Shards!Cardinality, Shards!IsFiniteSet, Cardinality, IsFiniteSet
  <1> QED
    BY <1>1, <1>2

(* The callers are enumerated, each once. *)
LEMMA Enumeration ==
  /\ Many \in Nat
  /\ Nth \in [1..Many -> Callers]
  /\ \A t \in Callers : \E i \in 1..Many : Nth[i] = t
  /\ \A i, j \in 1..Many : Nth[i] = Nth[j] => i = j
  <1>1. Many \in Nat /\ ExistsBijection(1..Many, Callers)
    <2>1. IsFiniteSet(Callers)
      BY InstanceAssumption, SameFiniteSets DEF Shards!MapAssumption
    <2> QED
      BY <2>1, FS_CardinalityType DEF Many
  <1>2. Nth \in Bijection(1..Many, Callers)
    BY <1>1 DEF ExistsBijection, Nth
  <1> QED
    BY <1>1, <1>2 DEF Bijection, Injection, Surjection, IsInjective

(* When a caller owes d more, size_ grows by c and the map by c + d, the     *)
(* sums are right again.                                                     *)
LEMMA TotalsMove ==
  ASSUME MapTypeOK, NEW p, Totals(p), NEW t \in Callers, NEW c \in Int, NEW d \in Int,
         count' = count + c, Cardinality(map)' = Cardinality(map) + c + d,
         caller'[t].owes = caller[t].owes + d,
         \A u \in Callers \ {t} : caller'[u].owes = caller[u].owes
  PROVE  \E q : Totals(q)'
  <1> PICK m \in 1..Many : Nth[m] = t
    BY Enumeration
  <1> DEFINE q == [i \in 0..Many |-> IF i < m THEN p[i] + c ELSE p[i] + c + d]
  <1>1. Many \in Nat /\ p \in [0..Many -> Int]
    BY Enumeration DEF Totals
  <1>2. q \in [0..Many -> Int] /\ q[0] = count' /\ q[Many] = Cardinality(map)'
    BY <1>1 DEF Totals
  <1>3. ASSUME NEW i \in 1..Many PROVE q[i] = q[i - 1] + caller'[Nth[i]].owes
    <2>1. /\ i \in 0..Many /\ i - 1 \in 0..Many /\ p[i] \in Int /\ p[i - 1] \in Int
          /\ Nth[i] \in Callers /\ p[i] = p[i - 1] + caller[Nth[i]].owes
      BY <1>1, Enumeration, SMTT(20) DEF Totals
    <2>2. caller[Nth[i]].owes \in Int
      BY <2>1 DEF MapTypeOK, CallerState
    <2>3. CASE i = m
      BY <2>1, <2>2, <2>3
    <2>4. CASE i # m
      <3>1. caller'[Nth[i]].owes = caller[Nth[i]].owes
        BY <2>1, <2>4, Enumeration
      <3>2. i < m <=> i - 1 < m
        BY <2>4, <1>1
      <3> QED
        BY <2>1, <2>2, <3>1, <3>2
    <2> QED
      BY <2>3, <2>4
  <1> HIDE DEF q
  <1>4. Totals(q)'
    BY <1>2, <1>3 DEF Totals
  <1> QED
    BY <1>4

(* The map starts empty and nobody owes anything. *)
LEMMA MapInit == Shards!Init => MapInv
  <1> SUFFICES ASSUME Shards!Init PROVE MapInv
    OBVIOUS
  <1> USE DEF Shards!Init, Shards!Idle
  <1>1. MapTypeOK
    BY DEF MapTypeOK, CallerState
  <1>2. Totals([i \in 0..Many |-> 0])
    <2>1. Cardinality(map) = 0
      BY FS_EmptySet
    <2> QED
      BY <2>1, Enumeration DEF Totals
  <1>3. \A t \in Callers : Copies(t)
    BY DEF Copies
  <1> QED
    BY <1>1, <1>2, <1>3 DEF MapInv

(* The map is finite. *)
LEMMA MapIsFinite ==
  ASSUME MapTypeOK
  PROVE  IsFiniteSet(map) /\ Cardinality(map) \in Nat
  <1>1. IsFiniteSet(Keys)
    BY InstanceAssumption, SameFiniteSets DEF Shards!MapAssumption
  <1>2. map \in SUBSET Keys
    BY DEF MapTypeOK
  <1>3. IsFiniteSet(map)
    BY <1>1, <1>2, FS_Subset
  <1> QED
    BY <1>3, FS_CardinalityType

(* A call that changes the map owes the difference, and its keys are none    *)
(* that stay.                                                                *)
LEMMA MapChanges ==
  ASSUME MapInv, NEW t \in Callers, NEW new \in SUBSET Keys, NEW r \in CallerState,
         Shards!SetMap(new), caller[t].owes = 0, UNCHANGED <<count, copied>>,
         caller' = [caller EXCEPT ![t] = r],
         Cardinality(new) = Cardinality(map) + r.owes, r.op # "copy"
  PROVE  MapInv'
  <1>1. MapTypeOK /\ (\A u \in Callers : Copies(u))
    BY DEF MapInv
  <1>2. map' = new /\ stayed' = [u \in Callers |-> stayed[u] \cap new]
    BY DEF Shards!SetMap
  <1>3. MapTypeOK'
    BY <1>1, <1>2 DEF MapTypeOK
  <1>4. \E q : Totals(q)'
    <2> PICK p : Totals(p)
      BY DEF MapInv
    <2>1. r.owes \in Int /\ count \in Int
      BY <1>1 DEF CallerState, MapTypeOK
    <2>2. caller'[t] = r /\ \A u \in Callers \ {t} : caller'[u] = caller[u]
      BY <1>1 DEF MapTypeOK
    <2>3. Cardinality(map) \in Nat
      BY <1>1, MapIsFinite
    <2>4. /\ count' = count + 0 /\ Cardinality(map)' = Cardinality(map) + 0 + r.owes
          /\ caller'[t].owes = caller[t].owes + r.owes
      BY <1>2, <2>1, <2>2, <2>3
    <2> QED
      BY <1>1, <2>1, <2>2, <2>4, TotalsMove
  <1>5. ASSUME NEW u \in Callers PROVE Copies(u)'
    <2>1. stayed'[u] \subseteq map' /\ stayed'[u] \subseteq stayed[u] /\ copied' = copied
      BY <1>2
    <2>2. caller'[u] = r \/ caller'[u] = caller[u]
      BY <1>1 DEF MapTypeOK
    <2> QED
      BY <1>1, <2>1, <2>2 DEF Copies
  <1> QED
    BY <1>3, <1>4, <1>5 DEF MapInv

(* A step that leaves the map, size_ and what is owed keeps the sums. *)
LEMMA TotalsStay ==
  ASSUME MapInv, UNCHANGED <<map, count>>, \A u \in Callers : caller'[u].owes = caller[u].owes
  PROVE  \E q : Totals(q)'
  <1> PICK p : Totals(p)
    BY DEF MapInv
  <1>1. Totals(p)'
    <2>1. \A i \in 1..Many : caller'[Nth[i]].owes = caller[Nth[i]].owes
      BY Enumeration
    <2> QED
      BY <2>1 DEF Totals
  <1> QED
    BY <1>1

(* A call of one key adds or removes it. *)
LEMMA OneKey ==
  ASSUME MapInv, NEW t \in Callers, NEW k \in Keys, Shards!TryEmplace(t, k) \/ Shards!Erase(t, k)
  PROVE  MapInv'
  <1> DEFINE one == [Shards!Idle EXCEPT !.op = "one"]
             r(n) == [one EXCEPT !.owes = n]
  <1>1. MapTypeOK /\ caller[t].owes = 0 /\ UNCHANGED <<count, copied>>
    BY DEF MapInv, Shards!TryEmplace, Shards!Erase, Shards!Idle
  <1>2. r(1) \in CallerState /\ r(-1) \in CallerState
    <2>1. ASSUME NEW n \in Int PROVE r(n) \in CallerState
      <3>1. one = [op |-> "one", shard |-> 0, keys |-> {}, owes |-> 0]
        BY DEF Shards!Idle
      <3> HIDE DEF one
      <3>3. r(n) = [op |-> "one", shard |-> 0, keys |-> {}, owes |-> n]
        BY <3>1
      <3> HIDE DEF r
      <3> QED
        BY <3>3 DEF CallerState
    <2> HIDE DEF r
    <2> QED
      BY <2>1
  <1>3. /\ r(1).owes = 1 /\ r(-1).owes = -1 /\ r(1).op = "one" /\ r(-1).op = "one"
    BY DEF Shards!Idle
  <1>4. IsFiniteSet(map) /\ Cardinality(map) \in Nat /\ map \in SUBSET Keys
    BY <1>1, MapIsFinite DEF MapTypeOK
  <1>5. CASE Shards!TryEmplace(t, k)
    <2>1. k \notin map /\ Shards!SetMap(map \union {k}) /\ caller' = [caller EXCEPT ![t] = r(1)]
      BY <1>5 DEF Shards!TryEmplace, Shards!Owe
    <2>2. Cardinality(map \union {k}) = Cardinality(map) + 1
      BY <2>1, <1>4, FS_AddElement
    <2>3. map \union {k} \in SUBSET Keys
      BY <1>4
    <2> HIDE DEF r
    <2> QED
      BY <1>1, <1>2, <1>3, <2>1, <2>2, <2>3, MapChanges
  <1>6. CASE Shards!Erase(t, k)
    <2>1. k \in map /\ Shards!SetMap(map \ {k}) /\ caller' = [caller EXCEPT ![t] = r(-1)]
      BY <1>6 DEF Shards!Erase, Shards!Owe
    <2>2. Cardinality(map \ {k}) = Cardinality(map) + (-1)
      BY <2>1, <1>4, FS_RemoveElement
    <2>3. map \ {k} \in SUBSET Keys
      BY <1>4
    <2> HIDE DEF r
    <2> QED
      BY <1>1, <1>2, <1>3, <2>1, <2>2, <2>3, MapChanges
  <1> QED
    BY <1>5, <1>6

(* erase_if() removes what it finds in a shard. *)
LEMMA ErasesFound == ASSUME MapInv, NEW t \in Callers, Shards!EraseIf(t) PROVE MapInv'
  <1> PICK op \in {"erase_if", "erase_one"} :
        /\ Shards!AtShard(t, op)
        /\ LET found == Shards!Shard(caller[t].shard) \cap map \cap caller[t].keys
               further == IF op = "erase_one" /\ found # {} THEN ShardNum ELSE caller[t].shard + 1
           IN  /\ Shards!SetMap(map \ found)
               /\ Shards!Owe(t, [caller[t] EXCEPT !.shard = further], -Shards!Cardinality(found))
        /\ UNCHANGED <<count, copied, mapCalls>>
    BY DEF Shards!EraseIf
  <1> DEFINE found == Shards!Shard(caller[t].shard) \cap map \cap caller[t].keys
             further == IF op = "erase_one" /\ found # {} THEN ShardNum ELSE caller[t].shard + 1
             moved == [caller[t] EXCEPT !.shard = further]
             r == [moved EXCEPT !.owes = -Shards!Cardinality(found)]
  <1>1. MapTypeOK
    BY DEF MapInv
  <1>2. /\ caller[t].op = op /\ caller[t].owes = 0 /\ caller[t] \in CallerState
    BY <1>1 DEF Shards!AtShard, MapTypeOK
  <1>3. /\ IsFiniteSet(map) /\ Cardinality(map) \in Nat /\ map \in SUBSET Keys
    BY <1>1, MapIsFinite DEF MapTypeOK
  <1>4. IsFiniteSet(found) /\ Cardinality(found) \in Nat
    <2>1. found \in SUBSET map
      OBVIOUS
    <2> HIDE DEF found
    <2>2. IsFiniteSet(found)
      BY <2>1, <1>3, FS_Subset
    <2> QED
      BY <2>2, FS_CardinalityType
  <1>5. Shards!Cardinality(found) = Cardinality(found)
    BY SameFiniteSets
  <1>6. Cardinality(map \ found) = Cardinality(map) + (-Cardinality(found))
    <2>1. /\ map = (map \ found) \union found /\ (map \ found) \cap found = {}
          /\ map \ found \in SUBSET map
      OBVIOUS
    <2> HIDE DEF found
    <2>2. IsFiniteSet(map \ found) /\ Cardinality(map \ found) \in Nat
      BY <2>1, <1>3, FS_Subset, FS_CardinalityType
    <2>3. Cardinality(map) = Cardinality(map \ found) + Cardinality(found) - Cardinality({})
      BY <2>1, <2>2, <1>4, FS_Union
    <2> QED
      BY <2>2, <2>3, <1>3, <1>4, FS_EmptySet
  <1>7. further \in Nat
    BY <1>2, InstanceAssumption DEF CallerState, Shards!MapAssumption
  <1>8. Shards!SetMap(map \ found) /\ caller' = [caller EXCEPT ![t] = r]
    BY DEF Shards!Owe
  <1>9. map \ found \in SUBSET Keys
    BY <1>3
  <1> HIDE DEF found, further
  <1>10. r \in CallerState /\ r.owes = -Cardinality(found) /\ r.op = op
    <2>a. moved = [op |-> op, shard |-> further, keys |-> caller[t].keys, owes |-> 0]
      BY <1>2 DEF CallerState
    <2> HIDE DEF moved
    <2>1. r = [op |-> op, shard |-> further, keys |-> caller[t].keys, owes |-> -Cardinality(found)]
      BY <2>a, <1>5
    <2>2. caller[t].keys \in SUBSET Keys /\ -Cardinality(found) \in Int
      BY <1>2, <1>4 DEF CallerState
    <2> HIDE DEF r
    <2> QED
      BY <2>1, <2>2, <1>7 DEF CallerState
  <1> HIDE DEF r
  <1> QED
    BY <1>1, <1>2, <1>6, <1>8, <1>9, <1>10, MapChanges

(* A call goes on with a state that owes as much as before. *)
LEMMA CallerGoesOn ==
  ASSUME MapInv, NEW t \in Callers, NEW r \in CallerState, caller' = [caller EXCEPT ![t] = r],
         r.owes = caller[t].owes, UNCHANGED <<map, count>>,
         \A u \in Callers \ {t} : copied'[u] = copied[u] /\ stayed'[u] = stayed[u],
         copied' \in [Callers -> SUBSET Keys], stayed' \in [Callers -> SUBSET Keys],
         Copies(t)'
  PROVE  MapInv'
  <1>1. MapTypeOK /\ \A u \in Callers : Copies(u)
    BY DEF MapInv
  <1>2. caller'[t] = r /\ \A u \in Callers \ {t} : caller'[u] = caller[u]
    BY <1>1 DEF MapTypeOK
  <1>3. MapTypeOK'
    BY <1>1 DEF MapTypeOK
  <1>4. \E q : Totals(q)'
    BY <1>2, TotalsStay
  <1>5. ASSUME NEW u \in Callers PROVE Copies(u)'
    BY <1>1, <1>2 DEF Copies
  <1> QED
    BY <1>3, <1>4, <1>5 DEF MapInv

(* Calls over all shards begin with the first. *)
LEMMA BeginsAtFirst ==
  ASSUME MapInv, NEW t \in Callers, NEW op \in {"erase_if", "erase_one", "copy"},
         NEW keys \in SUBSET Keys, Shards!Begin(t, op, keys)
  PROVE  MapInv'
  <1> DEFINE r == [op |-> op, shard |-> 0, keys |-> keys, owes |-> 0]
  <1>1. MapTypeOK
    BY DEF MapInv
  <1>2. /\ caller[t].owes = 0 /\ caller' = [caller EXCEPT ![t] = r] /\ UNCHANGED <<map, count>>
        /\ copied' = [copied EXCEPT ![t] = {}] /\ stayed' = [stayed EXCEPT ![t] = map]
    BY DEF Shards!Begin, Shards!Idle
  <1>3. r \in CallerState /\ r.owes = 0 /\ r.shard = 0
    BY DEF CallerState
  <1>4. /\ copied' \in [Callers -> SUBSET Keys] /\ stayed' \in [Callers -> SUBSET Keys]
        /\ \A u \in Callers \ {t} : copied'[u] = copied[u] /\ stayed'[u] = stayed[u]
        /\ stayed'[t] = map /\ caller'[t] = r
    BY <1>1, <1>2 DEF MapTypeOK
  <1>5. Copies(t)'
    <2>1. \A k \in map : ~(k % ShardNum < 0)
      BY <1>1, InstanceAssumption DEF MapTypeOK, Shards!MapAssumption
    <2> QED
      BY <2>1, <1>2, <1>3, <1>4 DEF Copies
  <1> HIDE DEF r
  <1> QED
    BY <1>2, <1>3, <1>4, <1>5, CallerGoesOn

(* copy() collects one shard after the other. *)
LEMMA CopiesShard == ASSUME MapInv, NEW t \in Callers, Shards!CopyShard(t) PROVE MapInv'
  <1> DEFINE i == caller[t].shard
             r == [caller[t] EXCEPT !.shard = i + 1]
  <1>1. MapTypeOK /\ Copies(t)
    BY DEF MapInv
  <1>2. /\ caller[t].op = "copy" /\ caller[t].owes = 0 /\ i \in Nat /\ caller[t] \in CallerState
    BY <1>1 DEF Shards!CopyShard, Shards!AtShard, MapTypeOK, CallerState
  <1>3. /\ caller' = [caller EXCEPT ![t] = r] /\ UNCHANGED <<map, count, stayed>>
        /\ copied' = [copied EXCEPT ![t] = copied[t] \union (map \cap Shards!Shard(i))]
    BY DEF Shards!CopyShard
  <1>4. r \in CallerState /\ r.owes = 0 /\ r.shard = i + 1 /\ r.op = "copy"
    BY <1>2 DEF CallerState
  <1>5. /\ copied' \in [Callers -> SUBSET Keys] /\ stayed' \in [Callers -> SUBSET Keys]
        /\ \A u \in Callers \ {t} : copied'[u] = copied[u] /\ stayed'[u] = stayed[u]
        /\ copied'[t] = copied[t] \union (map \cap Shards!Shard(i)) /\ caller'[t] = r
    BY <1>1, <1>3 DEF MapTypeOK
  <1>6. Copies(t)'
    <2>1. ASSUME NEW k \in stayed[t], k % ShardNum < i + 1 PROVE k \in copied'[t]
      <3>1. k \in map /\ k \in Keys /\ k % ShardNum \in Nat
        BY <1>1, InstanceAssumption DEF Copies, MapTypeOK, Shards!MapAssumption
      <3>2. CASE k % ShardNum < i
        BY <3>2, <1>1, <1>2, <1>5 DEF Copies
      <3>3. CASE k % ShardNum = i
        BY <3>1, <3>3, <1>5 DEF Shards!Shard
      <3> QED
        BY <2>1, <3>1, <3>2, <3>3, <1>2
    <2> HIDE DEF r
    <2> QED
      BY <2>1, <1>1, <1>3, <1>4, <1>5 DEF Copies
  <1> HIDE DEF r
  <1> QED
    BY <1>2, <1>3, <1>4, <1>5, <1>6, CallerGoesOn

(* The counter gets what a caller owes. *)
LEMMA SizeAdjusted == ASSUME MapInv, NEW t \in Callers, Shards!AdjustSize(t) PROVE MapInv'
  <1>1. MapTypeOK /\ \A u \in Callers : Copies(u)
    BY DEF MapInv
  <1>2. /\ count' = count + caller[t].owes /\ UNCHANGED <<map, copied, stayed>>
        /\ caller' = [caller EXCEPT ![t].owes = 0]
    BY DEF Shards!AdjustSize
  <1>3. caller[t] \in CallerState /\ caller[t].owes \in Int /\ count \in Int
    BY <1>1 DEF MapTypeOK, CallerState
  <1>4. [caller[t] EXCEPT !.owes = 0] \in CallerState
    BY <1>3 DEF CallerState
  <1>5. MapTypeOK'
    BY <1>1, <1>2, <1>3, <1>4 DEF MapTypeOK
  <1>6. /\ caller'[t].owes = 0 /\ caller'[t].op = caller[t].op /\ caller'[t].shard = caller[t].shard
        /\ \A u \in Callers \ {t} : caller'[u] = caller[u]
    BY <1>1, <1>2, <1>3 DEF MapTypeOK, CallerState
  <1>7. \E q : Totals(q)'
    <2> PICK p : Totals(p)
      BY DEF MapInv
    <2> DEFINE c == caller[t].owes
    <2>1. c \in Int /\ -c \in Int /\ count' = count + c /\ caller'[t].owes = c + (-c)
      BY <1>2, <1>3, <1>6
    <2>2. Cardinality(map)' = Cardinality(map) + c + (-c)
      BY <1>1, <1>2, <2>1, MapIsFinite
    <2>3. \A u \in Callers \ {t} : caller'[u].owes = caller[u].owes
      BY <1>6
    <2> QED
      BY <1>1, <2>1, <2>2, <2>3, TotalsMove
  <1>8. ASSUME NEW u \in Callers PROVE Copies(u)'
    BY <1>1, <1>2, <1>6 DEF Copies
  <1> QED
    BY <1>5, <1>7, <1>8 DEF MapInv

(* A call returns when it owes nothing. *)
LEMMA CallReturns == ASSUME MapInv, NEW t \in Callers, Shards!Return(t) PROVE MapInv'
  <1>1. MapTypeOK
    BY DEF MapInv
  <1>2. /\ caller[t].owes = 0 /\ caller' = [caller EXCEPT ![t] = Shards!Idle]
        /\ UNCHANGED <<map, count>>
        /\ copied' = [copied EXCEPT ![t] = {}] /\ stayed' = [stayed EXCEPT ![t] = {}]
    BY DEF Shards!Return
  <1>3. Shards!Idle \in CallerState /\ Shards!Idle.owes = 0
    BY DEF CallerState, Shards!Idle
  <1>4. /\ copied' \in [Callers -> SUBSET Keys] /\ stayed' \in [Callers -> SUBSET Keys]
        /\ \A u \in Callers \ {t} : copied'[u] = copied[u] /\ stayed'[u] = stayed[u]
        /\ stayed'[t] = {}
    BY <1>1, <1>2 DEF MapTypeOK
  <1>5. Copies(t)'
    BY <1>4 DEF Copies
  <1> QED
    BY <1>2, <1>3, <1>4, <1>5, CallerGoesOn

(* Every step of the map preserves the invariant. *)
LEMMA MapStep == MapInv /\ [Shards!Next]_mapVars => MapInv'
  <1> SUFFICES ASSUME MapInv, [Shards!Next]_mapVars PROVE MapInv'
    OBVIOUS
  <1>1. ASSUME NEW t \in Callers, Shards!Call(t) PROVE MapInv'
    <2>1. \/ \E k \in Keys : Shards!TryEmplace(t, k) \/ Shards!Erase(t, k)
          \/ \E keys \in SUBSET Keys : \/ Shards!Begin(t, "erase_if", keys)
                                       \/ Shards!Begin(t, "erase_one", keys)
          \/ Shards!Begin(t, "copy", Keys)
      BY <1>1 DEF Shards!Call
    <2> QED
      BY <2>1, OneKey, BeginsAtFirst
  <1>2. CASE UNCHANGED mapVars
    <2>1. MapTypeOK' /\ \A t \in Callers : Copies(t)'
      BY <1>2 DEF MapInv, MapTypeOK, Copies, mapVars
    <2>2. \E q : Totals(q)'
      BY <1>2, TotalsStay DEF mapVars
    <2> QED
      BY <2>1, <2>2 DEF MapInv
  <1> QED
    BY <1>1, <1>2, ErasesFound, CopiesShard, SizeAdjusted, CallReturns DEF Shards!Next

(* map_sharded_t: with any number of callers and shards, size() is right     *)
(* whenever no call is under way, and copy() has every key that was there    *)
(* from its beginning to its end, whatever the others do in between.         *)
THEOREM SizeAndCopiesHold == MCSpec => []SizeAndCopiesAreRight
  <1>1. MapInv => SizeAndCopiesAreRight
    <2> SUFFICES ASSUME MapInv PROVE SizeAndCopiesAreRight
      OBVIOUS
    <2>1. MapTypeOK /\ \A t \in Callers : Copies(t)
      BY DEF MapInv
    <2>2. ASSUME \A t \in Callers : caller[t].owes = 0
          PROVE  Shards!size = Shards!Cardinality(map)
      <3> PICK p : Totals(p)
        BY DEF MapInv
      <3>1. Many \in Nat /\ p \in [0..Many -> Int] /\ \A i \in 1..Many : p[i] = p[i - 1]
        <4>1. ASSUME NEW i \in 1..Many PROVE p[i] = p[i - 1]
          <5>1. Nth[i] \in Callers /\ p[i] = p[i - 1] + caller[Nth[i]].owes
            BY Enumeration DEF Totals
          <5>2. p[i - 1] \in Int
            BY Enumeration DEF Totals
          <5> QED
            BY <5>1, <5>2, <2>2
        <4> QED
          BY <4>1, Enumeration DEF Totals
      <3>2. p[Many] = p[0]
        BY <3>1, ConstantSequence
      <3>3. count = Cardinality(map) /\ Cardinality(map) \in Nat
        BY <3>2, <2>1, MapIsFinite DEF Totals
      <3> QED
        BY <3>3, SameFiniteSets DEF Shards!size
    <2>3. ASSUME NEW t \in Callers, caller[t].op = "copy", caller[t].shard = ShardNum
          PROVE  stayed[t] \subseteq copied[t]
      <3> SUFFICES ASSUME NEW k \in stayed[t] PROVE k \in copied[t]
        OBVIOUS
      <3>1. k \in Nat /\ ShardNum \in Nat \ {0}
        BY <2>1, InstanceAssumption DEF MapTypeOK, Shards!MapAssumption
      <3>2. k % ShardNum < ShardNum
        BY <3>1
      <3> QED
        BY <2>1, <2>3, <3>2 DEF Copies
    <2> QED
      BY <2>2, <2>3 DEF SizeAndCopiesAreRight, Shards!SizeAndCopiesAreRight
  <1> QED
    BY <1>1, MapRuns, MapInit, MapStep, PTL DEF MCSpec

-----------------------------------------------------------------------------
(* Appender.  Cuts says where in written the files meet: file n holds what   *)
(* lies between two cuts, and what lies before the last cut is gone.         *)

(* The appender starts as its module says and makes its steps only. *)
LEMMA LogRuns ==
  /\ MCInit => Log!Init
  /\ [MCNext]_<<component, vars, appVars>> => [Log!Next]_logVars
BY DEF MCInit, MCNext, appVars, logVars

Record == Loggers \X Nat
Files  == [Log!Numbers -> Seq(Record) \union {Log!Absent}]

LogTypeOK ==
  /\ async \in BOOLEAN
  /\ queue \in Seq(Record) /\ written \in Seq(Record)
  /\ files \in Files
  /\ logger \in [Loggers -> [count : Nat, notify : BOOLEAN]]

Present(f, n) == f[n] # Log!Absent

Cuts(f, w, c) ==
  /\ c \in [0..MaxFiles -> Nat]
  /\ c[0] = Len(w)
  /\ \A n \in Log!Numbers :
       /\ ~Present(f, n) => c[n + 1] = c[n]
       /\ Present(f, n) => c[n + 1] <= c[n] /\ f[n] = SubSeq(w, c[n + 1] + 1, c[n])
  /\ c[MaxFiles] = 0 \/ \A n \in Log!Numbers : Present(f, n)

(* The newest file is there, and no file is missing between two others. *)
NoneMissing(f) ==
  /\ Present(f, 0)
  /\ \A n \in Log!Numbers : n > 0 /\ Present(f, n) => Present(f, n - 1)

(* The records of a thread are in its order, in the queue and in what was    *)
(* written, which is older.                                                  *)
Before(r, q) == r[1] = q[1] => r[2] < q[2]
Ordered(s) == \A i, j \in 1..Len(s) : i < j => Before(s[i], s[j])
Logged(s) == \A i \in 1..Len(s) : s[i][2] < logger[s[i][1]].count

RecordOrder ==
  /\ Ordered(queue) /\ Logged(queue)
  /\ Ordered(written) /\ Logged(written)
  /\ \A i \in 1..Len(written), j \in 1..Len(queue) : Before(written[i], queue[j])
  /\ ~async => queue = <<>>

LogInv ==
  LogTypeOK /\ NoneMissing(files) /\ (\E c : Cuts(files, written, c)) /\ RecordOrder

(* A file is absent or a sequence of records, and never both. *)
LEMMA FileOrAbsent == ASSUME NEW s \in Seq(Record) PROVE s # Log!Absent
  <1> SUFFICES ASSUME s = <<<<>>>> PROVE FALSE
    BY DEF Log!Absent
  <1>1. s[1] \in Record /\ s[1] = <<>>
    OBVIOUS
  <1> QED
    BY <1>1 DEF Record

(* What was cut out of a sequence stays as it is when the sequence grows. *)
LEMMA CutOfLonger ==
  ASSUME NEW S, NEW s \in Seq(S), NEW r \in S, NEW a \in Nat, NEW b \in Nat
  PROVE  /\ b <= Len(s) => SubSeq(Append(s, r), a + 1, b) = SubSeq(s, a + 1, b)
         /\ a <= Len(s) => SubSeq(Append(s, r), a + 1, Len(s) + 1)
                          = Append(SubSeq(s, a + 1, Len(s)), r)
  <1> DEFINE t == Append(s, r)
             n == Len(s)
  <1>1. t \in Seq(S) /\ Len(t) = n + 1 /\ n \in Nat /\ t[n + 1] = r /\ \A i \in 1..n : t[i] = s[i]
    OBVIOUS
  <1> HIDE DEF t
  <1>2. ASSUME b <= n PROVE SubSeq(t, a + 1, b) = SubSeq(s, a + 1, b)
    <2>1. Len(SubSeq(t, a + 1, b)) = Len(SubSeq(s, a + 1, b))
      BY <1>1, <1>2
    <2>2. \A i \in 1..Len(SubSeq(s, a + 1, b)) : SubSeq(t, a + 1, b)[i] = SubSeq(s, a + 1, b)[i]
      BY <1>1, <1>2
    <2> QED
      BY <2>1, <2>2, <1>1, <1>2
  <1>3. ASSUME a <= n
        PROVE  SubSeq(t, a + 1, n + 1) = Append(SubSeq(s, a + 1, n), r)
    <2> DEFINE x == SubSeq(t, a + 1, n + 1)
               y == SubSeq(s, a + 1, n)
    <2>1. /\ x \in Seq(S) /\ Len(x) = n + 1 - a /\ \A i \in 1..(n + 1 - a) : x[i] = t[a + i]
          /\ y \in Seq(S) /\ Len(y) = n - a /\ \A i \in 1..(n - a) : y[i] = s[a + i]
      BY <1>1, <1>3
    <2> HIDE DEF x, y
    <2>2. \A i \in 1..(n + 1 - a) : x[i] = Append(y, r)[i]
      BY <2>1, <1>1, <1>3
    <2>3. Append(y, r) \in Seq(S) /\ Len(Append(y, r)) = n + 1 - a
      BY <2>1, <1>1
    <2>4. x = Append(y, r)
      BY <2>1, <2>2, <2>3
    <2> QED
      BY <2>4 DEF x, y
  <1> QED
    BY <1>2, <1>3 DEF t

(* The numbers of the files. *)
LEMMA FileNumbers ==
  /\ MaxFiles \in Nat /\ MaxFiles > 0 /\ Log!Numbers = 0..(MaxFiles - 1)
  /\ 0 \in Log!Numbers
  /\ \A n \in Log!Numbers : n \in Nat /\ n < MaxFiles /\ n \in 0..MaxFiles /\ n + 1 \in 0..MaxFiles
                            /\ n + 1 \in 1..MaxFiles
  /\ \A n \in 1..MaxFiles : n - 1 \in Log!Numbers
  /\ \A n \in Log!Numbers : n # 0 => n - 1 \in Log!Numbers
BY InstanceAssumption DEF Log!AppenderAssumption, Log!Numbers

(* Since none is missing, rolling moves every file to the next number. *)
LEMMA RolledOver ==
  ASSUME LogTypeOK, NoneMissing(files)
  PROVE  Log!Rolled = [n \in Log!Numbers |-> IF n = 0 THEN <<>> ELSE files[n - 1]]
  <1> SUFFICES ASSUME NEW n \in Log!Numbers, n # 0
               PROVE  (IF files[n - 1] # Log!Absent THEN files[n - 1]
                       ELSE IF n = MaxFiles - 1 THEN Log!Absent ELSE files[n]) = files[n - 1]
    BY DEF Log!Rolled
  <1>1. ~Present(files, n - 1) => ~Present(files, n)
    BY FileNumbers DEF NoneMissing
  <1> QED
    BY <1>1 DEF Present

(* Rolling keeps the cuts, one place further. *)
LEMMA CutsRoll ==
  ASSUME NEW f \in Files, NEW w \in Seq(Record), NoneMissing(f), NEW c, Cuts(f, w, c),
         NEW g, g = [n \in Log!Numbers |-> IF n = 0 THEN <<>> ELSE f[n - 1]]
  PROVE  /\ (\E d : Cuts(g, w, d)) /\ NoneMissing(g)
         /\ g \in Files /\ g[0] = <<>>
  <1> DEFINE d == [n \in 0..MaxFiles |-> IF n = 0 THEN c[0] ELSE c[n - 1]]
  <1>1. g = [n \in Log!Numbers |-> IF n = 0 THEN <<>> ELSE f[n - 1]]
    OBVIOUS
  <1>2. g \in Files /\ g[0] = <<>>
    BY <1>1, FileNumbers DEF Files
  <1>3. /\ Present(g, 0)
        /\ \A n \in Log!Numbers : n # 0 => (Present(g, n) <=> Present(f, n - 1))
    <2>1. <<>> \in Seq(Record) /\ g[0] = <<>>
      BY <1>2
    <2>a. Present(g, 0)
      BY <2>1, FileOrAbsent DEF Present
    <2>2. \A n \in Log!Numbers : n # 0 => g[n] = f[n - 1]
      BY <1>1
    <2> QED
      BY <2>a, <2>2 DEF Present
  <1>4. NoneMissing(g)
    <2> SUFFICES ASSUME NEW n \in Log!Numbers, n > 0, Present(g, n) PROVE Present(g, n - 1)
      BY <1>3 DEF NoneMissing
    <2>1. n - 1 \in Log!Numbers /\ n # 0 /\ Present(f, n - 1)
      BY <1>3, FileNumbers
    <2>2. CASE n - 1 # 0
      <3>1. Present(f, (n - 1) - 1)
        BY <2>1, <2>2, FileNumbers DEF NoneMissing
      <3> QED
        BY <2>1, <2>2, <3>1, <1>3
    <2> QED
      BY <2>2, <1>3
  <1>5. d \in [0..MaxFiles -> Nat] /\ d[0] = c[0] /\ \A n \in Log!Numbers : d[n + 1] = c[n]
    BY FileNumbers DEF Cuts
  <1>6. \A n \in Log!Numbers : n # 0 => d[n] = c[n - 1]
    BY FileNumbers
  <1>7. d[MaxFiles] = c[MaxFiles - 1]
    BY FileNumbers
  <1> HIDE DEF d
  <1>8. ASSUME NEW n \in Log!Numbers
        PROVE  /\ ~Present(g, n) => d[n + 1] = d[n]
               /\ Present(g, n) => /\ d[n + 1] <= d[n]
                                 /\ g[n] = SubSeq(w, d[n + 1] + 1, d[n])
    <2>1. CASE n = 0
      <3>1. d[n + 1] = c[0] /\ d[n] = c[0] /\ c[0] = Len(w) /\ w \in Seq(Record)
        BY <2>1, <1>5, FileNumbers DEF Cuts
      <3> QED
        BY <2>1, <3>1, <1>2, <1>3
    <2>2. CASE n # 0
      <3>1. n - 1 \in Log!Numbers /\ (n - 1) + 1 = n
        BY <2>2, FileNumbers
      <3>2. d[n + 1] = c[(n - 1) + 1] /\ d[n] = c[n - 1] /\ g[n] = f[n - 1]
        BY <2>2, <3>1, <1>1, <1>5, <1>6
      <3> QED
        BY <2>2, <3>1, <3>2, <1>3 DEF Cuts
    <2> QED
      BY <2>1, <2>2
  <1>9. d[MaxFiles] = 0 \/ \A n \in Log!Numbers : Present(g, n)
    <2> SUFFICES ASSUME d[MaxFiles] # 0, NEW n \in Log!Numbers PROVE Present(g, n)
      OBVIOUS
    <2>1. CASE \A m \in Log!Numbers : Present(f, m)
      BY <2>1, <1>3, FileNumbers
    <2>2. CASE c[MaxFiles] = 0
      <3>1. MaxFiles - 1 \in Log!Numbers /\ (MaxFiles - 1) + 1 = MaxFiles
        BY FileNumbers
      <3>2. Present(f, MaxFiles - 1)
        BY <2>2, <3>1, <1>7 DEF Cuts
      <3>3. c[MaxFiles] = 0 /\ \A m \in Log!Numbers : Present(f, m)
        <4> SUFFICES ASSUME NEW k \in Log!Numbers, ~Present(f, k) PROVE FALSE
          BY <2>2
        <4> DEFINE Up == {m \in Log!Numbers : k <= m /\ Present(f, m)}
        <4>1. Up \in SUBSET Nat /\ MaxFiles - 1 \in Up
          BY <3>1, <3>2, FileNumbers
        <4>2. PICK m \in Up : \A j \in Up : m <= j
          BY <4>1, LeastNumber
        <4>3. m # k /\ m \in Log!Numbers /\ k <= m /\ Present(f, m)
          BY <4>2
        <4>4. m - 1 \in Log!Numbers /\ k <= m - 1 /\ m > 0 /\ Present(f, m - 1)
          BY <4>3, FileNumbers DEF NoneMissing
        <4> QED
          BY <4>2, <4>4, FileNumbers
      <3> QED
        BY <3>3, <1>3, FileNumbers
    <2> QED
      BY <2>1, <2>2 DEF Cuts
  <1>a. d[0] = Len(w)
    BY <1>5 DEF Cuts
  <1>b. \A n \in Log!Numbers :
          /\ ~Present(g, n) => d[n + 1] = d[n]
          /\ Present(g, n) => d[n + 1] <= d[n] /\ g[n] = SubSeq(w, d[n + 1] + 1, d[n])
    BY <1>8
  <1>c. d \in [0..MaxFiles -> Nat]
    BY <1>5
  <1>d. Cuts(g, w, d)
    BY <1>a, <1>b, <1>c, <1>9, Zenon DEF Cuts
  <1> QED
    BY <1>2, <1>4, <1>d, Zenon

(* A record that is written goes behind the newest file. *)
LEMMA CutsGrow ==
  ASSUME NEW f \in Files, NEW w \in Seq(Record), NoneMissing(f), NEW c, Cuts(f, w, c),
         NEW r \in Record, NEW g, g = [f EXCEPT ![0] = Append(@, r)],
         NEW v, v = Append(w, r)
  PROVE  /\ (\E d : Cuts(g, v, d)) /\ NoneMissing(g)
         /\ g \in Files
         /\ v \in Seq(Record)
  <1> DEFINE d == [c EXCEPT ![0] = Len(w) + 1]
  <1>1. f[0] \in Seq(Record) /\ w \in Seq(Record)
    BY FileNumbers DEF Files, NoneMissing, Present
  <1>2. /\ g \in Files
        /\ g[0] = Append(f[0], r) /\ \A n \in Log!Numbers : n # 0 => g[n] = f[n]
        /\ v \in Seq(Record) /\ Len(v) = Len(w) + 1
    BY <1>1, FileNumbers DEF Files
  <1>3. \A n \in Log!Numbers : Present(g, n) <=> Present(f, n)
    <2>1. g[0] \in Seq(Record)
      BY <1>1, <1>2
    <2>2. Present(g, 0) /\ Present(f, 0)
      BY <2>1, FileOrAbsent DEF NoneMissing, Present
    <2> QED
      BY <1>2, <2>2 DEF Present
  <1>4. NoneMissing(g)
    <2>1. \A n \in Log!Numbers : n > 0 => n - 1 \in Log!Numbers
      BY FileNumbers
    <2> QED
      BY <2>1, <1>3, FileNumbers DEF NoneMissing
  <1>5. /\ d \in [0..MaxFiles -> Nat] /\ d[0] = Len(w) + 1
        /\ \A n \in 1..MaxFiles : d[n] = c[n]
    BY <1>1, FileNumbers DEF Cuts
  <1> HIDE DEF d
  <1>6. ASSUME NEW n \in Log!Numbers
        PROVE  /\ ~Present(g, n) => d[n + 1] = d[n]
               /\ Present(g, n) => /\ d[n + 1] <= d[n]
                                 /\ g[n] = SubSeq(v, d[n + 1] + 1, d[n])
    <2>1. d[n + 1] = c[n + 1] /\ c[n + 1] \in Nat /\ c[n] \in Nat
      BY <1>5, FileNumbers DEF Cuts
    <2>2. CASE n = 0
      <3>1. /\ c[n + 1] <= Len(w) /\ f[0] = SubSeq(w, c[n + 1] + 1, Len(w))
            /\ Present(g, n)
        BY <2>2, <1>3 DEF Cuts, NoneMissing
      <3>2. PICK a \in Nat : a = c[n + 1]
        BY <2>1
      <3>3. PICK m \in Nat : m = Len(w)
        BY <1>1
      <3>4. SubSeq(v, a + 1, m + 1) = Append(SubSeq(w, a + 1, m), r)
        <4>1. a <= Len(w)
          BY <3>1, <3>2
        <4>2. SubSeq(Append(w, r), a + 1, Len(w) + 1) = Append(SubSeq(w, a + 1, Len(w)), r)
          BY <4>1, <1>1, CutOfLonger
        <4> QED
          BY <4>2, <3>3
      <3>5. g[n] = SubSeq(v, a + 1, m + 1)
        BY <3>1, <3>2, <3>3, <3>4, <2>2, <1>2
      <3>6. d[n + 1] = a /\ d[n] = m + 1 /\ a <= m
        BY <2>1, <2>2, <3>1, <3>2, <3>3, <1>5
      <3>7. d[n + 1] <= d[n]
        BY <3>6
      <3> QED
        BY <3>1, <3>5, <3>6, <3>7
    <2>3. CASE n # 0
      <3>1. d[n] = c[n] /\ g[n] = f[n]
        BY <2>3, <1>2, <1>5, FileNumbers
      <3>2. c[n] <= Len(w)
        <4> DEFINE Long == {m \in 0..MaxFiles : c[m] > Len(w)}
        <4> SUFFICES ASSUME n \in Long PROVE FALSE
          BY <1>1, <2>1, FileNumbers
        <4>0. Long \in SUBSET Nat
          BY FileNumbers
        <4>1. PICK m \in Long : \A k \in Long : m <= k
          BY <4>0, LeastNumber
        <4>2. m # 0 /\ m \in 1..MaxFiles
          BY <4>1, <1>1 DEF Cuts
        <4>3. m - 1 \in Log!Numbers /\ (m - 1) + 1 = m
          BY <4>2, FileNumbers
        <4>4. c[m] <= c[m - 1] /\ c[m] \in Nat /\ c[m - 1] \in Nat
          <5>1. m \in 0..MaxFiles /\ m - 1 \in 0..MaxFiles
            BY <4>2, <4>3, FileNumbers
          <5> QED
            BY <4>3, <5>1, SMTT(20) DEF Cuts
        <4>5. m - 1 \in Long
          BY <4>1, <4>2, <4>4, <1>1, FileNumbers
        <4> QED
          BY <4>1, <4>2, <4>5
      <3>3. SubSeq(v, c[n + 1] + 1, c[n]) = SubSeq(w, c[n + 1] + 1, c[n])
        <4>1. PICK a \in Nat : a = c[n + 1]
          BY <2>1
        <4>2. PICK b \in Nat : b = c[n]
          BY <2>1
        <4>3. b <= Len(w)
          BY <3>2, <4>2
        <4>4. SubSeq(Append(w, r), a + 1, b) = SubSeq(w, a + 1, b)
          BY <4>3, <1>1, CutOfLonger
        <4> QED
          BY <4>1, <4>2, <4>4
      <3> QED
        BY <2>1, <3>1, <3>3, <1>3 DEF Cuts
    <2> QED
      BY <2>2, <2>3
  <1>7. d[MaxFiles] = 0 \/ \A n \in Log!Numbers : Present(g, n)
    <2>1. MaxFiles \in 1..MaxFiles
      BY FileNumbers
    <2>2. d[MaxFiles] = c[MaxFiles]
      BY <2>1, <1>5
    <2> QED
      BY <2>2, <1>3 DEF Cuts
  <1> QED
    BY <1>2, <1>4, <1>5, <1>6, <1>7 DEF Cuts

(* What is written to the newest file, rolled before or not, goes on with    *)
(* the files.                                                                *)
LEMMA DiskGoesOn ==
  ASSUME LogInv, NEW r \in Record,
         Log!WriteTo(files, fileSize, r) \/ Log!WriteTo(Log!Rolled, 1, r)
  PROVE  /\ files' \in Files /\ written' \in Seq(Record) /\ written' = Append(written, r)
         /\ NoneMissing(files') /\ \E d : Cuts(files', written', d)
  <1>1. LogTypeOK /\ NoneMissing(files) /\ files \in Files /\ written \in Seq(Record)
    BY DEF LogInv, LogTypeOK
  <1>2. PICK c : Cuts(files, written, c)
    BY DEF LogInv
  <1>3. CASE Log!WriteTo(files, fileSize, r)
    <2>1. files' = [files EXCEPT ![0] = Append(@, r)] /\ written' = Append(written, r)
      BY <1>3 DEF Log!WriteTo
    <2> QED
      BY <2>1, <1>1, <1>2, CutsGrow
  <1>4. CASE Log!WriteTo(Log!Rolled, 1, r)
    <2>1. PICK g : g = Log!Rolled
      OBVIOUS
    <2>2. g = [n \in Log!Numbers |-> IF n = 0 THEN <<>> ELSE files[n - 1]]
      BY <2>1, <1>1, RolledOver
    <2>3. g \in Files /\ NoneMissing(g) /\ \E d : Cuts(g, written, d)
      BY <2>2, <1>1, <1>2, CutsRoll
    <2>4. files' = [g EXCEPT ![0] = Append(@, r)] /\ written' = Append(written, r)
      BY <1>4, <2>1 DEF Log!WriteTo
    <2> QED
      BY <2>3, <2>4, <1>1, CutsGrow
  <1> QED
    BY <1>3, <1>4

(* So do files that are rolled, if they are full. *)
LEMMA DiskRolls ==
  ASSUME LogInv, Log!RollIfFull, written' = written
  PROVE  files' \in Files /\ NoneMissing(files') /\ \E d : Cuts(files', written', d)
  <1>1. LogTypeOK /\ NoneMissing(files) /\ files \in Files /\ written \in Seq(Record)
    BY DEF LogInv, LogTypeOK
  <1>2. PICK c : Cuts(files, written, c)
    BY DEF LogInv
  <1>3. CASE files' = files
    BY <1>1, <1>2, <1>3
  <1>4. CASE files' = Log!Rolled
    <2>1. files' = [n \in Log!Numbers |-> IF n = 0 THEN <<>> ELSE files[n - 1]]
      BY <1>1, <1>4, RolledOver
    <2> QED
      BY <2>1, <1>1, <1>2, CutsRoll
  <1> QED
    BY <1>3, <1>4 DEF Log!RollIfFull

(* A sequence without one of its elements. *)
LEMMA WithoutOne ==
  ASSUME NEW S, NEW s \in Seq(S), NEW i \in 1..Len(s)
  PROVE  /\ Log!RemoveAt(s, i) \in Seq(S) /\ Len(Log!RemoveAt(s, i)) = Len(s) - 1
         /\ \A j \in 1..(Len(s) - 1) :
              Log!RemoveAt(s, i)[j] = IF j < i THEN s[j] ELSE s[j + 1]
  <1> DEFINE x == SubSeq(s, 1, i - 1)
             y == SubSeq(s, i + 1, Len(s))
  <1>1. /\ x \in Seq(S) /\ Len(x) = i - 1 /\ \A j \in 1..(i - 1) : x[j] = s[j]
        /\ y \in Seq(S) /\ Len(y) = Len(s) - i /\ \A j \in 1..(Len(s) - i) : y[j] = s[i + j]
    OBVIOUS
  <1>2. Log!RemoveAt(s, i) = x \o y
    BY DEF Log!RemoveAt
  <1> HIDE DEF x, y
  <1>3. x \o y \in Seq(S) /\ Len(x \o y) = Len(s) - 1
    BY <1>1
  <1>4. ASSUME NEW j \in 1..(Len(s) - 1)
        PROVE  (x \o y)[j] = IF j < i THEN s[j] ELSE s[j + 1]
    <2>1. CASE j < i
      BY <1>1, <2>1
    <2>2. CASE ~(j < i)
      <3>1. (x \o y)[j] = y[j - (i - 1)]
        BY <1>1, <2>2
      <3>2. j - (i - 1) \in 1..(Len(s) - i)
        BY <2>2
      <3>3. y[j - (i - 1)] = s[i + (j - (i - 1))]
        BY <1>1, <3>2
      <3> QED
        BY <2>2, <3>1, <3>3
    <2> QED
      BY <2>1, <2>2
  <1> QED
    BY <1>2, <1>3, <1>4

(* The oldest record of a thread is written behind all that were. *)
LEMMA OldestIsWritten ==
  ASSUME LogTypeOK, RecordOrder, NEW i \in 1..Len(queue), Log!Oldest(i),
         queue' = Log!RemoveAt(queue, i), written' = Append(written, queue[i]),
         UNCHANGED <<async, logger>>
  PROVE  queue' \in Seq(Record) /\ RecordOrder'
  <1>1. /\ queue \in Seq(Record) /\ written \in Seq(Record) /\ Len(queue) \in Nat
        /\ Len(written) \in Nat
        /\ queue[i] \in Record
    BY DEF LogTypeOK
  <1>2. PICK m \in Nat : m = Len(queue)
    BY <1>1
  <1>3. PICK n \in Nat : n = Len(written)
    BY <1>1
  <1>4. /\ queue' \in Seq(Record) /\ Len(queue') = m - 1
        /\ \A j \in 1..(m - 1) : queue'[j] = IF j < i THEN queue[j] ELSE queue[j + 1]
    BY <1>1, <1>2, WithoutOne
  <1>5. /\ Len(written') = n + 1 /\ written'[n + 1] = queue[i]
        /\ \A j \in 1..n : written'[j] = written[j]
    BY <1>1, <1>3
  <1>6. i \in 1..m /\ \A j \in 1..(i - 1) : queue[j][1] # queue[i][1]
    BY <1>2 DEF Log!Oldest
  <1>7. /\ \A j, k \in 1..m : j < k => Before(queue[j], queue[k])
        /\ \A j \in 1..m : queue[j][2] < logger[queue[j][1]].count
        /\ \A j, k \in 1..n : j < k => Before(written[j], written[k])
        /\ \A j \in 1..n : written[j][2] < logger[written[j][1]].count
        /\ \A j \in 1..n, k \in 1..m : Before(written[j], queue[k])
    BY <1>2, <1>3 DEF RecordOrder, Ordered, Logged
  <1>8. \A j \in 1..(m - 1) : \E k \in 1..m :
          /\ queue'[j] = queue[k] /\ k # i /\ k = IF j < i THEN j ELSE j + 1
    <2> SUFFICES ASSUME NEW j \in 1..(m - 1)
                 PROVE  \E k \in 1..m : /\ queue'[j] = queue[k] /\ k # i
                                        /\ k = IF j < i THEN j ELSE j + 1
      OBVIOUS
    <2>1. PICK k : k = IF j < i THEN j ELSE j + 1
      OBVIOUS
    <2>2. k \in 1..m /\ k # i
      BY <2>1, <1>6
    <2>3. queue'[j] = queue[k]
      BY <2>1, <1>4
    <2> QED
      BY <2>1, <2>2, <2>3
  <1>9. \A j, k \in 1..(m - 1) : j < k => Before(queue'[j], queue'[k])
    BY <1>7, <1>8
  <1>10. \A j \in 1..(m - 1) : queue'[j][2] < logger'[queue'[j][1]].count
    BY <1>7, <1>8
  <1>11. \A j, k \in 1..(n + 1) : j < k => Before(written'[j], written'[k])
    <2> SUFFICES ASSUME NEW j \in 1..(n + 1), NEW k \in 1..(n + 1), j < k
                 PROVE  Before(written'[j], written'[k])
      OBVIOUS
    <2>1. CASE k = n + 1
      BY <2>1, <1>5, <1>6, <1>7
    <2>2. CASE k # n + 1
      BY <2>2, <1>5, <1>7
    <2> QED
      BY <2>1, <2>2
  <1>12. \A j \in 1..(n + 1) : written'[j][2] < logger'[written'[j][1]].count
    <2> SUFFICES ASSUME NEW j \in 1..(n + 1) PROVE written'[j][2] < logger'[written'[j][1]].count
      OBVIOUS
    <2>1. CASE j = n + 1
      BY <2>1, <1>5, <1>6, <1>7
    <2>2. CASE j # n + 1
      BY <2>2, <1>5, <1>7
    <2> QED
      BY <2>1, <2>2
  <1>13. \A j \in 1..(n + 1), k \in 1..(m - 1) : Before(written'[j], queue'[k])
    <2> SUFFICES ASSUME NEW j \in 1..(n + 1), NEW k \in 1..(m - 1)
                 PROVE  Before(written'[j], queue'[k])
      OBVIOUS
    <2>1. PICK o \in 1..m : queue'[k] = queue[o] /\ o # i
      BY <1>8
    <2>2. CASE j = n + 1
      <3>1. CASE o < i
        <4>1. queue[o][1] # queue[i][1]
          BY <3>1, <1>6
        <4> QED
          BY <2>1, <2>2, <4>1, <1>5 DEF Before
      <3>2. CASE o > i
        <4>1. Before(queue[i], queue[o])
          BY <3>2, <1>6, <1>7
        <4> QED
          BY <2>1, <2>2, <4>1, <1>5
      <3>3. o < i \/ o > i
        BY <2>1, <1>6
      <3> QED
        BY <3>1, <3>2, <3>3
    <2>3. CASE j # n + 1
      BY <2>1, <2>3, <1>5, <1>7
    <2> QED
      BY <2>2, <2>3
  <1>14. ~async' => queue' = <<>>
    BY <1>2, <1>6, <1>1 DEF RecordOrder
  <1> QED
    BY <1>4, <1>5, <1>9, <1>10, <1>11, <1>12, <1>13, <1>14 DEF RecordOrder, Ordered, Logged

(* What a thread logs now comes behind all that it has logged. *)
LEMMA NextRecord ==
  ASSUME LogTypeOK, RecordOrder, NEW l \in Loggers, NEW r \in Record, r = <<l, logger[l].count>>
  PROVE  /\ \A i \in 1..Len(queue) : Before(queue[i], r)
         /\ \A i \in 1..Len(written) : Before(written[i], r)
  BY DEF RecordOrder, Logged, Before, LogTypeOK

(* What the steps of the writing thread and of the owner keep. *)
LEMMA RecordsStay ==
  ASSUME LogInv, UNCHANGED <<queue, logger, written>>, async' = async \/ queue' = <<>>
  PROVE  RecordOrder'
  BY DEF LogInv, RecordOrder, Ordered, Logged

(* The invariant holds before the first run of the program. *)
LEMMA LogInit == Log!Init => LogInv
  <1> SUFFICES ASSUME Log!Init PROVE LogInv
    OBVIOUS
  <1>1. files = [n \in Log!Numbers |-> IF n = 0 THEN <<>> ELSE Log!Absent]
    BY DEF Log!Init
  <1>2. LogTypeOK
    BY <1>1 DEF Log!Init, LogTypeOK, Files
  <1>3. /\ <<>> \in Seq(Record) /\ files[0] = <<>>
        /\ \A n \in Log!Numbers \ {0} : files[n] = Log!Absent
    BY <1>1, FileNumbers
  <1>4. Present(files, 0) /\ \A n \in Log!Numbers \ {0} : ~Present(files, n)
    BY <1>3, FileOrAbsent DEF Present
  <1>5. NoneMissing(files)
    BY <1>4 DEF NoneMissing
  <1>6. Cuts(files, written, [n \in 0..MaxFiles |-> 0])
    <2> DEFINE d == [n \in 0..MaxFiles |-> 0]
    <2>1. d \in [0..MaxFiles -> Nat] /\ \A n \in 0..MaxFiles : d[n] = 0
      OBVIOUS
    <2>2. /\ d[0] = 0 /\ d[MaxFiles] = 0 /\ 0 \in Log!Numbers
          /\ \A n \in Log!Numbers : d[n] = 0 /\ d[n + 1] = 0
      BY <2>1, FileNumbers
    <2>3. written = <<>> /\ SubSeq(written, 1, 0) = <<>> /\ Len(written) = 0
      BY DEF Log!Init
    <2> HIDE DEF d
    <2>4. \A n \in Log!Numbers :
            /\ ~Present(files, n) => d[n + 1] = d[n]
            /\ Present(files, n) =>
                 d[n + 1] <= d[n] /\ files[n] = SubSeq(written, d[n + 1] + 1, d[n])
      <3> SUFFICES ASSUME NEW n \in Log!Numbers
                   PROVE  /\ ~Present(files, n) => d[n + 1] = d[n]
                          /\ Present(files, n) =>
                               d[n + 1] <= d[n] /\ files[n] = SubSeq(written, d[n + 1] + 1, d[n])
        OBVIOUS
      <3>1. d[n] = 0 /\ d[n + 1] = 0
        BY <2>2
      <3>2. SubSeq(written, d[n + 1] + 1, d[n]) = <<>>
        BY <2>3, <3>1
      <3>3. Present(files, n) => files[n] = <<>>
        BY <1>3, <1>4
      <3>4. d[n + 1] = d[n] /\ d[n + 1] <= d[n]
        BY <3>1
      <3> QED
        BY <3>2, <3>3, <3>4
    <2> QED
      BY <2>1, <2>2, <2>3, <2>4 DEF Cuts, d
  <1>7. RecordOrder
    BY DEF Log!Init, RecordOrder, Ordered, Logged
  <1> QED
    BY <1>2, <1>5, <1>6, <1>7 DEF LogInv

(* A thread writes. *)
LEMMA LoggerStep ==
  ASSUME LogInv, NEW l \in Loggers, Log!WriteSync(l) \/ Log!Write(l) \/ Log!NotifyOne(l)
  PROVE  LogInv'
  <1>1. LogTypeOK /\ RecordOrder /\ NoneMissing(files) /\ \E c : Cuts(files, written, c)
    BY DEF LogInv
  <1>2. PICK r \in Record : r = <<l, logger[l].count>>
    BY <1>1 DEF Record, LogTypeOK
  <1>3. PICK k \in Nat : k = logger[l].count
    BY <1>1 DEF LogTypeOK
  <1>4. r[1] = l /\ r[2] = k
    BY <1>2, <1>3
  <1>5. /\ \A i \in 1..Len(queue) : Before(queue[i], r)
        /\ \A i \in 1..Len(written) : Before(written[i], r)
    BY <1>1, <1>2, NextRecord
  <1>6. /\ queue \in Seq(Record) /\ written \in Seq(Record) /\ Len(queue) \in Nat
        /\ Len(written) \in Nat
    BY <1>1 DEF LogTypeOK
  <1>7. ASSUME logger'[l].count = k + 1, \A u \in Loggers \ {l} : logger'[u] = logger[u]
        PROVE  \A q \in Record : q[2] < logger[q[1]].count => q[2] < logger'[q[1]].count
    <2> SUFFICES ASSUME NEW q \in Record, q[2] < logger[q[1]].count
                 PROVE  q[2] < logger'[q[1]].count
      OBVIOUS
    <2>1. q[1] \in Loggers /\ q[2] \in Nat
      BY DEF Record
    <2>2. CASE q[1] = l
      <3>1. q[2] < k
        BY <2>2, <1>3
      <3> QED
        BY <2>1, <2>2, <3>1, <1>7
    <2>3. CASE q[1] # l
      BY <2>1, <2>3, <1>7
    <2> QED
      BY <2>2, <2>3
  <1>8. CASE Log!WriteSync(l)
    <2>1. /\ Log!WriteTo(files, fileSize, r) \/ Log!WriteTo(Log!Rolled, 1, r)
          /\ logger' = [logger EXCEPT ![l].count = @ + 1] /\ async' = async /\ queue' = queue
          /\ ~async
      BY <1>8, <1>2 DEF Log!WriteSync
    <2>2. /\ files' \in Files /\ written' \in Seq(Record) /\ written' = Append(written, r)
          /\ NoneMissing(files') /\ \E d : Cuts(files', written', d)
      BY <2>1, DiskGoesOn
    <2>3. /\ logger' \in [Loggers -> [count : Nat, notify : BOOLEAN]]
          /\ logger'[l].count = k + 1 /\ \A u \in Loggers \ {l} : logger'[u] = logger[u]
      BY <2>1, <1>1, <1>3 DEF LogTypeOK
    <2>4. LogTypeOK'
      BY <2>1, <2>2, <2>3, <1>1 DEF LogTypeOK
    <2>5. queue = <<>>
      BY <2>1, <1>1 DEF RecordOrder
    <2>6. RecordOrder'
      <3>1. PICK n \in Nat : n = Len(written)
        BY <1>6
      <3>2. /\ Len(written') = n + 1 /\ written'[n + 1] = r /\ r \in Record
            /\ \A i \in 1..n : written'[i] = written[i] /\ written[i] \in Record
        BY <2>2, <3>1, <1>6
      <3>3. ASSUME NEW i \in 1..(n + 1), NEW j \in 1..(n + 1), i < j
            PROVE  Before(written'[i], written'[j])
        BY <3>1, <3>2, <3>3, <1>1, <1>5 DEF RecordOrder, Ordered
      <3>4. ASSUME NEW i \in 1..(n + 1)
            PROVE  written'[i][2] < logger'[written'[i][1]].count
        <4>1. CASE i = n + 1
          BY <4>1, <3>2, <2>3, <1>3, <1>4
        <4>2. CASE i # n + 1
          <5>1. i \in 1..n /\ written[i][2] < logger[written[i][1]].count
            BY <4>2, <3>1, <1>1 DEF RecordOrder, Logged
          <5> QED
            BY <5>1, <3>2, <2>3, <1>7
        <4> QED
          BY <4>1, <4>2
      <3> QED
        BY <2>1, <2>5, <3>2, <3>3, <3>4 DEF RecordOrder, Ordered, Logged
    <2> QED
      BY <2>2, <2>4, <2>6 DEF LogInv
  <1>9. CASE Log!Write(l)
    <2>1. /\ queue' = Append(queue, r) /\ async' = async /\ UNCHANGED <<files, written>>
          /\ logger' = [logger EXCEPT ![l] = [count |-> @.count + 1, notify |-> TRUE]]
          /\ async
      BY <1>9, <1>2 DEF Log!Write, Log!disk
    <2>2. /\ logger' \in [Loggers -> [count : Nat, notify : BOOLEAN]]
          /\ logger'[l].count = k + 1 /\ \A u \in Loggers \ {l} : logger'[u] = logger[u]
      BY <2>1, <1>1, <1>3 DEF LogTypeOK
    <2>3. LogTypeOK'
      BY <2>1, <2>2, <1>1 DEF LogTypeOK
    <2>4. RecordOrder'
      <3>1. PICK n \in Nat : n = Len(queue)
        BY <1>6
      <3>2. /\ Len(queue') = n + 1 /\ queue'[n + 1] = r /\ r \in Record
            /\ \A i \in 1..n : queue'[i] = queue[i] /\ queue[i] \in Record
        BY <2>1, <3>1, <1>6
      <3>3. ASSUME NEW i \in 1..(n + 1), NEW j \in 1..(n + 1), i < j
            PROVE  Before(queue'[i], queue'[j])
        BY <3>1, <3>2, <3>3, <1>1, <1>5 DEF RecordOrder, Ordered
      <3>4. ASSUME NEW i \in 1..(n + 1)
            PROVE  queue'[i][2] < logger'[queue'[i][1]].count
        <4>1. CASE i = n + 1
          BY <4>1, <3>2, <2>2, <1>3, <1>4
        <4>2. CASE i # n + 1
          <5>1. i \in 1..n /\ queue[i][2] < logger[queue[i][1]].count
            BY <4>2, <3>1, <1>1 DEF RecordOrder, Logged
          <5> QED
            BY <5>1, <3>2, <2>2, <1>7
        <4> QED
          BY <4>1, <4>2
      <3>5. ASSUME NEW i \in 1..Len(written)
            PROVE  written[i][2] < logger'[written[i][1]].count
        <4>1. written[i] \in Record /\ written[i][2] < logger[written[i][1]].count
          BY <1>1, <1>6 DEF RecordOrder, Logged
        <4> QED
          BY <4>1, <2>2, <1>7
      <3>6. ASSUME NEW i \in 1..Len(written), NEW j \in 1..(n + 1)
            PROVE  Before(written[i], queue'[j])
        BY <3>1, <3>2, <1>1, <1>5 DEF RecordOrder
      <3>7. Ordered(written)
        BY <1>1 DEF RecordOrder
      <3> QED
        BY <2>1, <3>2, <3>3, <3>4, <3>5, <3>6, <3>7 DEF RecordOrder, Ordered, Logged
    <2> QED
      BY <2>1, <2>3, <2>4, <1>1 DEF LogInv
  <1>10. CASE Log!NotifyOne(l)
    <2>1. /\ UNCHANGED <<async, queue, files, written>>
          /\ logger' = [logger EXCEPT ![l].notify = FALSE]
      BY <1>10 DEF Log!NotifyOne, Log!disk
    <2>2. /\ logger' \in [Loggers -> [count : Nat, notify : BOOLEAN]]
          /\ \A u \in Loggers : logger'[u].count = logger[u].count
      BY <2>1, <1>1 DEF LogTypeOK
    <2>3. \A q \in Record : q[1] \in Loggers
      BY DEF Record
    <2>4. LogTypeOK'
      BY <2>1, <2>2, <1>1 DEF LogTypeOK
    <2>5. Logged(queue)' /\ Logged(written)'
      <3>1. /\ \A i \in 1..Len(queue) : queue[i][1] \in Loggers
            /\ \A i \in 1..Len(written) : written[i][1] \in Loggers
        BY <2>3, <1>6
      <3> QED
        BY <2>1, <2>2, <3>1, <1>1 DEF RecordOrder, Logged
    <2>6. RecordOrder'
      BY <2>1, <2>5, <1>1 DEF RecordOrder, Ordered
    <2> QED
      BY <2>1, <2>4, <2>6, <1>1 DEF LogInv
  <1> QED
    BY <1>8, <1>9, <1>10

(* The thread of the appender takes a step, or the owner. *)
LEMMA LogStep == LogInv /\ [Log!Next]_logVars => LogInv'
  <1> SUFFICES ASSUME LogInv, [Log!Next]_logVars PROVE LogInv'
    OBVIOUS
  <1>1. LogTypeOK /\ RecordOrder /\ NoneMissing(files) /\ \E c : Cuts(files, written, c)
    BY DEF LogInv
  <1>2. ASSUME UNCHANGED <<files, queue, logger, written>>, async' = async
        PROVE  LogInv'
    BY <1>1, <1>2, RecordsStay DEF LogInv, LogTypeOK
  <1>3. ASSUME NEW i \in DOMAIN queue, Log!Oldest(i), queue' = Log!RemoveAt(queue, i),
               Log!WriteTo(files, fileSize, queue[i]) \/ Log!WriteTo(Log!Rolled, 1, queue[i]),
               UNCHANGED <<async, logger>>
        PROVE  LogInv'
    <2>1. i \in 1..Len(queue) /\ queue[i] \in Record
      BY <1>1 DEF LogTypeOK
    <2>2. /\ files' \in Files /\ written' \in Seq(Record) /\ written' = Append(written, queue[i])
          /\ NoneMissing(files') /\ \E d : Cuts(files', written', d)
      BY <2>1, <1>3, DiskGoesOn
    <2>3. queue' \in Seq(Record) /\ RecordOrder'
      BY <2>1, <2>2, <1>1, <1>3, OldestIsWritten
    <2> QED
      BY <2>2, <2>3, <1>1, <1>3 DEF LogInv, LogTypeOK
  <1>4. CASE Log!LoopTest
    <2>1. UNCHANGED <<queue, written, async, logger>>
      BY <1>4 DEF Log!LoopTest, Log!Others
    <2>2. CASE files' = files
      BY <2>1, <2>2, <1>2
    <2>3. CASE Log!RollIfFull
      BY <2>1, <2>3, <1>1, DiskRolls, RecordsStay DEF LogInv, LogTypeOK
    <2> QED
      BY <1>4, <2>2, <2>3 DEF Log!LoopTest
  <1>5. CASE Log!Dequeue
    <2>1. UNCHANGED <<async, logger>>
      BY <1>5 DEF Log!Dequeue, Log!Others
    <2> QED
      BY <2>1, <1>2, <1>3, <1>5 DEF Log!Dequeue, Log!disk
  <1>6. CASE Log!Drain
    <2>1. UNCHANGED <<async, logger>>
      BY <1>6 DEF Log!Drain, Log!Others
    <2> QED
      BY <2>1, <1>2, <1>3, <1>6 DEF Log!Drain, Log!disk
  <1>7. CASE Log!Look \/ Log!Predicate \/ Log!FallAsleep \/ Log!TestStop
    BY <1>2, <1>7
       DEF Log!Look, Log!Predicate, Log!FallAsleep, Log!TestStop, Log!Others, Log!disk
  <1>8. CASE Log!Stop \/ Log!StopNotifies \/ Log!Join
    BY <1>2, <1>8 DEF Log!Stop, Log!StopNotifies, Log!Join, Log!disk
  <1>9. CASE Log!Restart
    <2>1. /\ async' \in BOOLEAN /\ queue' = <<>> /\ UNCHANGED <<files, written, logger>>
      BY <1>9 DEF Log!Restart
    <2>2. LogTypeOK'
      BY <2>1, <1>1 DEF LogTypeOK
    <2>3. RecordOrder'
      BY <2>1, <1>1 DEF RecordOrder, Ordered, Logged
    <2> QED
      BY <2>1, <2>2, <2>3, <1>1 DEF LogInv
  <1>10. CASE UNCHANGED logVars
    BY <1>2, <1>10 DEF logVars
  <1> QED
    BY <1>4, <1>5, <1>6, <1>7, <1>8, <1>9, <1>10, LoggerStep DEF Log!Next, Log!Run

(* Sequences with the same elements. *)
LEMMA SameElements ==
  ASSUME NEW S, NEW x \in Seq(S), NEW y \in Seq(S), Len(x) = Len(y),
         \A i \in 1..Len(x) : x[i] = y[i]
  PROVE  x = y
  OBVIOUS

(* Two pieces of a sequence that meet are one. *)
LEMMA PiecesMeet ==
  ASSUME NEW S, NEW w \in Seq(S), NEW a \in Nat, NEW b \in Nat, NEW c \in Nat,
         a <= b, b <= c, c <= Len(w)
  PROVE  SubSeq(w, a + 1, b) \o SubSeq(w, b + 1, c) = SubSeq(w, a + 1, c)
  <1>1. PICK m \in Nat : m = a + 1
    OBVIOUS
  <1>2. m \in 1..(Len(w) + 1) /\ b \in (m - 1)..Len(w) /\ c \in b..Len(w)
    BY <1>1
  <1>3. SubSeq(w, m, b) \o SubSeq(w, b + 1, c) = SubSeq(w, m, c)
    BY <1>2, ConcatAdjacentSubSeq
  <1> QED
    BY <1>1, <1>3

(* What never falls from one to the next lies between its ends. *)
LEMMA Ascending ==
  ASSUME NEW m \in Nat, NEW e \in [0..m -> Nat], \A k \in 1..m : e[k - 1] <= e[k],
         NEW i \in 0..m, NEW j \in i..m
  PROVE  e[i] <= e[j]
  <1> DEFINE T == {k \in i..m : e[k] < e[i]}
  <1> SUFFICES ASSUME T # {} PROVE FALSE
    <2>1. j \in i..m /\ j \in 0..m /\ e[i] \in Nat /\ e[j] \in Nat
      OBVIOUS
    <2>2. ASSUME ~(e[i] <= e[j]) PROVE j \in T
      BY <2>1, <2>2
    <2> QED
      BY <2>2
  <1>1. T \in SUBSET Nat
    OBVIOUS
  <1>2. PICK k \in T : \A h \in T : k <= h
    BY <1>1, LeastNumber
  <1>3. k # i /\ k \in 1..m /\ k - 1 \in i..m /\ k - 1 \in 0..m /\ e[k] < e[i]
    BY <1>2
  <1>4. e[k - 1] <= e[k] /\ e[k - 1] \in Nat /\ e[k] \in Nat /\ e[i] \in Nat
    BY <1>3
  <1>5. k - 1 \in T
    BY <1>3, <1>4
  <1> QED
    BY <1>2, <1>3, <1>5

(* The pieces between the cuts make up what lies between the first cut and   *)
(* the last.                                                                 *)
LEMMA FlattenPieces ==
  ASSUME NEW S, NEW w \in Seq(S), NEW m \in Nat, m > 0, NEW e \in [0..m -> Nat],
         \A k \in 1..m : e[k - 1] <= e[k], e[m] <= Len(w),
         NEW s, s = [k \in 1..m |-> SubSeq(w, e[k - 1] + 1, e[k])]
  PROVE  Log!FlattenSeq(s) = SubSeq(w, e[0] + 1, e[m])
  <1> DEFINE F(f) == [i \in 1..Len(s) |-> IF i = 1 THEN s[i] ELSE f[i - 1] \o s[i]]
             g == [i \in 1..m |-> SubSeq(w, e[0] + 1, e[i])]
             flatten == CHOOSE f : f = F(f)
  <1>1. Len(s) = m
    OBVIOUS
  <1>a. \A i \in 0..m : \A j \in i..m : e[i] <= e[j]
    BY Ascending
  <1>2. Log!FlattenSeq(s) = IF Len(s) = 0 THEN s ELSE flatten[Len(s)]
    BY DEF Log!FlattenSeq
  <1>3. ASSUME NEW i \in 1..m PROVE g[i] = IF i = 1 THEN s[i] ELSE g[i - 1] \o s[i]
    <2>1. s[i] = SubSeq(w, e[i - 1] + 1, e[i]) /\ g[i] = SubSeq(w, e[0] + 1, e[i])
      OBVIOUS
    <2>2. CASE i = 1
      <3>1. e[i - 1] = e[0]
        BY <2>2
      <3> HIDE DEF g
      <3> QED
        BY <3>1, <2>1, <2>2, Zenon
    <2>3. CASE i # 1
      <3>1. i - 1 \in 1..m /\ i - 1 \in 0..m /\ i \in (i - 1)..m /\ i - 1 \in 0..m /\ m \in i..m
            /\ i \in 0..m
        BY <2>3
      <3>2. g[i - 1] = SubSeq(w, e[0] + 1, e[i - 1])
        BY <3>1
      <3>a. e[0] <= e[i - 1]
        <4>1. 0 \in 0..m /\ i - 1 \in 0..m
          BY <3>1
        <4> HIDE DEF g, F
        <4> QED
          BY <4>1, <1>a
      <3>b. e[i] <= e[m]
        BY <3>1, <1>a
      <3>3. e[0] <= e[i - 1] /\ e[i - 1] <= e[i] /\ e[i] <= e[m]
        BY <3>a, <3>b
      <3>4. e[0] \in Nat /\ e[i - 1] \in Nat /\ e[i] \in Nat /\ e[m] \in Nat
        BY <3>1
      <3>5. e[i] <= Len(w)
        BY <3>3, <3>4
      <3>6. SubSeq(w, e[0] + 1, e[i - 1]) \o SubSeq(w, e[i - 1] + 1, e[i])
              = SubSeq(w, e[0] + 1, e[i])
        <4>1. PICK a \in Nat : a = e[0]
          BY <3>4
        <4>2. PICK b \in Nat : b = e[i - 1]
          BY <3>4
        <4>3. PICK c \in Nat : c = e[i]
          BY <3>4
        <4>4. a <= b /\ b <= c /\ c <= Len(w)
          BY <4>1, <4>2, <4>3, <3>3, <3>5
        <4>5. SubSeq(w, a + 1, b) \o SubSeq(w, b + 1, c) = SubSeq(w, a + 1, c)
          BY <4>4, PiecesMeet
        <4> QED
          BY <4>1, <4>2, <4>3, <4>5
      <3> QED
        BY <2>1, <2>3, <3>2, <3>6
    <2> QED
      BY <2>2, <2>3
  <1>4. g = F(g)
    <2>1. F(g) = [i \in 1..m |-> IF i = 1 THEN s[i] ELSE g[i - 1] \o s[i]]
      BY <1>1
    <2> QED
      BY <1>3, <2>1
  <1>5. flatten = F(flatten)
    BY <1>4
  <1> HIDE DEF flatten, g
  <1>6. flatten[m] = g[m]
    <2> DEFINE T == {i \in 1..m : flatten[i] # g[i]}
    <2>0. ASSUME flatten[m] # g[m] PROVE m \in T
      BY <2>0
    <2> SUFFICES ASSUME T # {} PROVE FALSE
      BY <2>0
    <2>1. T \in SUBSET Nat
      OBVIOUS
    <2>2. PICK i \in T : \A k \in T : i <= k
      BY <2>1, LeastNumber
    <2>3. flatten[i] = IF i = 1 THEN s[i] ELSE flatten[i - 1] \o s[i]
      BY <1>1, <1>5
    <2>4. i # 1
      BY <2>2, <2>3, <1>3
    <2>5. i - 1 \in 1..m /\ i - 1 \notin T
      BY <2>2, <2>4
    <2> QED
      <3>1. flatten[i] = flatten[i - 1] \o s[i]
        BY <2>3, <2>4
      <3>2. g[i] = g[i - 1] \o s[i]
        BY <2>2, <2>4, <1>3
      <3>3. flatten[i - 1] = g[i - 1]
        BY <2>5
      <3> QED
        BY <2>2, <3>1, <3>2, <3>3
  <1>7. g[m] = SubSeq(w, e[0] + 1, e[m])
    <2>1. m \in 1..m
      OBVIOUS
    <2> QED
      BY <2>1 DEF g
  <1>8. Log!FlattenSeq(s) = flatten[m]
    BY <1>1, <1>2
  <1> QED
    BY <1>6, <1>7, <1>8

(* The files from the oldest to the newest. *)
LEMMA KeptIsTheEnd ==
  ASSUME LogTypeOK, NEW c, Cuts(files, written, c)
  PROVE  /\ c[MaxFiles] \in Nat /\ c[MaxFiles] <= Len(written)
         /\ Log!Kept = SubSeq(written, c[MaxFiles] + 1, Len(written))
  <1> DEFINE e == [k \in 0..MaxFiles |-> c[MaxFiles - k]]
             s == [n \in 1..MaxFiles |-> IF files[MaxFiles - n] = Log!Absent THEN <<>>
                                         ELSE files[MaxFiles - n]]
  <1>1. written \in Seq(Record) /\ MaxFiles \in Nat /\ MaxFiles > 0
    BY FileNumbers DEF LogTypeOK
  <1>2. c \in [0..MaxFiles -> Nat] /\ c[0] = Len(written)
    BY DEF Cuts
  <1>3. e \in [0..MaxFiles -> Nat] /\ e[0] = c[MaxFiles] /\ e[MaxFiles] = Len(written)
    BY <1>1, <1>2
  <1>4. ASSUME NEW k \in 1..MaxFiles
        PROVE  e[k - 1] <= e[k] /\ s[k] = SubSeq(written, e[k - 1] + 1, e[k])
    <2>1. PICK n : n = MaxFiles - k
      OBVIOUS
    <2>2. n \in Log!Numbers /\ n \in 0..MaxFiles /\ n + 1 \in 0..MaxFiles
      BY <2>1, <1>1 DEF Log!Numbers
    <2>3. e[k] = c[n] /\ e[k - 1] = c[n + 1]
      <3>1. k \in 0..MaxFiles /\ k - 1 \in 0..MaxFiles /\ MaxFiles - (k - 1) = n + 1
        BY <2>1, <1>1
      <3> QED
        BY <2>1, <3>1
    <2>4. c[n] \in Nat /\ c[n + 1] \in Nat
      BY <2>2, <1>2
    <2>5. s[k] = IF Present(files, n) THEN files[n] ELSE <<>>
      BY <2>1 DEF Present
    <2>6. CASE Present(files, n)
      BY <2>2, <2>3, <2>5, <2>6 DEF Cuts
    <2>7. CASE ~Present(files, n)
      <3>1. c[n + 1] = c[n]
        BY <2>2, <2>7 DEF Cuts
      <3>2. SubSeq(written, c[n] + 1, c[n]) = <<>>
        BY <2>4, <1>1
      <3>3. e[k - 1] = e[k] /\ e[k - 1] <= e[k]
        BY <2>3, <2>4, <3>1
      <3>4. SubSeq(written, e[k - 1] + 1, e[k]) = <<>>
        BY <2>3, <3>1, <3>2
      <3> QED
        BY <2>5, <2>7, <3>3, <3>4
    <2> QED
      BY <2>6, <2>7
  <1>5. s = [k \in 1..MaxFiles |-> SubSeq(written, e[k - 1] + 1, e[k])]
    BY <1>4
  <1>6. \A k \in 1..MaxFiles : e[k - 1] <= e[k]
    BY <1>4
  <1>7. Log!Kept = Log!FlattenSeq(s)
    BY DEF Log!Kept
  <1>8. e[0] <= e[MaxFiles]
    <2>1. 0 \in 0..MaxFiles /\ MaxFiles \in 0..MaxFiles
      BY <1>1
    <2> HIDE DEF e
    <2> QED
      BY <2>1, <1>1, <1>3, <1>6, Ascending
  <1> HIDE DEF e, s
  <1>9. Log!FlattenSeq(s) = SubSeq(written, e[0] + 1, e[MaxFiles])
    <2>1. e[MaxFiles] <= Len(written)
      BY <1>1, <1>3
    <2> QED
      BY <2>1, <1>1, <1>3, <1>5, <1>6, FlattenPieces
  <1> QED
    BY <1>2, <1>3, <1>7, <1>8, <1>9, <1>1

(* The end of a sequence is a suffix of it. *)
LEMMA EndIsSuffix ==
  ASSUME NEW S, NEW w \in Seq(S), NEW a \in Nat, a <= Len(w)
  PROVE  Log!IsSuffix(SubSeq(w, a + 1, Len(w)), w)
  <1> DEFINE z == SubSeq(w, a + 1, Len(w))
             n == Len(w)
  <1>1. n \in Nat /\ z \in Seq(S) /\ Len(z) = n - a /\ \A i \in 1..(n - a) : z[i] = w[a + i]
    OBVIOUS
  <1> HIDE DEF z
  <1>2. /\ Log!Reverse(z) \in Seq(S) /\ Len(Log!Reverse(z)) = n - a
        /\ \A i \in 1..(n - a) : Log!Reverse(z)[i] = z[(n - a) - i + 1]
    BY <1>1 DEF Log!Reverse
  <1>3. /\ Log!Reverse(w) \in Seq(S) /\ Len(Log!Reverse(w)) = n
        /\ \A i \in 1..n : Log!Reverse(w)[i] = w[n - i + 1]
    BY <1>1 DEF Log!Reverse
  <1>4. ASSUME NEW i \in 1..(n - a) PROVE Log!Reverse(z)[i] = Log!Reverse(w)[i]
    <2>1. (n - a) - i + 1 \in 1..(n - a) /\ a + ((n - a) - i + 1) = n - i + 1 /\ i \in 1..n
      BY <1>1
    <2>2. Log!Reverse(z)[i] = z[(n - a) - i + 1] /\ Log!Reverse(w)[i] = w[n - i + 1]
      BY <2>1, <1>2, <1>3
    <2>a. PICK k : k = (n - a) - i + 1
      OBVIOUS
    <2>b. k \in 1..(n - a) /\ a + k = n - i + 1
      BY <2>1, <2>a
    <2>c. z[k] = w[a + k]
      BY <2>b, <1>1
    <2>3. z[(n - a) - i + 1] = w[n - i + 1]
      BY <2>a, <2>b, <2>c
    <2> QED
      BY <2>2, <2>3
  <1>5. PICK x : x = Log!Reverse(z)
    OBVIOUS
  <1>6. PICK y : y = Log!Reverse(w)
    OBVIOUS
  <1>7. SubSeq(x, 1, n - a) = SubSeq(y, 1, n - a)
    <2>1. /\ x \in Seq(S) /\ y \in Seq(S) /\ Len(x) = n - a /\ Len(y) = n
          /\ \A i \in 1..(n - a) : x[i] = y[i]
      BY <1>2, <1>3, <1>4, <1>5, <1>6
    <2>2. /\ SubSeq(x, 1, n - a) \in Seq(S) /\ Len(SubSeq(x, 1, n - a)) = n - a
          /\ SubSeq(y, 1, n - a) \in Seq(S) /\ Len(SubSeq(y, 1, n - a)) = n - a
          /\ \A i \in 1..(n - a) : SubSeq(x, 1, n - a)[i] = SubSeq(y, 1, n - a)[i]
      BY <2>1, <1>1
    <2> QED
      BY <2>2
  <1>8. Log!IsPrefix(Log!Reverse(z), Log!Reverse(w))
    BY <1>1, <1>2, <1>3, <1>5, <1>6, <1>7 DEF Log!IsPrefix
  <1> QED
    BY <1>8 DEF Log!IsSuffix, z

(* appender: for any limits on the number and the size of the files, any     *)
(* threads and any number of runs of the program, the files from the oldest  *)
(* to the newest hold the end of what was written, without a gap; nothing is *)
(* gone before all files were in use; and the records of a thread were       *)
(* written in its order.                                                     *)
THEOREM FilesAlwaysHoldTheTail == MCSpec => []FilesHoldTheTail
  <1>1. LogInv => FilesHoldTheTail
    <2> SUFFICES ASSUME LogInv PROVE Log!FilesHoldTheTail
      BY DEF FilesHoldTheTail
    <2>1. LogTypeOK /\ RecordOrder
      BY DEF LogInv
    <2>2. PICK c : Cuts(files, written, c)
      BY DEF LogInv
    <2>3. PICK a \in Nat : a = c[MaxFiles]
      BY <2>1, <2>2, KeptIsTheEnd
    <2>4. a <= Len(written) /\ Log!Kept = SubSeq(written, a + 1, Len(written))
      BY <2>1, <2>2, <2>3, KeptIsTheEnd
    <2>5. written \in Seq(Record)
      BY <2>1 DEF LogTypeOK
    <2>6. Log!IsSuffix(Log!Kept, written)
      BY <2>3, <2>4, <2>5, EndIsSuffix
    <2>7. Log!Kept = written \/ \A n \in Log!Numbers : files[n] # Log!Absent
      <3>1. CASE a = 0
        <4>1. SubSeq(written, 1, Len(written)) = written
          BY <2>5
        <4> QED
          BY <2>4, <3>1, <4>1
      <3>2. CASE a # 0
        BY <2>2, <2>3, <3>2 DEF Cuts, Present
      <3> QED
        BY <3>1, <3>2
    <2>8. \A i, j \in DOMAIN written :
            i < j /\ written[i][1] = written[j][1] => written[i][2] < written[j][2]
      BY <2>1, <2>5 DEF RecordOrder, Ordered, Before
    <2> QED
      BY <2>6, <2>7, <2>8 DEF Log!FilesHoldTheTail
  <1> QED
    BY <1>1, LogRuns, LogInit, LogStep, PTL DEF MCSpec
-----------------------------------------------------------------------------
(* TimeUtil: the days that the code counts are those of the calendar, for    *)
(* every year, so that what is parsed is exact, and what is written too.     *)

(* The module of the dates counts as this one does.                          *)
LEMMA SameTimeCardinality == ASSUME NEW S PROVE Time!Cardinality(S) = Cardinality(S)
BY DEF Time!Cardinality, Time!IsFiniteSet, Cardinality, IsFiniteSet

(* The letters of a day are hashed to its number.                            *)
LEMMA DayNames ==
  ASSUME NEW i \in 1..7
  PROVE  Time!get_day_index(Time!WDAY[i]) = i - 1
BY DEF Time!get_day_index, Time!WDAY, Time!Xor, Time!Differ, Time!Bit, Time!Upper, Time!week_table

(* So are those of a month.                                                  *)
LEMMA MonthNames ==
  ASSUME NEW i \in 1..12
  PROVE  Time!get_month_index(Time!YMON[i]) = i - 1
  BY DEF Time!get_month_index, Time!YMON, Time!Upper, Time!month_table

(* The leap years up to y.                                                   *)
Leaps(y) == (y \div 4) - (y \div 100) + (y \div 400)

(* A leap year is one more.                                                  *)
LEMMA LeapsStep ==
  ASSUME NEW y \in Int, y >= 0
  PROVE  /\ Leaps(y) \in Int /\ Leaps(y - 1) \in Int
         /\ Leaps(y) = Leaps(y - 1) + (IF Time!Exists(y, 2, 29) THEN 1 ELSE 0)
  BY DEF Leaps, Time!Exists

(* The code takes a year apart into centuries and leap years; the days up    *)
(* to the epoch are those of the calendar.                                   *)
LEMMA EpochDays ==
  ASSUME NEW y \in Nat
  PROVE  Time!days_since_epoch(y) + Time!absolute_to_unix
           = 365 * (y - 1970) + Leaps(y - 1) - Leaps(1969)
  <1> DEFINE z == y + 399
             q == z \div 400
             h == z % 400
             r == h \div 100
             c == h % 100
             s == c \div 4
             t == c % 4
  <1>1. /\ z \in Nat /\ q \in Nat /\ h \in 0..399 /\ z = 400 * q + h
    OBVIOUS
  <1>2. r \in 0..3 /\ c \in 0..99 /\ h = 100 * r + c
    BY <1>1
  <1>3. s \in 0..24 /\ t \in 0..3 /\ c = 4 * s + t
    BY <1>2
  <1>4. Time!days_since_epoch(y) = 146097 * q + 36524 * r + 1461 * s + 365 * t
    BY DEF Time!days_since_epoch, Time!AbsoluteZeroYear
  <1>5. Time!absolute_to_unix = -865259
    BY DEF Time!absolute_to_unix, Time!AbsoluteZeroYear
  <1> HIDE DEF q, h, r, c, s, t
  <1>6. y - 1 = 400 * q + 100 * r + 4 * s + t - 400
    BY <1>1, <1>2, <1>3
  <1>7. /\ (y - 1) \div 4 = 100 * q + 25 * r + s - 100
        /\ (y - 1) \div 100 = 4 * q + r - 4
        /\ (y - 1) \div 400 = q - 1
    BY <1>1, <1>2, <1>3, <1>6
  <1>8. Leaps(1969) = 477
    BY DEF Leaps
  <1> QED
    BY <1>1, <1>2, <1>3, <1>4, <1>5, <1>6, <1>7, <1>8 DEF Leaps

(* The leap years between two are counted by their quotients.                *)
LEMMA LeapYearsCounted ==
  ASSUME NEW y \in Nat, NEW n \in Nat
  PROVE  /\ IsFiniteSet({z \in y..(y - 1 + n) : Time!Exists(z, 2, 29)})
         /\ Time!LeapYears(y, y - 1 + n) = Leaps(y - 1 + n) - Leaps(y - 1)
  <1> DEFINE L(k) == {z \in y..(y - 1 + k) : Time!Exists(z, 2, 29)}
             Right(k) == IsFiniteSet(L(k)) /\ Cardinality(L(k)) = Leaps(y - 1 + k) - Leaps(y - 1)
             T == {k \in Nat : ~Right(k)}
  <1>1. Right(0)
    <2>1. L(0) = {}
      OBVIOUS
    <2>2. Leaps(y - 1 + 0) - Leaps(y - 1) = 0
      BY LeapsStep
    <2> QED
      BY <2>1, <2>2, FS_EmptySet
  <1>2. ASSUME NEW k \in Nat, Right(k) PROVE Right(k + 1)
    <2> PICK x : x = y + k
      OBVIOUS
    <2>1. x \in Nat /\ y - 1 + (k + 1) = x /\ y - 1 + k = x - 1
      OBVIOUS
    <2>2. /\ Leaps(x) \in Int /\ Leaps(x - 1) \in Int /\ Leaps(y - 1) \in Int
          /\ Leaps(x) = Leaps(x - 1) + (IF Time!Exists(x, 2, 29) THEN 1 ELSE 0)
      BY <2>1, LeapsStep
    <2>3. L(k + 1) = IF Time!Exists(x, 2, 29) THEN L(k) \union {x} ELSE L(k)
      <3>1. \A z : z \in y..x <=> z \in y..(x - 1) \/ z = x
        BY <2>1
      <3> QED
        BY <2>1, <3>1
    <2>4. x \notin L(k)
      BY <2>1
    <2>5. /\ IsFiniteSet(L(k + 1))
          /\ Cardinality(L(k + 1)) = Cardinality(L(k)) + (IF Time!Exists(x, 2, 29) THEN 1 ELSE 0)
      <3> HIDE DEF L
      <3>1. Cardinality(L(k)) \in Nat
        BY <1>2, FS_CardinalityType
      <3> QED
        BY <1>2, <2>3, <2>4, <3>1, FS_AddElement
    <2> HIDE DEF L
    <2> QED
      BY <1>2, <2>1, <2>2, <2>5
  <1>3. T = {}
    <2> SUFFICES ASSUME T # {} PROVE FALSE
      OBVIOUS
    <2> HIDE DEF Right
    <2>1. PICK m \in T : \A k \in T : m <= k
      BY LeastNumber
    <2>2. m # 0 /\ m \in Nat
      BY <1>1
    <2>3. m - 1 \in Nat /\ m - 1 \notin T
      BY <2>1, <2>2
    <2>4. Right((m - 1) + 1)
      BY <1>2, <2>3
    <2> QED
      BY <2>2, <2>4
  <1>4. Right(n)
    <2> HIDE DEF Right
    <2> QED
      BY <1>3
  <1> QED
    BY <1>4, SameTimeCardinality DEF Time!LeapYears

(* Before and after the epoch.                                               *)
LEMMA LeapYearsSinceEpoch ==
  ASSUME NEW y \in Nat
  PROVE  /\ Time!LeapYears(1970, y - 1) \in Int /\ Time!LeapYears(y, 1969) \in Int
         /\ Time!LeapYears(1970, y - 1) - Time!LeapYears(y, 1969) = Leaps(y - 1) - Leaps(1969)
  <1>0. Leaps(y - 1) \in Int /\ Leaps(1969) \in Int
    BY DEF Leaps
  <1>1. \A a, b \in Int : b < a => Time!LeapYears(a, b) = 0
    <2> SUFFICES ASSUME NEW a \in Int, NEW b \in Int, b < a PROVE Time!LeapYears(a, b) = 0
      OBVIOUS
    <2>1. {z \in a..b : Time!Exists(z, 2, 29)} = {}
      OBVIOUS
    <2> QED
      BY <2>1, SameTimeCardinality, FS_EmptySet DEF Time!LeapYears
  <1>2. CASE y >= 1970
    <2>1. PICK a \in Nat, n \in Nat : a = 1970 /\ y - 1 = a - 1 + n /\ a - 1 = 1969
      <3>1. /\ 1970 \in Nat /\ y - 1970 \in Nat /\ 1970 - 1 = 1969
            /\ y - 1 = 1970 - 1 + (y - 1970)
        BY <1>2
      <3> QED
        BY <3>1
    <2>2. Time!LeapYears(a, a - 1 + n) = Leaps(a - 1 + n) - Leaps(a - 1)
      BY LeapYearsCounted
    <2>3. Time!LeapYears(y, 1969) = 0
      BY <1>1, <1>2
    <2> QED
      BY <2>1, <2>2, <2>3, <1>0
  <1>3. CASE y < 1970
    <2>1. PICK n \in Nat : y - 1 + n = 1969
      <3>1. 1970 - y \in Nat /\ y - 1 + (1970 - y) = 1969
        BY <1>3
      <3> QED
        BY <3>1
    <2>2. Time!LeapYears(y, y - 1 + n) = Leaps(y - 1 + n) - Leaps(y - 1)
      BY LeapYearsCounted
    <2>3. Time!LeapYears(1970, y - 1) = 0
      BY <1>1, <1>3
    <2> QED
      BY <2>1, <2>2, <2>3, <1>0
  <1> QED
    BY <1>2, <1>3

(* The days of a month are numbered, and are as many as the table says.      *)
LEMMA DaysOfMonth ==
  ASSUME NEW y \in Nat, NEW m \in 1..12
  PROVE  /\ Time!days_in(m - 1, y) \in 28..31
         /\ \A d \in Int : Time!Exists(y, m, d) <=> d \in 1..Time!days_in(m - 1, y)
BY MonthNames DEF Time!Exists, Time!days_in, Time!is_leap, Time!days_before

(* The days before a month.                                                  *)
DaysBefore(m, y) == {md \in (1..(m - 1)) \X (1..31) : Time!Exists(y, md[1], md[2])}

(* A month more has the days of the table more.                              *)
LEMMA MonthIsCounted ==
  ASSUME NEW y \in Nat, NEW m \in 1..12, IsFiniteSet(DaysBefore(m, y))
  PROVE  /\ IsFiniteSet(DaysBefore(m + 1, y))
         /\ Cardinality(DaysBefore(m + 1, y)) = Cardinality(DaysBefore(m, y)) + Time!days_in(m - 1, y)
  <1> PICK n : n = Time!days_in(m - 1, y)
    OBVIOUS
  <1>1. n \in 28..31 /\ \A d \in Int : Time!Exists(y, m, d) <=> d \in 1..n
    BY DaysOfMonth
  <1> DEFINE S == {m} \X (1..n)
             f == [d \in 1..n |-> <<m, d>>]
  <1>2. f \in Bijection(1..n, S)
    BY DEF Bijection, Injection, Surjection, IsInjective
  <1>3. IsFiniteSet(1..n) /\ Cardinality(1..n) = n
    <2>1. n \in Int /\ n >= 1 /\ n - 1 + 1 = n
      BY <1>1
    <2>2. IsFiniteSet(1..n) /\ Cardinality(1..n) = IF 1 > n THEN 0 ELSE n - 1 + 1
      BY <2>1, FS_Interval
    <2> QED
      BY <2>1, <2>2
  <1>4. IsFiniteSet(S) /\ Cardinality(S) = n
    <2>1. ExistsBijection(1..n, S)
      BY <1>2 DEF ExistsBijection
    <2> HIDE DEF S
    <2>2. IsFiniteSet(S) /\ Cardinality(1..n) = Cardinality(S)
      BY <2>1, <1>3, FS_Bijection
    <2> QED
      BY <2>2, <1>3
  <1>5. DaysBefore(m + 1, y) = DaysBefore(m, y) \union S
    <2>1. \A md : md \in DaysBefore(m + 1, y) <=> md \in DaysBefore(m, y) \union S
      <3> SUFFICES ASSUME NEW a, NEW b
                   PROVE  <<a, b>> \in DaysBefore(m + 1, y) <=> <<a, b>> \in DaysBefore(m, y) \union S
        BY DEF DaysBefore
      <3>1. a \in 1..m <=> a \in 1..(m - 1) \/ a = m
        OBVIOUS
      <3>2. b \in 1..n <=> b \in 1..31 /\ Time!Exists(y, m, b)
        BY <1>1
      <3>3. <<a, b>> \in DaysBefore(m + 1, y) <=> a \in 1..m /\ b \in 1..31 /\ Time!Exists(y, a, b)
        <4>1. (m + 1) - 1 = m
          OBVIOUS
        <4> QED
          BY <4>1 DEF DaysBefore
      <3>4. <<a, b>> \in DaysBefore(m, y) <=> a \in 1..(m - 1) /\ b \in 1..31 /\ Time!Exists(y, a, b)
        BY DEF DaysBefore
      <3>5. <<a, b>> \in S <=> a = m /\ b \in 1..n
        OBVIOUS
      <3> HIDE DEF S
      <3> QED
        BY <3>1, <3>2, <3>3, <3>4, <3>5
    <2> HIDE DEF S
    <2> QED
      BY <2>1
  <1>6. DaysBefore(m, y) \cap S = {}
    BY DEF DaysBefore
  <1>7. Cardinality(DaysBefore(m, y)) \in Nat /\ Cardinality(DaysBefore(m, y) \cap S) = 0
    BY <1>6, FS_CardinalityType, FS_EmptySet
  <1> PICK B : B = DaysBefore(m, y)
    OBVIOUS
  <1> HIDE DEF S
  <1>8. /\ IsFiniteSet(B \union S)
        /\ Cardinality(B \union S) = Cardinality(B) + Cardinality(S) - Cardinality(B \cap S)
    BY <1>4, FS_Union
  <1> QED
    BY <1>1, <1>4, <1>5, <1>7, <1>8

(* So the table says how many days there are before a month.                 *)
LEMMA MonthsAreCounted ==
  ASSUME NEW y \in Nat, NEW m \in 1..12
  PROVE  Cardinality(DaysBefore(m, y)) = Time!days_before[m] + (IF Time!is_leap(y) /\ m > 2 THEN 1 ELSE 0)
  <1> DEFINE N(k) == Cardinality(DaysBefore(k, y))
  <1>1. IsFiniteSet(DaysBefore(1, y)) /\ N(1) = 0
    <2>1. DaysBefore(1, y) = {}
      BY DEF DaysBefore
    <2> QED
      BY <2>1, FS_EmptySet
  <1>2. \A k \in 1..12 : IsFiniteSet(DaysBefore(k, y)) =>
                           IsFiniteSet(DaysBefore(k + 1, y)) /\ N(k + 1) = N(k) + Time!days_in(k - 1, y)
    BY MonthIsCounted
  <1>3. \A k \in 1..12 : Time!days_in(k - 1, y) = Time!days_before[k + 1] - Time!days_before[k]
                                                   + (IF Time!is_leap(y) /\ k = 2 THEN 1 ELSE 0)
    BY MonthNames DEF Time!days_in, Time!days_before
  <1> DEFINE Good(k) == /\ IsFiniteSet(DaysBefore(k, y))
                        /\ N(k) = Time!days_before[k] + (IF Time!is_leap(y) /\ k > 2 THEN 1 ELSE 0)
  <1>4. ASSUME NEW k \in 1..12, Good(k) PROVE Good(k + 1)
    <2> HIDE DEF N
    <2>1. IsFiniteSet(DaysBefore(k + 1, y)) /\ N(k + 1) = N(k) + Time!days_in(k - 1, y)
      BY <1>2, <1>4
    <2>2. Time!days_before[k] \in Nat /\ Time!days_before[k + 1] \in Nat
      BY DEF Time!days_before
    <2> QED
      BY <1>3, <1>4, <2>1, <2>2
  <1>5. Good(1)
    BY <1>1 DEF Time!days_before
  <1> HIDE DEF Good
  <1>6. ASSUME ~Good(m) PROVE FALSE
    <2> DEFINE T == {k \in 1..12 : ~Good(k)}
    <2>1. PICK k \in T : \A j \in T : k <= j
      <3>1. T \in SUBSET Nat /\ m \in T
        BY <1>6
      <3> HIDE DEF T
      <3> QED
        BY <3>1, LeastNumber
    <2>2. k \in 2..12 /\ ~Good(k)
      BY <1>5
    <2>3. k - 1 \in 1..12 /\ k - 1 \notin T /\ (k - 1) + 1 = k
      BY <2>1, <2>2
    <2>4. Good((k - 1) + 1)
      BY <1>4, <2>3
    <2> QED
      BY <2>2, <2>3, <2>4
  <1> QED
    BY <1>6 DEF Good

(* The days that the code counts are those of the calendar.                  *)
CodeDays(y, m, d) ==
  Time!days_since_epoch(y) + Time!days_before[m]
    + (IF Time!is_leap(y) /\ m > 2 THEN 1 ELSE 0) + d - 1

(* They are the days of the calendar, with its weekday.                      *)
LEMMA DayIsCounted ==
  ASSUME NEW y \in Nat, NEW m \in 1..12, NEW d \in Nat
  PROVE  /\ CodeDays(y, m, d) \in Int
         /\ CodeDays(y, m, d) + Time!absolute_to_unix = Time!DayNumber(y, m, d)
         /\ (CodeDays(y, m, d) + 1) % 7 = Time!Weekday(y, m, d)
  <1>1. Time!days_since_epoch(y) \in Int
    BY DEF Time!days_since_epoch, Time!AbsoluteZeroYear
  <1>2. Time!absolute_to_unix = -865259
    BY DEF Time!absolute_to_unix, Time!AbsoluteZeroYear
  <1>3. Time!days_before[m] \in Nat
    BY DEF Time!days_before
  <1>4. Time!DayNumber(y, m, d) =
          365 * (y - 1970) + Time!LeapYears(1970, y - 1) - Time!LeapYears(y, 1969)
            + Cardinality(DaysBefore(m, y)) + d - 1
    BY SameTimeCardinality DEF Time!DayNumber, DaysBefore
  <1> PICK a, b : a = Time!LeapYears(1970, y - 1) /\ b = Time!LeapYears(y, 1969)
    OBVIOUS
  <1>5. a \in Int /\ b \in Int
    BY LeapYearsSinceEpoch
  <1>6. Leaps(y - 1) \in Int /\ Leaps(1969) \in Int
    BY DEF Leaps
  <1>7. CodeDays(y, m, d) \in Int
    BY <1>1, <1>3 DEF CodeDays
  <1>8. CodeDays(y, m, d) + Time!absolute_to_unix = Time!DayNumber(y, m, d)
    <2>1. a - b = Leaps(y - 1) - Leaps(1969)
      BY LeapYearsSinceEpoch
    <2>2. Time!days_since_epoch(y) + Time!absolute_to_unix = 365 * (y - 1970) + Leaps(y - 1) - Leaps(1969)
      BY EpochDays
    <2>3. Cardinality(DaysBefore(m, y)) = Time!days_before[m] + (IF Time!is_leap(y) /\ m > 2 THEN 1 ELSE 0)
      BY MonthsAreCounted
    <2> QED
      BY <1>1, <1>2, <1>3, <1>4, <1>5, <1>6, <2>1, <2>2, <2>3 DEF CodeDays
  <1>9. (CodeDays(y, m, d) + 1) % 7 = Time!Weekday(y, m, d)
    <2> PICK c : c = CodeDays(y, m, d)
      OBVIOUS
    <2>1. c \in Int /\ Time!DayNumber(y, m, d) = c - 865259
      BY <1>2, <1>7, <1>8
    <2>2. (c - 865259 + 4) % 7 = (c + 1) % 7
      BY <2>1
    <2> QED
      BY <2>1, <2>2 DEF Time!Weekday
  <1> QED
    BY <1>7, <1>8, <1>9

-----------------------------------------------------------------------------
(* What is parsed.                                                           *)

(* The texts of a date.                                                      *)
HttpText(w, d, m, y, c) == <<Time!WDAY[w], d, Time!YMON[m], y, c[1], c[2], c[3]>>
UtcText(y, m, d, c) == <<y, m, d, c[1], c[2], c[3], 0>>

(* The components of a time of day.                                          *)
BadClock(c) ==
  \/ Time!Component("hour", c[1]) = -1
  \/ Time!Component("minute", c[2]) = -1
  \/ Time!Component("second", c[3]) = -1

(* What the fields f of a text are, and that a component of it is refused.   *)
FieldsAre(f, y, m, d, c, w) ==
  /\ f.year = y /\ f.month = m /\ f.day = d /\ f.day_of_week = w
  /\ f.hour = Time!Component("hour", c[1]) /\ f.minute = Time!Component("minute", c[2])
  /\ f.second = Time!Component("second", c[3])
Refused(format, t) ==
  \E i \in DOMAIN Time!Format(format) : Time!Component(Time!Format(format)[i], t[i]) = -1

(* The fields of a text in the http format.                                  *)
LEMMA HttpFields ==
  ASSUME NEW w \in 1..7, NEW m \in 1..12, NEW d \in Nat, NEW y \in Nat, NEW c \in Nat \X Nat \X Nat
  PROVE  /\ FieldsAre(Time!Fields("http", HttpText(w, d, m, y, c)), y, m - 1, d, c, w - 1)
         /\ Refused("http", HttpText(w, d, m, y, c)) <=> BadClock(c)
  <1> DEFINE F == Time!Format("http")
             t == HttpText(w, d, m, y, c)
  <1>1. F = <<"day_name", "day", "month_name", "year", "hour", "minute", "second">>
    BY DEF Time!Format
  <1>2. /\ t[1] = Time!WDAY[w] /\ t[2] = d /\ t[3] = Time!YMON[m] /\ t[4] = y
        /\ t[5] = c[1] /\ t[6] = c[2] /\ t[7] = c[3]
    BY DEF HttpText
  <1> HIDE DEF F, t
  <1>3. ASSUME NEW i \in 1..7
        PROVE  Time!Value("http", t, F[i]) = Time!Component(F[i], t[i]) /\ Time!Has("http", F[i])
    <2>1. DOMAIN F = 1..7 /\ \A j, k \in 1..7 : F[j] = F[k] => j = k
      BY <1>1
    <2>2. (CHOOSE j \in DOMAIN F : F[j] = F[i]) = i
      BY <2>1
    <2> QED
      BY <2>1, <2>2 DEF Time!Value, Time!Has, F
  <1>4. /\ Time!Value("http", t, "day_name") = Time!Component("day_name", t[1])
        /\ Time!Value("http", t, "day") = Time!Component("day", t[2])
        /\ Time!Value("http", t, "month_name") = Time!Component("month_name", t[3])
        /\ Time!Value("http", t, "year") = Time!Component("year", t[4])
        /\ Time!Value("http", t, "hour") = Time!Component("hour", t[5])
        /\ Time!Value("http", t, "minute") = Time!Component("minute", t[6])
        /\ Time!Value("http", t, "second") = Time!Component("second", t[7])
        /\ Time!Has("http", "day_name") /\ Time!Has("http", "month_name")
    BY <1>1, <1>3
  <1>5. /\ Time!Component("day_name", t[1]) = w - 1 /\ Time!Component("day", t[2]) = d
        /\ Time!Component("month_name", t[3]) = m - 1 /\ Time!Component("year", t[4]) = y
    BY <1>2, DayNames, MonthNames DEF Time!Component
  <1>6. FieldsAre(Time!Fields("http", t), y, m - 1, d, c, w - 1)
    BY <1>2, <1>4, <1>5 DEF Time!Fields, Time!One, FieldsAre
  <1>7. (\E i \in DOMAIN F : Time!Component(F[i], t[i]) = -1)
          <=> \/ Time!Component("hour", c[1]) = -1
              \/ Time!Component("minute", c[2]) = -1
              \/ Time!Component("second", c[3]) = -1
    <2>1. DOMAIN F = 1..7 /\ \A i \in 1..7 : i \in {1, 2, 3, 4, 5, 6, 7}
      BY <1>1
    <2>2. /\ Time!Component(F[1], t[1]) # -1 /\ Time!Component(F[2], t[2]) # -1
          /\ Time!Component(F[3], t[3]) # -1 /\ Time!Component(F[4], t[4]) # -1
      BY <1>1, <1>5
    <2>3. /\ Time!Component(F[5], t[5]) = Time!Component("hour", c[1])
          /\ Time!Component(F[6], t[6]) = Time!Component("minute", c[2])
          /\ Time!Component(F[7], t[7]) = Time!Component("second", c[3])
      BY <1>1, <1>2
    <2> QED
      BY <2>1, <2>2, <2>3
  <1> QED
    BY <1>6, <1>7 DEF F, t, BadClock, Refused

(* The fields of a text in another format.                                   *)
LEMMA UtcFields ==
  ASSUME NEW m \in Nat, NEW d \in Nat, NEW y \in Nat, NEW c \in Nat \X Nat \X Nat
  PROVE  /\ FieldsAre(Time!Fields("utc", UtcText(y, m, d, c)), y, Time!Component("month", m), d, c, -1)
         /\ Refused("utc", UtcText(y, m, d, c)) <=> Time!Component("month", m) = -1 \/ BadClock(c)
  <1> DEFINE F == Time!Format("utc")
             t == UtcText(y, m, d, c)
  <1>1. F = <<"year", "month", "day", "hour", "minute", "second", "second_decimal_part">>
    BY DEF Time!Format
  <1>2. /\ t[1] = y /\ t[2] = m /\ t[3] = d /\ t[4] = c[1] /\ t[5] = c[2] /\ t[6] = c[3] /\ t[7] = 0
    BY DEF UtcText
  <1> HIDE DEF F, t
  <1>3. ASSUME NEW i \in 1..7
        PROVE  Time!Value("utc", t, F[i]) = Time!Component(F[i], t[i]) /\ Time!Has("utc", F[i])
    <2>1. DOMAIN F = 1..7 /\ \A j, k \in 1..7 : F[j] = F[k] => j = k
      BY <1>1
    <2>2. (CHOOSE j \in DOMAIN F : F[j] = F[i]) = i
      BY <2>1
    <2> QED
      BY <2>1, <2>2 DEF Time!Value, Time!Has, F
  <1>4. /\ Time!Value("utc", t, "year") = Time!Component("year", t[1])
        /\ Time!Value("utc", t, "month") = Time!Component("month", t[2])
        /\ Time!Value("utc", t, "day") = Time!Component("day", t[3])
        /\ Time!Value("utc", t, "hour") = Time!Component("hour", t[4])
        /\ Time!Value("utc", t, "minute") = Time!Component("minute", t[5])
        /\ Time!Value("utc", t, "second") = Time!Component("second", t[6])
        /\ Time!Has("utc", "month")
    BY <1>1, <1>3
  <1>5. ~Time!Has("utc", "day_name") /\ ~Time!Has("utc", "month_name")
    <2>1. \A i \in 1..7 : i \in {1, 2, 3, 4, 5, 6, 7}
      OBVIOUS
    <2> QED
      BY <1>1, <2>1 DEF Time!Has, F
  <1>6. Time!Component("day", t[3]) = d /\ Time!Component("year", t[1]) = y
    BY <1>2 DEF Time!Component
  <1>7. FieldsAre(Time!Fields("utc", t), y, Time!Component("month", m), d, c, -1)
    BY <1>2, <1>4, <1>5, <1>6 DEF Time!Fields, Time!One, FieldsAre
  <1>8. (\E i \in DOMAIN F : Time!Component(F[i], t[i]) = -1)
          <=> \/ Time!Component("month", m) = -1
              \/ Time!Component("hour", c[1]) = -1
              \/ Time!Component("minute", c[2]) = -1
              \/ Time!Component("second", c[3]) = -1
    <2>1. DOMAIN F = 1..7 /\ \A i \in 1..7 : i \in {1, 2, 3, 4, 5, 6, 7}
      BY <1>1
    <2>2. /\ Time!Component(F[1], t[1]) # -1 /\ Time!Component(F[3], t[3]) # -1
          /\ Time!Component(F[7], t[7]) # -1
      BY <1>1, <1>2 DEF Time!Component
    <2>3. /\ Time!Component(F[2], t[2]) = Time!Component("month", m)
          /\ Time!Component(F[4], t[4]) = Time!Component("hour", c[1])
          /\ Time!Component(F[5], t[5]) = Time!Component("minute", c[2])
          /\ Time!Component(F[6], t[6]) = Time!Component("second", c[3])
      BY <1>1, <1>2
    <2> QED
      BY <2>1, <2>2, <2>3
  <1> QED
    BY <1>7, <1>8 DEF F, t, BadClock, Refused

(* What a date and a weekday are parsed to.                                  *)
Answer(a, w) ==
  IF Time!IsDate(a) /\ w \in {-1, Time!Weekday(a.year, a.month, a.day)}
    THEN Time!TimeOf(a) ELSE Time!Failed

(* A date from its parts.                                                    *)
DateOf(y, m, d, c) == [year |-> y, month |-> m, day |-> d, clock |-> c]

(* A time of day is refused when it is none.                                 *)
LEMMA ClockRefused ==
  ASSUME NEW c \in Nat \X Nat \X Nat
  PROVE  /\ BadClock(c) <=> c \notin (0..23) \X (0..59) \X (0..59)
         /\ ~BadClock(c) => /\ Time!Component("hour", c[1]) = c[1]
                            /\ Time!Component("minute", c[2]) = c[2]
                            /\ Time!Component("second", c[3]) = c[3]
BY DEF BadClock, Time!Component

(* The time of day is added to the days, whose weekday is that of the next.  *)
LEMMA TimeIsMade ==
  ASSUME NEW f, NEW n \in Int, NEW e, NEW s, f.month \in Int, f.day \in Int, f.year \in Int,
         Time!days_since_epoch(f.year) \in Int, Time!days_before[f.month + 1] \in Int,
         n = Time!days_since_epoch(f.year) + Time!days_before[f.month + 1]
               + (IF Time!is_leap(f.year) /\ f.month >= 2 THEN 1 ELSE 0) + f.day - 1,
         e = n + Time!absolute_to_unix, s = f.hour * 3600 + f.minute * 60 + f.second
  PROVE  Time!faster_mktime(f) =
           IF f.day_of_week # -1 /\ (n + 1) % 7 # f.day_of_week THEN Time!Failed
           ELSE [ok |-> TRUE, days |-> e, seconds |-> s]
  <1>1. Time!get_month_index(Time!YMON[3]) = 2 /\ Time!get_day_index(Time!WDAY[2]) = 1
    BY DayNames, MonthNames
  <1>2. CASE f.day_of_week # -1 /\ (n + 1) % 7 # f.day_of_week
    BY <1>1, <1>2 DEF Time!faster_mktime
  <1>3. CASE ~(f.day_of_week # -1 /\ (n + 1) % 7 # f.day_of_week)
    BY <1>1, <1>3 DEF Time!faster_mktime
  <1> QED
    BY <1>2, <1>3

(* What is made of the fields. *)
TimesOfDay == Nat \X Nat \X Nat
AnyWeekday == -1..6
Made(f, c) ==
  IF BadClock(c) \/ f.day < 1 \/ f.day > Time!days_in(f.month, f.year)
  THEN Time!Failed ELSE Time!faster_mktime(f)

(* Fields that are not refused are made a time, if there is such a date.     *)
LEMMA FieldsAnswered ==
  ASSUME NEW q \in 0..11, NEW m \in 1..12, m = q + 1, NEW d \in Nat, NEW y \in Nat,
         NEW c, c \in TimesOfDay, NEW w \in AnyWeekday, NEW f, FieldsAre(f, y, q, d, c, w)
  PROVE  Made(f, c) = Answer(DateOf(y, m, d, c), w)
  <1>m. q = m - 1
    OBVIOUS
  <1>c. c \in Nat \X Nat \X Nat /\ w \in -1..6
    BY DEF TimesOfDay, AnyWeekday
  <1>0. PICK a : a = DateOf(y, m, d, c)
    OBVIOUS
  <1>1. a.year = y /\ a.month = m /\ a.day = d /\ a.clock = c
    BY <1>0 DEF DateOf
  <1>2. Time!Exists(y, m, d) <=> ~(d < 1 \/ d > Time!days_in(m - 1, y))
    <2>1. PICK n \in 28..31 : n = Time!days_in(m - 1, y)
      BY DaysOfMonth
    <2>2. \A k \in Int : Time!Exists(y, m, k) <=> k \in 1..n
      BY <2>1, DaysOfMonth
    <2>3. Time!Exists(y, m, d) <=> d \in 1..n
      BY <2>2
    <2> QED
      BY <2>1, <2>3
  <1>3. Time!IsDate(a) <=> ~(BadClock(c) \/ d < 1 \/ d > Time!days_in(m - 1, y))
    <2>1. Time!IsDate(a) <=> Time!Exists(y, m, d) /\ c \in (0..23) \X (0..59) \X (0..59)
      BY <1>1 DEF Time!IsDate
    <2>2. BadClock(c) <=> c \notin (0..23) \X (0..59) \X (0..59)
      BY <1>c, ClockRefused
    <2> QED
      BY <1>2, <2>1, <2>2
  <1>4. f.year = y /\ f.month = m - 1 /\ f.day = d /\ f.day_of_week = w
    BY <1>m DEF FieldsAre
  <1>5. ASSUME ~Time!IsDate(a)
        PROVE  Made(f, c) = Answer(a, w)
    BY <1>c, <1>1, <1>3, <1>4, <1>5 DEF Answer, Made
  <1>6. ASSUME Time!IsDate(a)
        PROVE  Made(f, c) = Answer(a, w)
    <2>1. f.hour = c[1] /\ f.minute = c[2] /\ f.second = c[3]
      BY <1>c, <1>3, <1>6, ClockRefused DEF FieldsAre
    <2>2. PICK n : n = CodeDays(y, m, d)
      OBVIOUS
    <2>3. /\ n \in Int /\ n + Time!absolute_to_unix = Time!DayNumber(y, m, d)
          /\ (n + 1) % 7 = Time!Weekday(y, m, d)
      BY <2>2, DayIsCounted
    <2>4. n = Time!days_since_epoch(f.year) + Time!days_before[f.month + 1]
                + (IF Time!is_leap(f.year) /\ f.month >= 2 THEN 1 ELSE 0) + f.day - 1
      BY <1>4, <2>2 DEF CodeDays
    <2>5. /\ f.month \in Int /\ f.day \in Int /\ f.year \in Int
          /\ Time!days_since_epoch(f.year) \in Int /\ Time!days_before[f.month + 1] \in Int
      <3>1. Time!days_since_epoch(y) \in Int
        BY DEF Time!days_since_epoch, Time!AbsoluteZeroYear
      <3>2. Time!days_before[(m - 1) + 1] \in Int
        BY DEF Time!days_before
      <3> QED
        BY <1>4, <3>1, <3>2
    <2>6. PICK e, s : e = Time!DayNumber(y, m, d) /\ s = Time!Seconds(a)
      OBVIOUS
    <2>7. /\ Time!faster_mktime(f) =
               IF f.day_of_week # -1 /\ (n + 1) % 7 # f.day_of_week THEN Time!Failed
               ELSE [ok |-> TRUE, days |-> e, seconds |-> s]
          /\ Time!TimeOf(a) = [ok |-> TRUE, days |-> e, seconds |-> s]
      <3>1. s = f.hour * 3600 + f.minute * 60 + f.second
        BY <1>c, <1>1, <2>1, <2>6 DEF Time!Seconds
      <3>2. e = n + Time!absolute_to_unix
        BY <2>3, <2>6
      <3> QED
        BY <1>1, <2>3, <2>4, <2>5, <2>6, <3>1, <3>2, TimeIsMade DEF Time!TimeOf
    <2>8. Time!faster_mktime(f) =
            IF w # -1 /\ Time!Weekday(y, m, d) # w THEN Time!Failed ELSE Time!TimeOf(a)
      BY <1>4, <2>3, <2>7
    <2>9. Answer(a, w) = IF w \in {-1, Time!Weekday(y, m, d)} THEN Time!TimeOf(a) ELSE Time!Failed
      BY <1>c, <1>1, <1>6 DEF Answer
    <2>10. Made(f, c) = Time!faster_mktime(f)
      BY <1>3, <1>4, <1>6 DEF Made
    <2> QED
      BY <1>6, <2>8, <2>9, <2>10
  <1>7. Made(f, c) = Answer(a, w)
    BY <1>5, <1>6
  <1> QED
    BY <1>m, <1>0, <1>7

(* A text in the http format is answered.                                    *)
LEMMA HttpAnswered ==
  ASSUME NEW w \in 1..7, NEW m \in 1..12, NEW d \in Nat, NEW y \in Nat, NEW c \in Nat \X Nat \X Nat
  PROVE  Time!get_timestamp("http", HttpText(w, d, m, y, c)) = Answer(DateOf(y, m, d, c), w - 1)
  <1> DEFINE t == HttpText(w, d, m, y, c)
             f == Time!Fields("http", t)
  <1>1. Len(t) = 7 /\ Len(Time!Format("http")) = 7
    BY DEF HttpText, Time!Format
  <1>2. FieldsAre(f, y, m - 1, d, c, w - 1) /\ (Refused("http", t) <=> BadClock(c))
    BY HttpFields
  <1>3. w - 1 \in -1..6
    OBVIOUS
  <1>4. Made(f, c) = Answer(DateOf(y, m, d, c), w - 1)
    <2>1. PICK g : g = f
      OBVIOUS
    <2>2. PICK v \in AnyWeekday : v = w - 1
      BY <1>3 DEF AnyWeekday
    <2>q. PICK q \in 0..11 : q = m - 1 /\ q + 1 = m
      OBVIOUS
    <2>3. FieldsAre(g, y, q, d, c, v)
      BY <1>2, <2>1, <2>2, <2>q
    <2> HIDE DEF f
    <2>c. c \in TimesOfDay
      BY DEF TimesOfDay
    <2>4. Made(g, c) = Answer(DateOf(y, m, d, c), v)
      BY <2>3, <2>c, <2>q, FieldsAnswered
    <2> QED
      BY <2>1, <2>2, <2>4
  <1>5. Time!get_timestamp("http", t) = Made(f, c)
    <2>1. Refused("http", t) <=> BadClock(c)
      BY <1>2
    <2> HIDE DEF t
    <2> QED
      BY <1>1, <2>1 DEF Time!get_timestamp, Refused, Made
  <1> QED
    BY <1>4, <1>5

(* And one in another format.                                                *)
LEMMA UtcAnswered ==
  ASSUME NEW m \in Nat, NEW d \in Nat, NEW y \in Nat, NEW c \in Nat \X Nat \X Nat
  PROVE  Time!get_timestamp("utc", UtcText(y, m, d, c)) = Answer(DateOf(y, m, d, c), -1)
  <1> DEFINE t == UtcText(y, m, d, c)
             f == Time!Fields("utc", t)
             k == Time!Component("month", m)
  <1>1. Len(t) = 7 /\ Len(Time!Format("utc")) = 7
    BY DEF UtcText, Time!Format
  <1>2. FieldsAre(f, y, k, d, c, -1) /\ (Refused("utc", t) <=> k = -1 \/ BadClock(c))
    BY UtcFields
  <1>3. Time!get_timestamp("utc", t) =
          IF k = -1 \/ BadClock(c) \/ f.day < 1 \/ f.day > Time!days_in(f.month, f.year)
            THEN Time!Failed ELSE Time!faster_mktime(f)
    <2> HIDE DEF t, k
    <2> QED
      BY <1>1, <1>2 DEF Time!get_timestamp, Refused
  <1>4. CASE m \in 1..12
    <2>1. k = m - 1 /\ k # -1 /\ -1 \in AnyWeekday
      BY <1>4 DEF Time!Component, AnyWeekday
    <2>2. Made(f, c) = Answer(DateOf(y, m, d, c), -1)
      <3>1. PICK g : g = f
        OBVIOUS
      <3>2. PICK q \in 0..11 : q = k /\ q + 1 = m
        BY <1>4, <2>1
      <3>3. FieldsAre(g, y, q, d, c, -1)
        BY <1>2, <3>1, <3>2
      <3> HIDE DEF f, k
      <3>c. c \in TimesOfDay
        BY DEF TimesOfDay
      <3>4. Made(g, c) = Answer(DateOf(y, m, d, c), -1)
        BY <1>4, <2>1, <3>2, <3>3, <3>c, FieldsAnswered
      <3> QED
        BY <3>1, <3>4
    <2> HIDE DEF f, k, t
    <2>3. Time!get_timestamp("utc", t) = Made(f, c)
      BY <1>3, <2>1 DEF Made
    <2>4. Time!get_timestamp("utc", t) = Answer(DateOf(y, m, d, c), -1)
      BY <2>2, <2>3
    <2> QED
      BY <2>4 DEF t
  <1>5. CASE m \notin 1..12
    <2>1. k = -1
      BY <1>5 DEF Time!Component
    <2>2. ~Time!IsDate(DateOf(y, m, d, c))
      BY <1>5 DEF Time!IsDate, Time!Exists, DateOf
    <2> HIDE DEF f, k
    <2> QED
      BY <1>3, <2>1, <2>2 DEF Answer
  <1> QED
    BY <1>4, <1>5

-----------------------------------------------------------------------------
(* What get_gmt_time_str() keeps is the last time that was asked for and its *)
(* text.                                                                     *)
TextOf(a) == HttpText(Time!Weekday(a.year, a.month, a.day) + 1, a.day, a.month, a.year, a.clock)

TimeInv ==
  /\ Time!DatesAreExact
  /\ asked = <<>> => last_sec = Time!Epoch
  /\ asked # <<>> => asked.date \in Time!Dates
  /\ last_sec # Time!Epoch =>
       Time!IsDate(asked.date) /\ last_sec = Time!TimeOf(asked.date) /\ buf = TextOf(asked.date)

(* A date that is tried has its parts.                                       *)
LEMMA DateParts ==
  ASSUME NEW a \in Time!Dates
  PROVE  /\ a.year \in Nat /\ a.month \in Nat /\ a.day \in Nat /\ a.clock \in Nat \X Nat \X Nat
         /\ a = DateOf(a.year, a.month, a.day, a.clock)
BY InstanceAssumption DEF Time!TimeAssumption, Time!Dates, DateOf

(* A second of the day is one time of day.                                   *)
LEMMA ClockOfSecond ==
  ASSUME NEW c \in (0..23) \X (0..59) \X (0..59), NEW e \in (0..23) \X (0..59) \X (0..59)
  PROVE  3600 * c[1] + 60 * c[2] + c[3] = 3600 * e[1] + 60 * e[2] + e[3] => c = e
  <1>1. PICK h \in 0..23 : h = c[1]
    OBVIOUS
  <1>2. PICK m \in 0..59 : m = c[2]
    OBVIOUS
  <1>3. PICK s \in 0..59 : s = c[3]
    OBVIOUS
  <1>4. PICK i \in 0..23 : i = e[1]
    OBVIOUS
  <1>5. PICK n \in 0..59 : n = e[2]
    OBVIOUS
  <1>6. PICK t \in 0..59 : t = e[3]
    OBVIOUS
  <1>7. 3600 * h + 60 * m + s = 3600 * i + 60 * n + t => h = i /\ m = n /\ s = t
    OBVIOUS
  <1>8. h = i /\ m = n /\ s = t => c = e
    <2>1. c[1] = e[1] /\ c[2] = e[2] /\ c[3] = e[3] => c = e
      OBVIOUS
    <2> QED
      BY <2>1, <1>1, <1>2, <1>3, <1>4, <1>5, <1>6
  <1> QED
    BY <1>1, <1>2, <1>3, <1>4, <1>5, <1>6, <1>7, <1>8

(* A date on the same day with the same second of the day is the same.       *)
LEMMA SameSecond ==
  ASSUME NEW a \in Time!Dates, NEW b \in Time!Dates, Time!IsDate(a), Time!IsDate(b),
         a = [b EXCEPT !.clock = a.clock], Time!TimeOf(a) = Time!TimeOf(b)
  PROVE  a = b
  <1>1. Time!Seconds(a) = Time!Seconds(b)
    BY DEF Time!TimeOf
  <1>2. a.clock \in (0..23) \X (0..59) \X (0..59) /\ b.clock \in (0..23) \X (0..59) \X (0..59)
    BY DEF Time!IsDate
  <1>3. 3600 * a.clock[1] + 60 * a.clock[2] + a.clock[3] = 3600 * b.clock[1] + 60 * b.clock[2] + b.clock[3]
    BY <1>1 DEF Time!Seconds
  <1>4. a.clock = b.clock
    BY <1>2, <1>3, ClockOfSecond
  <1> QED
    BY <1>4 DEF Time!Dates

(* The text of a date is parsed to its time.                                 *)
LEMMA TextIsParsed ==
  ASSUME NEW a \in Time!Dates, Time!IsDate(a)
  PROVE  Time!get_timestamp("http", TextOf(a)) = Time!TimeOf(a)
  <1>1. PICK w : w = Time!Weekday(a.year, a.month, a.day)
    OBVIOUS
  <1>2. /\ a.year \in Nat /\ a.month \in 1..12 /\ a.day \in Nat /\ a.clock \in Nat \X Nat \X Nat
        /\ a = DateOf(a.year, a.month, a.day, a.clock)
    BY DateParts DEF Time!IsDate, Time!Exists
  <1>3. w \in 0..6 /\ w + 1 \in 1..7 /\ (w + 1) - 1 = w
    <2>1. CodeDays(a.year, a.month, a.day) \in Int /\ (CodeDays(a.year, a.month, a.day) + 1) % 7 = w
      BY <1>1, <1>2, DayIsCounted
    <2> QED
      BY <2>1
  <1>4. Time!get_timestamp("http", TextOf(a)) = Answer(a, (w + 1) - 1)
    <2>1. PICK x : x = w + 1
      OBVIOUS
    <2>2. x \in 1..7
      BY <1>3, <2>1
    <2>3. Time!get_timestamp("http", HttpText(x, a.day, a.month, a.year, a.clock))
            = Answer(DateOf(a.year, a.month, a.day, a.clock), x - 1)
      BY <1>2, <2>2, HttpAnswered
    <2> QED
      BY <1>1, <1>2, <2>1, <2>3 DEF TextOf
  <1>5. Answer(a, w) = Time!TimeOf(a)
    BY <1>1 DEF Answer
  <1> QED
    BY <1>3, <1>4, <1>5

(* get_timestamp() keeps this.                                               *)
LEMMA ParseKeeps ==
  ASSUME TimeInv, Time!Parse
  PROVE  TimeInv'
  <1>1. PICK a \in Time!Dates, format \in {"http", "utc"}, name \in DOMAIN Time!WDAY :
          /\ asked = <<>>
          /\ format = "utc" => name = 1
          /\ format = "http" => a.month \in DOMAIN Time!YMON
          /\ asked' = [date |-> a, weekday |-> IF format = "http" THEN name - 1 ELSE -1]
          /\ result' = Time!get_timestamp(format,
                         IF format = "http" THEN HttpText(name, a.day, a.month, a.year, a.clock)
                                            ELSE UtcText(a.year, a.month, a.day, a.clock))
          /\ UNCHANGED <<last_sec, buf>>
    BY DEF Time!Parse, HttpText, UtcText
  <1>2. name \in 1..7 /\ (format = "http" => a.month \in 1..12)
    BY <1>1 DEF Time!WDAY, Time!YMON
  <1>3. result' = Answer(a, asked'.weekday) /\ asked'.date = a
    <2>1. CASE format = "http"
      <3>1. Time!get_timestamp("http", HttpText(name, a.day, a.month, a.year, a.clock))
              = Answer(DateOf(a.year, a.month, a.day, a.clock), name - 1)
        <4>1. /\ name \in 1..7 /\ a.month \in 1..12 /\ a.day \in Nat /\ a.year \in Nat
              /\ a.clock \in Nat \X Nat \X Nat
          BY <1>2, <2>1, DateParts
        <4> QED
          BY <4>1, HttpAnswered
      <3>2. a = DateOf(a.year, a.month, a.day, a.clock)
        BY DateParts
      <3> QED
        BY <1>1, <2>1, <3>1, <3>2
    <2>2. CASE format = "utc"
      BY <1>1, <2>2, DateParts, UtcAnswered
    <2> QED
      BY <2>1, <2>2
  <1>4. last_sec' = Time!Epoch /\ asked' # <<>>
    BY <1>1 DEF TimeInv
  <1> QED
    BY <1>3, <1>4 DEF TimeInv, Time!DatesAreExact, Answer

(* So does get_gmt_time_str().                                               *)
LEMMA GmtStringKeeps ==
  ASSUME TimeInv, Time!GmtString
  PROVE  TimeInv'
  <1>1. PICK a \in Time!Dates :
          /\ asked # <<>> => a = [asked.date EXCEPT !.clock = a.clock]
          /\ Time!IsDate(a) /\ Time!TimeOf(a) # Time!Epoch
          /\ asked' = [date |-> a, weekday |-> -1]
          /\ last_sec' = Time!TimeOf(a)
          /\ buf' = IF Time!TimeOf(a) = last_sec THEN buf ELSE TextOf(a)
          /\ result' = Time!get_timestamp("http", buf')
    BY DEF Time!GmtString, TextOf, HttpText
  <1>2. buf' = TextOf(a)
    <2>1. CASE Time!TimeOf(a) = last_sec
      <3>1. /\ asked.date \in Time!Dates /\ asked # <<>> /\ Time!IsDate(asked.date)
            /\ last_sec = Time!TimeOf(asked.date) /\ buf = TextOf(asked.date)
        BY <1>1, <2>1 DEF TimeInv
      <3>2. a = asked.date
        BY <1>1, <2>1, <3>1, SameSecond
      <3> QED
        BY <1>1, <2>1, <3>1, <3>2
    <2> QED
      BY <1>1, <2>1
  <1>3. result' = Time!TimeOf(a)
    BY <1>1, <1>2, TextIsParsed
  <1>4. asked' # <<>> /\ asked'.date = a /\ asked'.weekday = -1
    BY <1>1
  <1> QED
    BY <1>1, <1>2, <1>3, <1>4 DEF TimeInv, Time!DatesAreExact

(* The dates start as their module says and make its steps only.             *)
LEMMA TimeRuns ==
  /\ MCInit => Time!Init
  /\ [MCNext]_<<component, vars, appVars>> => [Time!Next]_timeVars
BY DEF MCInit, MCNext, appVars, timeVars

(* For every year of the calendar that is written without a sign, a date     *)
(* that exists is parsed to its time, whatever the format, and no other is,  *)
(* nor one with a wrong weekday; get_gmt_time_str() writes what is parsed    *)
(* back to the time it was given.                                            *)
THEOREM DatesAreAlwaysExact == MCSpec => []DatesAreExact
  <1>1. Time!Init => TimeInv
    BY DEF Time!Init, TimeInv, Time!DatesAreExact
  <1>2. TimeInv /\ [Time!Next]_timeVars => TimeInv'
    <2> SUFFICES ASSUME TimeInv, [Time!Next]_timeVars PROVE TimeInv'
      OBVIOUS
    <2>1. CASE UNCHANGED timeVars
      BY <2>1 DEF TimeInv, timeVars, Time!DatesAreExact
    <2> QED
      BY <2>1, ParseKeeps, GmtStringKeeps DEF Time!Next
  <1>3. TimeInv => DatesAreExact
    BY DEF TimeInv, DatesAreExact
  <1> QED
    BY <1>1, <1>2, <1>3, TimeRuns, PTL DEF MCSpec

=============================================================================
