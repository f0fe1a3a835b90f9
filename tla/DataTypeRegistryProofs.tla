------------------------ MODULE DataTypeRegistryProofs ------------------------
(***************************************************************************)
(* Proofs about the registry of datatype providers: what freezing computes *)
(* (for every catalogue, whatever the order of registration was), and that *)
(* all endpoints of the process bind the same types and can publish them.  *)
(***************************************************************************)
EXTENDS DataTypeRegistry, InductionLemmas, FiniteSetTheorems, SequenceTheorems

-----------------------------------------------------------------------------
(* The order that freezing computes                                        *)

\* One round of the loop in computeProviderOrder().
NextOrder(soFar) ==
  IF Ready(Range(soFar)) = {} THEN soFar
  ELSE Append(soFar, PickReady(Ready(Range(soFar))))

\* The names before place i of an order.
Before(s, i) == {s[j] : j \in 1..(i - 1)}

\* Every name of the order was the least one that was ready at its turn.
Greedy(s) ==
  /\ s \in Seq(Registered)
  /\ \A i \in 1..Len(s) : /\ s[i] \in Ready(Before(s, i))
                          /\ \A m \in Ready(Before(s, i)) : s[i] <= m

\* There are finitely many names of providers, and each is a number.
LEMMA NamesFinite ==
  Names \in SUBSET Nat /\ IsFiniteSet(Names) /\ Cardinality(Names) \in Nat
  <1> DEFINE f == [p \in Catalogue |-> p.name]
  <1>1. f \in Surjection(Catalogue, Names)
    BY DEF Surjection, Names
  <1>2. IsFiniteSet(Names)
    BY <1>1, FS_Surjection, DataTypeRegistryAssumption
  <1>3. Names \in SUBSET Nat
    BY DataTypeRegistryAssumption DEF Names, IsProvider
  <1> QED BY <1>2, <1>3, FS_CardinalityType

\* An interval that starts with one has as many elements as its end says.
LEMMA IntervalSize ==
  ASSUME NEW n \in Nat
  PROVE  IsFiniteSet(1..n) /\ Cardinality(1..n) = n
  <1>1. 1 \in Int /\ n \in Int
    OBVIOUS
  <1>2. IsFiniteSet(1..n) /\ Cardinality(1..n) = IF 1 > n THEN 0 ELSE n - 1 + 1
    BY <1>1, FS_Interval
  <1> QED BY <1>2

\* The registered names are some of them.
LEMMA RegisteredFinite ==
  /\ Registered \in SUBSET Nat /\ IsFiniteSet(Registered)
  /\ Cardinality(Registered) \in 0..Cardinality(Names)
  <1>1. Registered \in SUBSET Names
    BY DEF Registered
  <1>2. IsFiniteSet(Registered) /\ Cardinality(Registered) <= Cardinality(Names)
    BY <1>1, NamesFinite, FS_Subset
  <1>3. Cardinality(Registered) \in Nat
    BY <1>2, FS_CardinalityType
  <1> QED BY <1>1, <1>2, <1>3, NamesFinite

\* A function satisfies the recursion of OrderAfter up to every bound.
LEMMA OrderAfterExists ==
  ASSUME NEW N \in Nat
  PROVE  \E f : f = [k \in 0..N |-> IF k = 0 THEN <<>> ELSE NextOrder(f[k - 1])]
  <1> DEFINE Has(n) == \E f : f = [k \in 0..n |-> IF k = 0 THEN <<>>
                                                  ELSE NextOrder(f[k - 1])]
             T == {n \in Nat : Has(n)}
  <1>1. Has(0)
    <2>1. [k \in 0..0 |-> <<>>] = [k \in 0..0 |->
             IF k = 0 THEN <<>> ELSE NextOrder([j \in 0..0 |-> <<>>][k - 1])]
      OBVIOUS
    <2> QED BY <2>1
  <1>2. ASSUME NEW n \in Nat, Has(n) PROVE Has(n + 1)
    <2>1. PICK f : f = [k \in 0..n |-> IF k = 0 THEN <<>> ELSE NextOrder(f[k - 1])]
      BY <1>2
    <2> DEFINE g == [k \in 0..(n + 1) |-> IF k <= n THEN f[k] ELSE NextOrder(f[n])]
    <2>2. ASSUME NEW k \in 0..(n + 1)
          PROVE  g[k] = IF k = 0 THEN <<>> ELSE NextOrder(g[k - 1])
      BY <2>1, <2>2
    <2>3. g = [k \in 0..(n + 1) |-> IF k = 0 THEN <<>> ELSE NextOrder(g[k - 1])]
      BY <2>2
    <2> QED BY <2>3
  <1> HIDE DEF Has
  <1>3. 0 \in T /\ \A n \in 0..N : n \in T /\ n < N => n + 1 \in T
    BY <1>1, <1>2
  <1>4. 0..N \subseteq T
    <2> HIDE DEF T
    <2> QED BY <1>3, BoundedInduction
  <1>5. Has(N)
    BY <1>4
  <1> QED BY <1>5 DEF Has

\* OrderAfter is the function its definition describes.
LEMMA OrderAfterRounds ==
  /\ OrderAfter[0] = <<>>
  /\ \A k \in 1..Cardinality(Names) : OrderAfter[k] = NextOrder(OrderAfter[k - 1])
  <1> DEFINE N == Cardinality(Names)
  <1>1. N \in Nat
    BY NamesFinite
  <1>2. OrderAfter = [k \in 0..N |-> IF k = 0 THEN <<>>
                                     ELSE NextOrder(OrderAfter[k - 1])]
    BY <1>1, OrderAfterExists DEF OrderAfter, NextOrder
  <1> HIDE DEF N
  <1>3. ASSUME NEW k \in 1..N PROVE OrderAfter[k] = NextOrder(OrderAfter[k - 1])
    BY <1>1, <1>2, <1>3
  <1>4. OrderAfter[0] = <<>>
    BY <1>1, <1>2
  <1> QED BY <1>3, <1>4 DEF N

\* The least of the names that are ready exists and is one of them.
LEMMA PickReadyIsLeast ==
  ASSUME NEW done, Ready(done) # {}
  PROVE  /\ PickReady(Ready(done)) \in Ready(done)
         /\ \A m \in Ready(done) : PickReady(Ready(done)) <= m
  <1>1. Ready(done) \in SUBSET Nat
    BY RegisteredFinite DEF Ready
  <1>2. \E n \in Ready(done) : \A m \in Ready(done) : n <= m
    BY <1>1, LeastNat
  <1> QED BY <1>2 DEF PickReady, Min

\* An order that is greedy names each provider once and after all providers it
\* depends on.
LEMMA GreedyIsTopological ==
  ASSUME NEW s, Greedy(s)
  PROVE  /\ s \in [1..Len(s) -> Registered] /\ Len(s) \in Nat
         /\ s \in Injection(1..Len(s), Registered)
         /\ \A i \in 1..Len(s) : Dependencies(s[i]) \subseteq Before(s, i)
         /\ Range(s) = {s[i] : i \in 1..Len(s)}
         /\ Range(s) \subseteq Registered
         /\ Len(s) <= Cardinality(Registered)
         /\ Len(s) = Cardinality(Registered) <=> Range(s) = Registered
  <1>1. s \in [1..Len(s) -> Registered] /\ Len(s) \in Nat
    BY LenProperties DEF Greedy
  <1>2. ASSUME NEW i \in 1..Len(s), NEW j \in 1..Len(s), s[i] = s[j], i < j
        PROVE  FALSE
    <2>1. s[j] \notin Before(s, j)
      BY DEF Greedy, Ready
    <2>2. i \in 1..(j - 1)
      BY <1>1, <1>2
    <2> QED BY <2>1, <2>2, <1>2 DEF Before
  <1>3. \A i, j \in 1..Len(s) : s[i] = s[j] => i = j
    <2> SUFFICES ASSUME NEW i \in 1..Len(s), NEW j \in 1..Len(s), s[i] = s[j], i # j
                 PROVE  FALSE
      OBVIOUS
    <2>1. i < j \/ j < i
      BY <1>1
    <2> QED BY <2>1, <1>2
  <1>4. s \in Injection(1..Len(s), Registered)
    BY <1>1, <1>3 DEF Injection, IsInjective
  <1>5. \A i \in 1..Len(s) : Dependencies(s[i]) \subseteq Before(s, i)
    BY DEF Greedy, Ready
  <1>6. Range(s) = {s[i] : i \in 1..Len(s)} /\ Range(s) \subseteq Registered
    BY <1>1 DEF Range
  <1>7. IsFiniteSet(1..Len(s)) /\ Cardinality(1..Len(s)) = Len(s)
    BY <1>1, IntervalSize
  <1>8. /\ Cardinality(1..Len(s)) <= Cardinality(Registered)
        /\ Cardinality(1..Len(s)) = Cardinality(Registered) <=>
             s \in Surjection(1..Len(s), Registered)
    BY <1>4, RegisteredFinite, FS_Injection
  <1>9. s \in Surjection(1..Len(s), Registered) <=> Range(s) = Registered
    BY <1>1, <1>6 DEF Surjection
  <1> QED BY <1>1, <1>4, <1>5, <1>6, <1>7, <1>8, <1>9

\* A name that is the least one ready may follow a greedy order.
LEMMA GreedyAppend ==
  ASSUME NEW s, Greedy(s), NEW n, n \in Ready(Range(s)),
         \A m \in Ready(Range(s)) : n <= m
  PROVE  Greedy(Append(s, n)) /\ Len(Append(s, n)) = Len(s) + 1
  <1> DEFINE t == Append(s, n)
  <1>1. s \in Seq(Registered) /\ n \in Registered /\ Len(s) \in Nat
    BY GreedyIsTopological DEF Greedy, Ready
  <1>2. /\ t \in Seq(Registered) /\ Len(t) = Len(s) + 1
        /\ \A i \in 1..Len(s) : t[i] = s[i]
        /\ t[Len(s) + 1] = n
    BY <1>1, AppendProperties
  <1> HIDE DEF t
  <1>3. ASSUME NEW i \in 1..(Len(s) + 1) PROVE Before(t, i) = Before(s, i)
    <2>1. \A j \in 1..(i - 1) : j \in 1..Len(s)
      BY <1>1, <1>3
    <2> QED BY <2>1, <1>2 DEF Before
  <1>4. Before(s, Len(s) + 1) = Range(s)
    <2>1. 1..((Len(s) + 1) - 1) = 1..Len(s)
      BY <1>1
    <2>2. Range(s) = {s[i] : i \in 1..Len(s)}
      BY GreedyIsTopological
    <2> QED BY <2>1, <2>2 DEF Before
  <1>5. ASSUME NEW i \in 1..Len(t)
        PROVE  t[i] \in Ready(Before(t, i)) /\ \A m \in Ready(Before(t, i)) : t[i] <= m
    <2>1. CASE i = Len(s) + 1
      <3>1. Before(t, i) = Range(s) /\ t[i] = n
        BY <2>1, <1>1, <1>2, <1>3, <1>4
      <3> QED BY <3>1
    <2>2. CASE i # Len(s) + 1
      <3>1. i \in 1..Len(s) /\ i \in 1..(Len(s) + 1)
        BY <1>5, <2>2, <1>1, <1>2
      <3>2. Before(t, i) = Before(s, i) /\ t[i] = s[i]
        BY <3>1, <1>2, <1>3
      <3> QED BY <3>1, <3>2 DEF Greedy
    <2> QED BY <2>1, <2>2
  <1>6. Greedy(t)
    BY <1>2, <1>5 DEF Greedy
  <1> QED BY <1>2, <1>6 DEF t

\* The order that the loop ends with is greedy, and nothing is ready any more.
LEMMA ProviderOrderIsGreedy ==
  Greedy(ProviderOrder) /\ Ready(Range(ProviderOrder)) = {}
  <1> DEFINE N == Cardinality(Names)
             Good(k) == /\ Greedy(OrderAfter[k]) /\ Len(OrderAfter[k]) <= k
                        /\ Len(OrderAfter[k]) < k => Ready(Range(OrderAfter[k])) = {}
             T == {k \in 0..N : Good(k)}
  <1>1. N \in Nat
    BY NamesFinite
  <1>2. Good(0)
    <2>1. Greedy(<<>>) /\ Len(<<>>) = 0
      BY EmptySeq DEF Greedy
    <2> QED BY <2>1, OrderAfterRounds
  <1>3. ASSUME NEW k \in 0..N, Good(k), k < N PROVE Good(k + 1)
    <2> DEFINE s == OrderAfter[k]
    <2>1. OrderAfter[k + 1] = NextOrder(s)
      <3>1. k + 1 \in 1..N /\ (k + 1) - 1 = k
        BY <1>1, <1>3
      <3> QED BY <3>1, OrderAfterRounds
    <2>2. Greedy(s) /\ Len(s) <= k /\ (Len(s) < k => Ready(Range(s)) = {})
      BY <1>3
    <2>3. Len(s) \in Nat /\ k \in Nat
      BY <2>2, GreedyIsTopological
    <2> HIDE DEF s
    <2>4. CASE Ready(Range(s)) = {}
      <3>1. OrderAfter[k + 1] = s
        BY <2>1, <2>4 DEF NextOrder
      <3>2. Len(s) <= k + 1
        BY <2>2, <2>3
      <3> QED BY <3>1, <3>2, <2>2, <2>4
    <2>5. CASE Ready(Range(s)) # {}
      <3> DEFINE n == PickReady(Ready(Range(s)))
      <3>1. OrderAfter[k + 1] = Append(s, n)
        BY <2>1, <2>5 DEF NextOrder
      <3>2. n \in Ready(Range(s)) /\ \A m \in Ready(Range(s)) : n <= m
        BY <2>5, PickReadyIsLeast
      <3> HIDE DEF n
      <3>3. Greedy(Append(s, n)) /\ Len(Append(s, n)) = Len(s) + 1
        BY <2>2, <3>2, GreedyAppend
      <3>4. Len(s) = k
        BY <2>2, <2>3, <2>5
      <3> QED BY <3>1, <3>3, <3>4, <2>3
    <2> QED BY <2>4, <2>5
  <1> HIDE DEF Good
  <1>4. 0 \in T /\ \A k \in 0..N : k \in T /\ k < N => k + 1 \in T
    BY <1>1, <1>2, <1>3
  <1>5. 0..N \subseteq T
    <2> HIDE DEF T, N
    <2> QED BY <1>1, <1>4, BoundedInduction
  <1>6. Good(N)
    BY <1>1, <1>5
  <1> DEFINE p == ProviderOrder
  <1>7. Greedy(p) /\ Len(p) <= N /\ (Len(p) < N => Ready(Range(p)) = {})
    BY <1>6 DEF Good, ProviderOrder
  <1> HIDE DEF p
  <1>8. CASE Len(p) = N
    <2>1. Len(p) = Cardinality(Registered)
      BY <1>7, <1>8, <1>1, RegisteredFinite, GreedyIsTopological
    <2>2. Range(p) = Registered
      BY <2>1, <1>7, GreedyIsTopological
    <2> QED BY <2>2, <1>7 DEF Ready, p
  <1>9. Len(p) \in Nat
    BY <1>7, GreedyIsTopological
  <1> QED BY <1>1, <1>7, <1>8, <1>9 DEF p

\* Freezing succeeds exactly if the providers can be ordered at all.
LEMMA CanFreezeIffOrderable ==
  CanFreeze <=> TopologicalOrders # {}
  <1> DEFINE s == ProviderOrder
             C == Cardinality(Registered)
  <1>1. Greedy(s) /\ Ready(Range(s)) = {}
    BY ProviderOrderIsGreedy
  <1>2. C \in Nat /\ IsFiniteSet(1..C) /\ Cardinality(1..C) = C
    BY RegisteredFinite, IntervalSize
  <1>3. ASSUME CanFreeze PROVE s \in TopologicalOrders
    <2>1. Len(s) = C
      BY <1>3 DEF CanFreeze
    <2> HIDE DEF s
    <2>2. s \in [1..C -> Registered] /\ IsInjective(s) /\ DOMAIN s = 1..C
      BY <2>1, <1>1, GreedyIsTopological DEF Injection
    <2>3. \A i \in 1..C : Dependencies(s[i]) \subseteq {s[j] : j \in 1..(i - 1)}
      BY <2>1, <1>1, GreedyIsTopological DEF Before
    <2> QED BY <2>2, <2>3 DEF TopologicalOrders
  <1>4. ASSUME NEW t \in TopologicalOrders PROVE CanFreeze
    <2>1. /\ t \in [1..C -> Registered] /\ IsInjective(t)
          /\ \A i \in 1..C : Dependencies(t[i]) \subseteq {t[j] : j \in 1..(i - 1)}
      BY DEF TopologicalOrders
    <2>2. t \in Injection(1..C, Registered)
      BY <2>1 DEF Injection
    <2>3. t \in Surjection(1..C, Registered)
      BY <2>2, <1>2, RegisteredFinite, FS_Injection
    <2>4. \A n \in Registered : \E i \in 1..C : t[i] = n
      BY <2>3 DEF Surjection
    <2>5. \A n \in Registered : Dependencies(n) \subseteq Registered
      <3> SUFFICES ASSUME NEW n \in Registered PROVE Dependencies(n) \subseteq Registered
        OBVIOUS
      <3>1. PICK i \in 1..C : t[i] = n
        BY <2>4
      <3>2. \A j \in 1..(i - 1) : j \in 1..C
        BY <1>2
      <3>3. {t[j] : j \in 1..(i - 1)} \subseteq Registered
        BY <3>2, <2>1
      <3> QED BY <3>1, <3>3, <2>1
    <2> HIDE DEF s
    <2>6. Range(s) = Registered
      <3> DEFINE Missing == {i \in 1..C : t[i] \notin Range(s)}
      <3>1. Missing = {}
        <4> SUFFICES ASSUME Missing # {} PROVE FALSE
          OBVIOUS
        <4>1. Missing \in SUBSET Nat
          BY <1>2
        <4>2. PICK i \in Missing : \A j \in Missing : i <= j
          <5> HIDE DEF Missing
          <5> QED BY <4>1, LeastNat
        <4>3. i \in 1..C /\ t[i] \notin Range(s)
          OBVIOUS
        <4>4. ASSUME NEW j \in 1..(i - 1) PROVE t[j] \in Range(s)
          <5>1. j \in 1..C /\ ~(i <= j)
            BY <4>3, <4>4, <1>2
          <5> QED BY <5>1, <4>2
        <4>5. Dependencies(t[i]) \subseteq Range(s)
          BY <4>3, <4>4, <2>1
        <4>6. t[i] \in Ready(Range(s))
          BY <4>3, <4>5, <2>1 DEF Ready
        <4> QED BY <4>6, <1>1
      <3>2. Registered \subseteq Range(s)
        BY <3>1, <2>4
      <3> QED BY <3>2, <1>1, GreedyIsTopological
    <2>7. Len(s) = C
      BY <2>6, <1>1, GreedyIsTopological
    <2> QED BY <2>5, <2>7 DEF CanFreeze, s
  <1> QED BY <1>3, <1>4

\* The order that freezing stores is one in which each provider follows what it
\* depends on, and no such order comes before it alphabetically.
LEMMA ProviderOrderIsLeast ==
  ASSUME CanFreeze
  PROVE  /\ ProviderOrder \in TopologicalOrders
         /\ \A t \in TopologicalOrders : LexLeq(ProviderOrder, t)
  <1> DEFINE s == ProviderOrder
             C == Cardinality(Registered)
  <1>1. Greedy(s)
    BY ProviderOrderIsGreedy
  <1>2. C \in Nat
    BY RegisteredFinite
  <1>3. Len(s) = C
    BY DEF CanFreeze
  <1> HIDE DEF s
  <1>4. s \in [1..C -> Registered] /\ IsInjective(s) /\ DOMAIN s = 1..C
    BY <1>1, <1>3, GreedyIsTopological DEF Injection
  <1>5. \A i \in 1..C : Dependencies(s[i]) \subseteq {s[j] : j \in 1..(i - 1)}
    BY <1>1, <1>3, GreedyIsTopological DEF Before
  <1>6. s \in TopologicalOrders
    BY <1>4, <1>5 DEF TopologicalOrders
  <1>7. ASSUME NEW t \in TopologicalOrders, s # t PROVE LexLeq(s, t)
    <2>1. /\ t \in [1..C -> Registered] /\ IsInjective(t) /\ DOMAIN t = 1..C
          /\ \A i \in 1..C : Dependencies(t[i]) \subseteq {t[j] : j \in 1..(i - 1)}
      BY DEF TopologicalOrders
    <2> DEFINE Differ == {i \in 1..C : s[i] # t[i]}
    <2>2. Differ # {} /\ Differ \in SUBSET Nat
      BY <1>2, <1>4, <1>7, <2>1
    <2>3. PICK i \in Differ : \A j \in Differ : i <= j
      <3> HIDE DEF Differ
      <3> QED BY <2>2, LeastNat
    <2>4. i \in 1..C /\ s[i] # t[i]
      OBVIOUS
    <2>5. ASSUME NEW j \in 1..(i - 1) PROVE s[j] = t[j] /\ j \in 1..C /\ j # i
      <3>1. j \in 1..C /\ ~(i <= j) /\ j # i
        BY <2>4, <2>5, <1>2
      <3> QED BY <3>1, <2>3
    <2>6. Before(s, i) = {t[j] : j \in 1..(i - 1)}
      BY <2>5 DEF Before
    <2>7. t[i] \notin {t[j] : j \in 1..(i - 1)}
      BY <2>1, <2>4, <2>5 DEF IsInjective
    <2>8. t[i] \in Ready(Before(s, i))
      BY <2>1, <2>4, <2>6, <2>7 DEF Ready
    <2>9. s[i] <= t[i]
      BY <2>4, <2>8, <1>1, <1>3 DEF Greedy
    <2>10. s[i] \in Nat /\ t[i] \in Nat
      BY <2>1, <2>4, <1>4, RegisteredFinite
    <2>11. s[i] < t[i]
      BY <2>4, <2>9, <2>10
    <2> QED BY <1>4, <2>4, <2>5, <2>11 DEF LexLeq
  <1>8. \A t \in TopologicalOrders : LexLeq(s, t)
    BY <1>7 DEF LexLeq
  <1> QED BY <1>6, <1>8 DEF s

-----------------------------------------------------------------------------
(* The NodeIds of the definitions                                          *)

\* The NodeIds of one definition.
Ids(d) == {TypeId(d), EncodingId(d)}

\* No NodeId belongs to two definitions of the sequence.
DistinctIds(ds) ==
  \A i, j \in DOMAIN ds : i # j => Ids(ds[i]) \cap Ids(ds[j]) = {}

\* Counting the NodeIds, as validateAndNormalize() does with a set it fills, is
\* enough to know that no two definitions share one.
LEMMA CountedIdsAreDistinct ==
  ASSUME NEW S, NEW ds \in Seq(S), Cardinality(NodeIds(ds)) = 2 * Len(ds)
  PROVE  DistinctIds(ds)
  <1> DEFINE L == Len(ds)
             D == (1..L) \X (1..2)
             f == [x \in D |-> IF x[2] = 1 THEN TypeId(ds[x[1]]) ELSE EncodingId(ds[x[1]])]
  <1>1. L \in Nat /\ DOMAIN ds = 1..L
    BY LenProperties
  <1>2. IsFiniteSet(1..L) /\ Cardinality(1..L) = L
    BY <1>1, IntervalSize
  <1>3. IsFiniteSet(1..2) /\ Cardinality(1..2) = 2
    BY IntervalSize
  <1>4. IsFiniteSet(D) /\ Cardinality(D) = L * 2
    <2> DEFINE A == 1..L
               B == 1..2
    <2>1. IsFiniteSet(A) /\ IsFiniteSet(B)
      BY <1>2, <1>3
    <2> HIDE DEF A, B
    <2>2. IsFiniteSet(A \X B) /\ Cardinality(A \X B) = Cardinality(A) * Cardinality(B)
      BY <2>1, FS_Product
    <2> QED BY <2>2, <1>2, <1>3 DEF A, B
  <1>5. ASSUME NEW x \in D PROVE f[x] \in NodeIds(ds)
    <2>1. x[1] \in DOMAIN ds
      BY <1>1, <1>5
    <2>2. f[x] \in {TypeId(ds[x[1]]), EncodingId(ds[x[1]])}
      BY <1>5
    <2> HIDE DEF f
    <2> QED BY <2>1, <2>2 DEF NodeIds
  <1>6. ASSUME NEW y \in NodeIds(ds) PROVE \E x \in D : f[x] = y
    <2>1. PICK i \in DOMAIN ds : y = TypeId(ds[i]) \/ y = EncodingId(ds[i])
      BY <1>6 DEF NodeIds
    <2>2. <<i, 1>> \in D /\ <<i, 2>> \in D
      BY <1>1
    <2>3. f[<<i, 1>>] = TypeId(ds[i]) /\ f[<<i, 2>>] = EncodingId(ds[i])
      BY <2>2
    <2> HIDE DEF f, D
    <2> QED BY <2>1, <2>2, <2>3
  <1>7. f \in Surjection(D, NodeIds(ds))
    <2>1. f \in [D -> NodeIds(ds)]
      BY <1>5
    <2> HIDE DEF f, D
    <2> QED BY <2>1, <1>6 DEF Surjection
  <1>8. f \in Injection(D, NodeIds(ds))
    <2>1. Cardinality(NodeIds(ds)) = Cardinality(D)
      BY <1>1, <1>4
    <2> HIDE DEF f, D
    <2> QED BY <2>1, <1>4, <1>7, FS_Surjection
  <1>9. ASSUME NEW i \in 1..L, NEW j \in 1..L, i # j
        PROVE  Ids(ds[i]) \cap Ids(ds[j]) = {}
    <2>1. /\ <<i, 1>> \in D /\ f[<<i, 1>>] = TypeId(ds[i])
          /\ <<i, 2>> \in D /\ f[<<i, 2>>] = EncodingId(ds[i])
          /\ <<j, 1>> \in D /\ f[<<j, 1>>] = TypeId(ds[j])
          /\ <<j, 2>> \in D /\ f[<<j, 2>>] = EncodingId(ds[j])
      BY <1>1
    <2>2. \A x, y \in D : f[x] = f[y] => x = y
      <3> HIDE DEF f, D
      <3> QED BY <1>8 DEF Injection, IsInjective
    <2> HIDE DEF f, D
    <2>3. \A a, b \in 1..2 : <<i, a>> # <<j, b>>
      BY <1>9
    <2>4. /\ TypeId(ds[i]) # TypeId(ds[j]) /\ TypeId(ds[i]) # EncodingId(ds[j])
          /\ EncodingId(ds[i]) # TypeId(ds[j]) /\ EncodingId(ds[i]) # EncodingId(ds[j])
      BY <2>1, <2>2, <2>3
    <2> QED BY <2>4 DEF Ids
  <1> QED BY <1>1, <1>9 DEF DistinctIds

\* Two sequences of definitions that share no NodeId can be joined.
LEMMA JoinedIdsAreDistinct ==
  ASSUME NEW S, NEW s \in Seq(S), NEW t \in Seq(S), DistinctIds(s), DistinctIds(t),
         NodeIds(s) \cap NodeIds(t) = {}
  PROVE  /\ s \o t \in Seq(S) /\ DistinctIds(s \o t)
         /\ NodeIds(s \o t) \subseteq NodeIds(s) \cup NodeIds(t)
  <1> DEFINE u == s \o t
  <1>1. /\ u \in Seq(S) /\ Len(u) = Len(s) + Len(t)
        /\ \A i \in 1..(Len(s) + Len(t)) :
             u[i] = IF i <= Len(s) THEN s[i] ELSE t[i - Len(s)]
    BY ConcatProperties
  <1>2. /\ Len(s) \in Nat /\ Len(t) \in Nat
        /\ DOMAIN s = 1..Len(s) /\ DOMAIN t = 1..Len(t)
        /\ DOMAIN u = 1..(Len(s) + Len(t))
    BY <1>1, LenProperties
  <1> HIDE DEF u
  <1>3. ASSUME NEW i \in DOMAIN u
        PROVE  \/ i \in DOMAIN s /\ u[i] = s[i]
               \/ i - Len(s) \in DOMAIN t /\ u[i] = t[i - Len(s)] /\ i \notin DOMAIN s
    <2>1. CASE i <= Len(s)
      BY <2>1, <1>1, <1>2
    <2>2. CASE ~(i <= Len(s))
      BY <2>2, <1>1, <1>2
    <2> QED BY <2>1, <2>2
  <1>4. /\ \A i \in DOMAIN s : Ids(s[i]) \subseteq NodeIds(s)
        /\ \A i \in DOMAIN t : Ids(t[i]) \subseteq NodeIds(t)
    BY DEF Ids, NodeIds
  <1>5. NodeIds(u) \subseteq NodeIds(s) \cup NodeIds(t)
    <2> SUFFICES ASSUME NEW y \in NodeIds(u) PROVE y \in NodeIds(s) \cup NodeIds(t)
      OBVIOUS
    <2>1. PICK i \in DOMAIN u : y \in Ids(u[i])
      BY DEF NodeIds, Ids
    <2> QED BY <2>1, <1>3, <1>4
  <1>6. ASSUME NEW i \in DOMAIN u, NEW j \in DOMAIN u, i # j
        PROVE  Ids(u[i]) \cap Ids(u[j]) = {}
    <2>1. CASE i \in DOMAIN s /\ j \in DOMAIN s
      BY <2>1, <1>2, <1>3, <1>6 DEF DistinctIds
    <2>2. CASE i \in DOMAIN s /\ j \notin DOMAIN s
      BY <2>2, <1>3, <1>4
    <2>3. CASE i \notin DOMAIN s /\ j \in DOMAIN s
      BY <2>3, <1>3, <1>4
    <2>4. CASE i \notin DOMAIN s /\ j \notin DOMAIN s
      <3>1. /\ i - Len(s) \in DOMAIN t /\ u[i] = t[i - Len(s)]
            /\ j - Len(s) \in DOMAIN t /\ u[j] = t[j - Len(s)]
        BY <2>4, <1>3
      <3>2. i - Len(s) # j - Len(s)
        BY <1>2, <1>6
      <3> QED BY <3>1, <3>2 DEF DistinctIds
    <2> QED BY <2>1, <2>2, <2>3, <2>4
  <1> QED BY <1>1, <1>5, <1>6 DEF DistinctIds, u

\* The definitions of one more provider are added to those before it.
Joined(ds, names, map, k) == ds \o map[names[k]].types

\* The recursion in DefinitionsOf.
IsJoining(f, N, names, map) ==
  f = [k \in 0..N |-> IF k = 0 THEN <<>> ELSE Joined(f[k - 1], names, map, k)]

\* A function satisfies the recursion in DefinitionsOf up to every bound.
LEMMA DefinitionsExist ==
  ASSUME NEW N \in Nat, NEW names, NEW map
  PROVE  \E f : IsJoining(f, N, names, map)
  <1> DEFINE Has(n) == \E f : f = [k \in 0..n |-> IF k = 0 THEN <<>>
                                    ELSE Joined(f[k - 1], names, map, k)]
             T == {n \in Nat : Has(n)}
  <1>1. Has(0)
    <2>1. [k \in 0..0 |-> <<>>] = [k \in 0..0 |-> IF k = 0 THEN <<>>
             ELSE Joined([j \in 0..0 |-> <<>>][k - 1], names, map, k)]
      OBVIOUS
    <2> QED BY <2>1
  <1>2. ASSUME NEW n \in Nat, Has(n) PROVE Has(n + 1)
    <2>1. PICK f : f = [k \in 0..n |-> IF k = 0 THEN <<>>
                                       ELSE Joined(f[k - 1], names, map, k)]
      BY <1>2
    <2> DEFINE g == [k \in 0..(n + 1) |-> IF k <= n THEN f[k]
                                          ELSE Joined(f[n], names, map, k)]
    <2>2. ASSUME NEW k \in 0..(n + 1)
          PROVE  g[k] = IF k = 0 THEN <<>> ELSE Joined(g[k - 1], names, map, k)
      BY <2>1, <2>2
    <2>3. g = [k \in 0..(n + 1) |-> IF k = 0 THEN <<>>
                                    ELSE Joined(g[k - 1], names, map, k)]
      BY <2>2
    <2> QED BY <2>3
  <1> HIDE DEF Has
  <1>3. 0 \in T /\ \A n \in 0..N : n \in T /\ n < N => n + 1 \in T
    BY <1>1, <1>2
  <1>4. 0..N \subseteq T
    <2> HIDE DEF T
    <2> QED BY <1>3, BoundedInduction
  <1>5. Has(N)
    BY <1>4
  <1> QED BY <1>5 DEF Has, IsJoining

\* If no two providers share a NodeId, neither do two definitions of an order
\* that names each provider once.
LEMMA DefinitionsAreDistinct ==
  ASSUME NEW M, NEW names \in Seq(M), NEW map,
         \A i, j \in 1..Len(names) : names[i] = names[j] => i = j,
         \A n \in M : map[n].types \in Seq(Definitions) /\ DistinctIds(map[n].types),
         \A m, n \in M : m # n => NodeIds(map[m].types) \cap NodeIds(map[n].types) = {}
  PROVE  /\ DefinitionsOf(names, map) \in Seq(Definitions)
         /\ DistinctIds(DefinitionsOf(names, map))
  <1> DEFINE N == Len(names)
             u == CHOOSE f : IsJoining(f, N, names, map)
             Good(k) == /\ u[k] \in Seq(Definitions) /\ DistinctIds(u[k])
                        /\ \A y \in NodeIds(u[k]) :
                             \E j \in 1..k : y \in NodeIds(map[names[j]].types)
             T == {k \in 0..N : Good(k)}
  <1>1. N \in Nat /\ \A i \in 1..N : names[i] \in M
    BY LenProperties, ElementOfSeq
  <1>2. u = [k \in 0..N |-> IF k = 0 THEN <<>> ELSE Joined(u[k - 1], names, map, k)]
    <2> HIDE DEF N
    <2>1. \E f : IsJoining(f, N, names, map)
      BY <1>1, DefinitionsExist
    <2>2. IsJoining(u, N, names, map)
      BY <2>1
    <2> QED BY <2>2 DEF IsJoining
  <1>3. DefinitionsOf(names, map) = u[N]
    BY DEF DefinitionsOf, Joined, IsJoining
  <1> HIDE DEF u
  <1>4. u[0] = <<>> /\ \A k \in 1..N : u[k] = u[k - 1] \o map[names[k]].types
    <2>1. ASSUME NEW k \in 1..N PROVE u[k] = Joined(u[k - 1], names, map, k)
      BY <1>1, <1>2, <2>1
    <2>2. u[0] = <<>>
      BY <1>1, <1>2
    <2> QED BY <2>1, <2>2 DEF Joined
  <1>5. Good(0)
    <2>1. <<>> \in Seq(Definitions) /\ DistinctIds(<<>>) /\ NodeIds(<<>>) = {}
      BY EmptySeq DEF DistinctIds, NodeIds
    <2> QED BY <2>1, <1>4
  <1>6. ASSUME NEW k \in 0..N, Good(k), k < N PROVE Good(k + 1)
    <2> DEFINE ts == map[names[k + 1]].types
    <2>1. k + 1 \in 1..N /\ (k + 1) - 1 = k /\ k \in Nat
      BY <1>1, <1>6
    <2>2. u[k + 1] = u[k] \o ts
      BY <2>1, <1>4
    <2>3. ts \in Seq(Definitions) /\ DistinctIds(ts) /\ names[k + 1] \in M
      BY <2>1, <1>1
    <2> HIDE DEF N
    <2>4. ASSUME NEW j \in 1..k
          PROVE  NodeIds(map[names[j]].types) \cap NodeIds(ts) = {}
      <3>1. j \in 1..N /\ j # k + 1
        BY <2>1, <2>4, <1>1
      <3>2. names[j] # names[k + 1]
        BY <3>1, <2>1 DEF N
      <3>3. names[j] \in M
        BY <3>1, <1>1
      <3> QED BY <3>2, <3>3, <2>3
    <2> HIDE DEF ts
    <2>5. NodeIds(u[k]) \cap NodeIds(ts) = {}
      BY <2>4, <1>6
    <2>6. /\ u[k] \o ts \in Seq(Definitions) /\ DistinctIds(u[k] \o ts)
          /\ NodeIds(u[k] \o ts) \subseteq NodeIds(u[k]) \cup NodeIds(ts)
      BY <2>3, <2>5, <1>6, JoinedIdsAreDistinct
    <2>7. ASSUME NEW y \in NodeIds(u[k + 1])
          PROVE  \E j \in 1..(k + 1) : y \in NodeIds(map[names[j]].types)
      <3>1. CASE y \in NodeIds(u[k])
        <4>1. PICK j \in 1..k : y \in NodeIds(map[names[j]].types)
          BY <3>1, <1>6
        <4>2. j \in 1..(k + 1)
          BY <2>1
        <4> QED BY <4>1, <4>2
      <3>2. CASE y \in NodeIds(ts)
        <4>1. k + 1 \in 1..(k + 1)
          BY <2>1
        <4> QED BY <3>2, <4>1 DEF ts
      <3> QED BY <3>1, <3>2, <2>2, <2>6, <2>7
    <2> QED BY <2>2, <2>6, <2>7
  <1> HIDE DEF Good
  <1>7. 0 \in T /\ \A k \in 0..N : k \in T /\ k < N => k + 1 \in T
    BY <1>1, <1>5, <1>6
  <1>8. 0..N \subseteq T
    <2> HIDE DEF T, N
    <2> QED BY <1>1, <1>7, BoundedInduction
  <1>9. Good(N)
    BY <1>1, <1>8
  <1> QED BY <1>3, <1>9 DEF Good

-----------------------------------------------------------------------------
(* The inductive invariant                                                 *)

\* No NodeId belongs to two definitions of the registered providers.
NodeIdsInv ==
  /\ \A n \in Registered : DistinctIds(providers[n].types)
  /\ \A m, n \in Registered :
       m # n => NodeIds(providers[m].types) \cap NodeIds(providers[n].types) = {}

\* What was frozen is the least topological order of what is registered.
OrderInv ==
  frozen => /\ order \in TopologicalOrders
            /\ \A s \in TopologicalOrders : LexLeq(order, s)

\* An endpoint that has got the providers once knows that they are frozen; a
\* client reads the table of its server before it asks for them.
KnowsFrozen(e) ==
  /\ pc[e] \in {"namespaces", "copy", "bind", "publish", "bound"} => frozen
  /\ e \in Servers /\ pc[e] = "create" => frozen

\* A server has registered the namespaces of the frozen providers.
HasNamespaces(e) ==
  e \in Servers /\ pc[e] \in {"create", "copy"} =>
    \A n \in Range(order) : providers[n].uri \in Uris(table[e])

\* What an endpoint has materialized, and has still to materialize, are the
\* frozen definitions; an endpoint that binds nothing has none.
HasDefinitions(e) ==
  /\ pc[e] \in {"idle", "namespaces", "create", "copy"} => custom[e] = <<>>
  /\ pc[e] = "bind" => custom[e] \o todo[e] = FrozenDefinitions
  /\ pc[e] \in {"publish", "bound"} => custom[e] = FrozenDefinitions

\* The definitions ds from place k on are still to be published, and each
\* NodeId in ids comes from one of those before.
Published(ds, k, rest, ids) ==
  /\ Len(rest) = Len(ds) - k
  /\ \A i \in 1..Len(rest) : rest[i] = ds[k + i]
  /\ \A y \in ids : \E i \in 1..k : y \in Ids(ds[i])

\* A server that publishes has gone through a part of its definitions.
HasNodes(e) ==
  /\ pc[e] \notin {"publish", "bound"} => nodes[e] = {}
  /\ pc[e] = "publish" =>
       \E k \in 0..Len(custom[e]) : Published(custom[e], k, todo[e], nodes[e])

EndpointOk(e) ==
  KnowsFrozen(e) /\ HasNamespaces(e) /\ HasDefinitions(e) /\ HasNodes(e)
EndpointInv == \A e \in Endpoints : EndpointOk(e)

RegistryInv == TypeOK /\ NodeIdsInv /\ OrderInv /\ EndpointInv

\* What every step does to a registry that is frozen: nothing.
RegistryKept == frozen => frozen' /\ providers' = providers /\ order' = order

\* The step leaves endpoint e as it is.
EndpointKept(e) ==
  /\ pc'[e] = pc[e] /\ table'[e] = table[e] /\ todo'[e] = todo[e]
  /\ custom'[e] = custom[e] /\ nodes'[e] = nodes[e]

\* A registered name has a provider of the catalogue.
LEMMA RegisteredHasProvider ==
  ASSUME TypeOK, NEW n \in Registered
  PROVE  /\ providers[n] \in Catalogue /\ n \in Names
         /\ providers[n].types \in Seq(Definitions) /\ providers[n].uri \in STRING
  BY DataTypeRegistryAssumption DEF TypeOK, Registered, IsProvider

\* A frozen order names registered providers, each once.
LEMMA FrozenOrder ==
  ASSUME RegistryInv, frozen
  PROVE  /\ order \in Seq(Registered) /\ Range(order) \subseteq Registered
         /\ IsFiniteSet(Range(order))
         /\ \A i, j \in 1..Len(order) : order[i] = order[j] => i = j
  <1>1. order \in [1..Cardinality(Registered) -> Registered] /\ IsInjective(order)
    BY DEF RegistryInv, OrderInv, TopologicalOrders
  <1>2. order \in Seq(Names)
    BY DEF RegistryInv, TypeOK
  <1>3. DOMAIN order = 1..Len(order) /\ Len(order) \in Nat
    BY <1>2, LenProperties
  <1>4. DOMAIN order = 1..Cardinality(Registered) /\ Cardinality(Registered) \in Nat
    BY <1>1, RegisteredFinite
  <1>5. order \in Seq(Registered)
    BY <1>1, <1>4, SeqDef
  <1>6. Range(order) \subseteq Registered
    BY <1>1 DEF Range
  <1>7. IsFiniteSet(Range(order))
    BY <1>6, RegisteredFinite, FS_Subset
  <1> QED BY <1>1, <1>3, <1>5, <1>6, <1>7 DEF IsInjective

\* The frozen definitions share no NodeId.
LEMMA FrozenDefinitionsDistinct ==
  ASSUME RegistryInv, frozen
  PROVE  FrozenDefinitions \in Seq(Definitions) /\ DistinctIds(FrozenDefinitions)
  <1>1. \A n \in Registered : /\ providers[n].types \in Seq(Definitions)
                              /\ DistinctIds(providers[n].types)
    BY RegisteredHasProvider DEF RegistryInv, NodeIdsInv
  <1>2. \A m, n \in Registered :
          m # n => NodeIds(providers[m].types) \cap NodeIds(providers[n].types) = {}
    BY DEF RegistryInv, NodeIdsInv
  <1> QED BY <1>1, <1>2, FrozenOrder,
      DefinitionsAreDistinct DEF FrozenDefinitions

\* A set turned into a sequence keeps all its elements.
LEMMA SetToSeqIsOnto ==
  ASSUME NEW S, IsFiniteSet(S)
  PROVE  /\ SetToSeq(S) \in [1..Cardinality(S) -> S] /\ Cardinality(S) \in Nat
         /\ \A x \in S : \E i \in 1..Cardinality(S) : SetToSeq(S)[i] = x
  <1> DEFINE C == Cardinality(S)
             f == SetToSeq(S)
  <1>1. C \in Nat /\ ExistsBijection(1..C, S)
    BY FS_CardinalityType
  <1>2. \E g \in [1..C -> S] : IsInjective(g)
    BY <1>1 DEF ExistsBijection, Bijection, Injection
  <1>3. f \in [1..C -> S] /\ IsInjective(f)
    BY <1>2 DEF SetToSeq
  <1> HIDE DEF f
  <1>4. f \in Injection(1..C, S)
    BY <1>3 DEF Injection
  <1>5. f \in Surjection(1..C, S)
    BY <1>1, <1>4, IntervalSize, FS_Injection
  <1> QED BY <1>1, <1>3, <1>5 DEF Surjection, f

\* The table that a server makes has the namespace of every frozen provider.
LEMMA ServerTableIsComplete ==
  ASSUME RegistryInv, frozen, NEW added, NEW t,
         added = SetToSeq({providers[n].uri : n \in Range(order)} \ Uris(OwnTable)),
         t = OwnTable \o [i \in DOMAIN added |-> <<added[i], Len(OwnTable) + i - 1>>]
  PROVE  t \in Seq(Namespaces) /\ \A n \in Range(order) : providers[n].uri \in Uris(t)
  <1> DEFINE A == {providers[n].uri : n \in Range(order)}
             U == A \ Uris(OwnTable)
             C == Cardinality(U)
             g == [i \in DOMAIN added |-> <<added[i], Len(OwnTable) + i - 1>>]
  <1>1. IsFiniteSet(A)
    <2> DEFINE h == [n \in Range(order) |-> providers[n].uri]
    <2>1. h \in Surjection(Range(order), A)
      BY DEF Surjection
    <2> HIDE DEF h, A
    <2> QED BY <2>1, FrozenOrder, FS_Surjection
  <1>2. A \subseteq STRING
    BY FrozenOrder, RegisteredHasProvider DEF RegistryInv
  <1> HIDE DEF A
  <1>3. IsFiniteSet(U) /\ U \subseteq STRING
    BY <1>1, <1>2, FS_Subset
  <1>4. added = SetToSeq(U)
    BY DEF A
  <1> HIDE DEF U
  <1>5. /\ added \in [1..C -> U] /\ C \in Nat
        /\ \A x \in U : \E i \in 1..C : added[i] = x
    BY <1>3, <1>4, SetToSeqIsOnto
  <1> HIDE DEF C
  <1>6. OwnTable \in Seq(Namespaces) /\ Len(OwnTable) \in Nat
    BY DataTypeRegistryAssumption, LenProperties
  <1>7. ASSUME NEW i \in 1..C PROVE g[i] \in Namespaces /\ g[i][1] = added[i]
    <2>1. g[i] = <<added[i], Len(OwnTable) + i - 1>>
      BY <1>5, <1>7
    <2>2. added[i] \in STRING
      BY <1>3, <1>5, <1>7
    <2>3. Len(OwnTable) + i - 1 \in Nat
      BY <1>5, <1>6, <1>7
    <2> HIDE DEF g
    <2> QED BY <2>1, <2>2, <2>3 DEF Namespaces
  <1>8. DOMAIN g = 1..C
    BY <1>5
  <1>a. g = [i \in 1..C |-> <<added[i], Len(OwnTable) + i - 1>>]
    BY <1>5
  <1>b. t = OwnTable \o g
    OBVIOUS
  <1> HIDE DEF g
  <1>9. g \in Seq(Namespaces) /\ Len(g) = C
    <2>1. g \in [1..C -> Namespaces]
      BY <1>a, <1>7, <1>8
    <2>2. g \in Seq(Namespaces)
      BY <2>1, <1>5, SeqDef
    <2>3. DOMAIN g = 1..Len(g) /\ Len(g) \in Nat
      BY <2>2, LenProperties
    <2>4. Cardinality(1..Len(g)) = Len(g) /\ Cardinality(1..C) = C
      BY <2>3, <1>5, IntervalSize
    <2> QED BY <2>2, <2>3, <2>4, <1>8
  <1>10. /\ t \in Seq(Namespaces) /\ Len(t) = Len(OwnTable) + C
         /\ \A i \in 1..(Len(OwnTable) + C) :
              t[i] = IF i <= Len(OwnTable) THEN OwnTable[i] ELSE g[i - Len(OwnTable)]
    <2>1. /\ OwnTable \o g \in Seq(Namespaces)
          /\ Len(OwnTable \o g) = Len(OwnTable) + Len(g)
          /\ \A i \in 1..(Len(OwnTable) + Len(g)) : (OwnTable \o g)[i] =
               IF i <= Len(OwnTable) THEN OwnTable[i] ELSE g[i - Len(OwnTable)]
      BY <1>6, <1>9, ConcatProperties
    <2>2. Len(g) = C
      BY <1>9
    <2> QED BY <2>1, <2>2, <1>b
  <1>11. DOMAIN t = 1..(Len(OwnTable) + C) /\ DOMAIN OwnTable = 1..Len(OwnTable)
    BY <1>6, <1>10, LenProperties
  <1>12. ASSUME NEW x \in A PROVE x \in Uris(t)
    <2>1. CASE x \in Uris(OwnTable)
      <3>1. PICK i \in 1..Len(OwnTable) : x = OwnTable[i][1]
        BY <2>1, <1>11 DEF Uris
      <3>2. i \in DOMAIN t /\ t[i] = OwnTable[i]
        BY <1>5, <1>6, <1>10, <1>11
      <3> QED BY <3>1, <3>2 DEF Uris
    <2>2. CASE x \notin Uris(OwnTable)
      <3>1. x \in U
        BY <2>2, <1>12 DEF U
      <3>2. PICK i \in 1..C : added[i] = x
        BY <3>1, <1>5
      <3> DEFINE k == Len(OwnTable) + i
      <3>3. k \in 1..(Len(OwnTable) + C) /\ ~(k <= Len(OwnTable)) /\ k - Len(OwnTable) = i
        BY <1>5, <1>6
      <3> HIDE DEF k
      <3>4. k \in DOMAIN t /\ t[k] = g[i]
        BY <3>3, <1>10, <1>11
      <3>5. t[k][1] = x
        BY <3>2, <3>4, <1>7
      <3> QED BY <3>4, <3>5 DEF Uris
    <2> QED BY <2>1, <2>2
  <1>13. \A n \in Range(order) : providers[n].uri \in A
    BY DEF A
  <1> QED BY <1>10, <1>12, <1>13

\* Which orders are topological is a matter of the registered providers.
LEMMA OrdersKept ==
  ASSUME providers' = providers
  PROVE  TopologicalOrders' = TopologicalOrders /\ Registered' = Registered
  <1>1. Registered' = Registered
    BY DEF Registered
  <1>2. \A n : Dependencies(n)' = Dependencies(n)
    BY DEF Dependencies
  <1> QED BY <1>1, <1>2 DEF TopologicalOrders

\* Freezing finds the order, or leaves the registry as it was.
LEMMA FreezeStep ==
  ASSUME RegistryInv, FreezeEffect
  PROVE  /\ providers' = providers /\ RegistryKept
         /\ order' \in Seq(Names) /\ frozen' \in BOOLEAN
         /\ FreezeSucceeds => frozen'
         /\ OrderInv'
  <1>1. order \in Seq(Names) /\ frozen \in BOOLEAN
    BY DEF RegistryInv, TypeOK
  <1>2. CASE frozen \/ ~CanFreeze
    <2>1. providers' = providers /\ order' = order /\ frozen' = frozen
      BY <1>2 DEF FreezeEffect, registryVars
    <2>2. TopologicalOrders' = TopologicalOrders
      BY <2>1, OrdersKept
    <2>3. OrderInv'
      BY <2>1, <2>2 DEF RegistryInv, OrderInv
    <2> QED BY <1>1, <1>2, <2>1, <2>3 DEF RegistryKept, FreezeSucceeds
  <1>3. CASE ~frozen /\ CanFreeze
    <2>1. providers' = providers /\ order' = ProviderOrder /\ frozen' = TRUE
      BY <1>3 DEF FreezeEffect
    <2>2. TopologicalOrders' = TopologicalOrders
      BY <2>1, OrdersKept
    <2>3. OrderInv'
      BY <1>3, <2>1, <2>2, ProviderOrderIsLeast DEF OrderInv
    <2>4. ProviderOrder \in Seq(Names)
      <3>1. ProviderOrder \in Seq(Registered)
        BY ProviderOrderIsGreedy DEF Greedy
      <3>2. Registered \subseteq Names
        BY DEF Registered
      <3> QED BY <3>1, <3>2, SeqMonotonic
    <2> QED BY <1>3, <2>1, <2>3, <2>4 DEF RegistryKept
  <1> QED BY <1>2, <1>3

\* An endpoint that a step leaves alone stays in order: before the registry is
\* frozen it has bound nothing, and afterwards the registry does not change.
LEMMA UntouchedEndpoint ==
  ASSUME RegistryInv, RegistryKept, NEW e \in Endpoints, EndpointKept(e)
  PROVE  EndpointOk(e)'
  <1>1. EndpointOk(e)
    BY DEF RegistryInv, EndpointInv
  <1>2. CASE frozen
    <2>1. frozen' /\ providers' = providers /\ order' = order
      BY <1>2 DEF RegistryKept
    <2>2. FrozenDefinitions' = FrozenDefinitions
      BY <2>1 DEF FrozenDefinitions
    <2>3. KnowsFrozen(e)'
      BY <2>1 DEF KnowsFrozen
    <2>4. HasNamespaces(e)'
      BY <1>1, <2>1 DEF EndpointOk, HasNamespaces, EndpointKept
    <2>5. HasDefinitions(e)'
      BY <1>1, <2>2 DEF EndpointOk, HasDefinitions, EndpointKept
    <2>6. HasNodes(e)'
      BY <1>1 DEF EndpointOk, HasNodes, EndpointKept
    <2> QED BY <2>3, <2>4, <2>5, <2>6 DEF EndpointOk
  <1>3. CASE ~frozen
    <2>1. /\ pc[e] \notin {"namespaces", "copy", "bind", "publish", "bound"}
          /\ e \in Servers => pc[e] # "create"
      BY <1>1, <1>3 DEF EndpointOk, KnowsFrozen
    <2>2. pc[e] \in {"idle", "namespaces", "create", "copy", "bind", "publish", "bound"}
      BY DEF RegistryInv, TypeOK
    <2>3. pc'[e] \in {"idle", "create"} /\ (e \in Servers => pc'[e] = "idle")
      BY <2>1, <2>2 DEF EndpointKept
    <2>4. custom'[e] = <<>> /\ nodes'[e] = {}
      BY <1>1, <2>3 DEF EndpointOk, HasDefinitions, HasNodes, EndpointKept
    <2> QED BY <2>3, <2>4 DEF EndpointOk, KnowsFrozen, HasNamespaces,
        HasDefinitions,
                             HasNodes
  <1> QED BY <1>2, <1>3

\* The definitions stay distinct as long as no provider is added.
LEMMA NodeIdsKept ==
  ASSUME NodeIdsInv, providers' = providers
  PROVE  NodeIdsInv'
  <1>1. Registered' = Registered
    BY OrdersKept
  <1> QED BY <1>1 DEF NodeIdsInv

\* A step of one endpoint, which may freeze the registry on its way.
LEMMA OneEndpointMoves ==
  ASSUME RegistryInv, NEW e \in Endpoints, providers' = providers, RegistryKept,
         OrderInv', TypeOK', EndpointOk(e)',
         \A f \in Endpoints : f # e => EndpointKept(f)
  PROVE  RegistryInv'
  <1>1. NodeIdsInv'
    BY NodeIdsKept DEF RegistryInv
  <1>2. \A f \in Endpoints : f # e => EndpointOk(f)'
    BY UntouchedEndpoint
  <1>3. EndpointInv'
    BY <1>2 DEF EndpointInv, Endpoints
  <1> QED BY <1>1, <1>3 DEF RegistryInv

\* An order that does not change stays the least one.
LEMMA RegistryUnchanged ==
  ASSUME RegistryInv, UNCHANGED registryVars
  PROVE  /\ providers' = providers /\ order' = order /\ frozen' = frozen
         /\ RegistryKept /\ OrderInv' /\ FrozenDefinitions' = FrozenDefinitions
         /\ order' \in Seq(Names) /\ frozen' \in BOOLEAN
  <1>1. providers' = providers /\ order' = order /\ frozen' = frozen
    BY DEF registryVars
  <1>2. TopologicalOrders' = TopologicalOrders
    BY <1>1, OrdersKept
  <1>3. OrderInv'
    BY <1>1, <1>2 DEF RegistryInv, OrderInv
  <1>4. FrozenDefinitions' = FrozenDefinitions
    BY <1>1 DEF FrozenDefinitions
  <1>5. order \in Seq(Names) /\ frozen \in BOOLEAN
    BY DEF RegistryInv, TypeOK
  <1> QED BY <1>1, <1>3, <1>4, <1>5 DEF RegistryKept

\* The types of all variables follow from those of the parts that change.
LEMMA TypesOfStep ==
  ASSUME RegistryInv, providers' = providers,
         order' \in Seq(Names), frozen' \in BOOLEAN, types' \subseteq Protocols,
         pc' \in [Endpoints -> {"idle", "namespaces", "create", "copy", "bind",
                                "publish", "bound"}],
         table' \in [Endpoints -> Seq(Namespaces)],
         todo' \in [Endpoints -> Seq(Definitions)],
         custom' \in [Endpoints -> Seq(Definitions)],
         nodes' \in [Endpoints -> SUBSET ({TypeId(d) : d \in Definitions} \cup
                                          {EncodingId(d) : d \in Definitions})],
         binds' \in 0..MaxBinds
  PROVE  TypeOK'
  <1>1. Registered' = Registered
    BY OrdersKept
  <1>2. /\ providers \in [Names -> Catalogue \cup {NoProvider}]
        /\ \A n \in Registered : providers[n].name = n
    BY DEF RegistryInv, TypeOK
  <1> QED BY <1>1, <1>2 DEF TypeOK

\* At the start nothing is registered and nothing is bound.
LEMMA RegistryInvInit == Init => RegistryInv
  <1> SUFFICES ASSUME Init PROVE RegistryInv
    OBVIOUS
  <1>1. Registered = {}
    BY DEF Init, Registered
  <1>2. TypeOK
    <2>1. /\ order \in Seq(Names) /\ <<>> \in Seq(Definitions)
          /\ OwnTable \in Seq(Namespaces)
      BY EmptySeq, DataTypeRegistryAssumption DEF Init
    <2>2. binds \in 0..MaxBinds
      BY DataTypeRegistryAssumption DEF Init
    <2>3. /\ providers \in [Names -> Catalogue \cup {NoProvider}]
          /\ frozen \in BOOLEAN /\ types \subseteq Protocols
          /\ pc \in [Endpoints -> {"idle", "namespaces", "create", "copy", "bind",
                                   "publish", "bound"}]
      BY DEF Init
    <2>4. /\ table \in [Endpoints -> Seq(Namespaces)]
          /\ todo \in [Endpoints -> Seq(Definitions)]
          /\ custom \in [Endpoints -> Seq(Definitions)]
          /\ nodes \in [Endpoints -> SUBSET ({TypeId(d) : d \in Definitions} \cup
                                             {EncodingId(d) : d \in Definitions})]
      BY <2>1 DEF Init
    <2> QED BY <1>1, <2>1, <2>2, <2>3, <2>4 DEF TypeOK
  <1>3. NodeIdsInv
    BY <1>1 DEF NodeIdsInv
  <1>4. OrderInv
    BY DEF Init, OrderInv
  <1>5. ASSUME NEW e \in Endpoints PROVE EndpointOk(e)
    <2>1. pc[e] = "idle" /\ custom[e] = <<>> /\ nodes[e] = {}
      BY DEF Init
    <2> QED BY <2>1 DEF EndpointOk, KnowsFrozen, HasNamespaces,
        HasDefinitions, HasNodes
  <1> QED BY <1>2, <1>3, <1>4, <1>5 DEF RegistryInv, EndpointInv

\* A provider that is registered brings NodeIds that nobody has.
LEMMA RegisterStep ==
  ASSUME RegistryInv, NEW p \in Catalogue, Register(p)
  PROVE  RegistryInv'
  <1>1. /\ ~frozen /\ frozen' = frozen /\ order' = order /\ types' = types
        /\ providers' = [providers EXCEPT ![p.name] = p]
        /\ NewNodeIds(p) /\ p.name \in Names /\ p # NoProvider
        /\ providers[p.name] = NoProvider
    BY DataTypeRegistryAssumption DEF Register, Valid, Names
  <1>2. /\ pc' = pc /\ table' = table /\ todo' = todo /\ custom' = custom
        /\ nodes' = nodes /\ binds' = binds
    BY DEF Register, endpointVars
  <1>3. providers \in [Names -> Catalogue \cup {NoProvider}]
    BY DEF RegistryInv, TypeOK
  <1>4. /\ providers' \in [Names -> Catalogue \cup {NoProvider}]
        /\ providers'[p.name] = p
        /\ \A n \in Names : n # p.name => providers'[n] = providers[n]
    BY <1>1, <1>3
  <1>5. Registered' = Registered \cup {p.name} /\ p.name \notin Registered
    BY <1>1, <1>4 DEF Registered
  <1>6. Registered \subseteq Names
    BY DEF Registered
  <1>7. \A n \in Registered : providers'[n] = providers[n]
    BY <1>4, <1>5, <1>6
  <1>8. TypeOK'
    <2>1. \A n \in Registered' : providers'[n].name = n
      BY <1>4, <1>5, <1>7 DEF RegistryInv, TypeOK
    <2> QED BY <1>1, <1>2, <1>4, <2>1 DEF RegistryInv, TypeOK
  <1>9. NodeIdsInv'
    <2>1. p.types \in Seq(Definitions)
      BY DataTypeRegistryAssumption DEF IsProvider
    <2>2. DistinctIds(p.types)
      BY <1>1, <2>1, CountedIdsAreDistinct DEF NewNodeIds
    <2>3. \A n \in Registered : NodeIds(providers[n].types) \cap NodeIds(p.types) = {}
      BY <1>1 DEF NewNodeIds, Occupied
    <2>4. \A n \in Registered' : DistinctIds(providers'[n].types)
      BY <1>4, <1>5, <1>7, <2>2 DEF RegistryInv, NodeIdsInv
    <2>5. ASSUME NEW m \in Registered', NEW n \in Registered', m # n
          PROVE  NodeIds(providers'[m].types) \cap NodeIds(providers'[n].types) = {}
      <3>1. CASE m = p.name
        BY <3>1, <2>3, <2>5, <1>4, <1>5, <1>7
      <3>2. CASE n = p.name
        BY <3>2, <2>3, <2>5, <1>4, <1>5, <1>7
      <3>3. CASE m # p.name /\ n # p.name
        BY <3>3, <2>5, <1>5, <1>7 DEF RegistryInv, NodeIdsInv
      <3> QED BY <3>1, <3>2, <3>3
    <2> QED BY <2>4, <2>5 DEF NodeIdsInv
  <1>10. OrderInv'
    BY <1>1 DEF OrderInv
  <1>11. EndpointInv'
    <2>1. RegistryKept /\ \A e \in Endpoints : EndpointKept(e)
      BY <1>1, <1>2 DEF RegistryKept, EndpointKept
    <2> QED BY <2>1, UntouchedEndpoint DEF EndpointInv, Endpoints
  <1> QED BY <1>8, <1>9, <1>10, <1>11 DEF RegistryInv

\* A server that asks for the providers goes on only if they are frozen then.
LEMMA ServerBeginStep ==
  ASSUME RegistryInv, NEW e \in Endpoints, ServerBegin(e)
  PROVE  RegistryInv'
  <1> DEFINE place == IF FreezeSucceeds THEN "namespaces" ELSE "idle"
  <1>1. /\ providers' = providers /\ RegistryKept /\ order' \in Seq(Names)
        /\ frozen' \in BOOLEAN /\ (FreezeSucceeds => frozen') /\ OrderInv'
    BY FreezeStep DEF ServerBegin
  <1>2. /\ pc' = [pc EXCEPT ![e] = place] /\ binds' = binds + 1 /\ binds < MaxBinds
        /\ types' = types /\ table' = table /\ todo' = todo /\ custom' = custom
        /\ nodes' = nodes /\ pc[e] = "idle"
    BY DEF ServerBegin, Goto
  <1>3. place \in {"namespaces", "idle"} /\ (place = "namespaces" => FreezeSucceeds)
    OBVIOUS
  <1> HIDE DEF place
  <1>4. TypeOK'
    <2>1. pc' \in [Endpoints -> {"idle", "namespaces", "create", "copy", "bind",
                                 "publish", "bound"}]
      BY <1>2, <1>3 DEF RegistryInv, TypeOK
    <2>2. binds' \in 0..MaxBinds
      BY <1>2, DataTypeRegistryAssumption DEF RegistryInv, TypeOK
    <2> QED BY <1>1, <1>2, <2>1, <2>2, TypesOfStep DEF RegistryInv, TypeOK
  <1>5. \A f \in Endpoints : f # e => EndpointKept(f)
    BY <1>2 DEF RegistryInv, TypeOK, EndpointKept
  <1>6. EndpointOk(e)'
    <2>1. pc'[e] = place
      BY <1>2 DEF RegistryInv, TypeOK
    <2>2. custom'[e] = <<>> /\ nodes'[e] = {}
      BY <1>2 DEF RegistryInv, EndpointInv, EndpointOk, HasDefinitions,
          HasNodes
    <2> QED BY <1>1, <1>3, <2>1, <2>2 DEF EndpointOk, KnowsFrozen,
        HasNamespaces,
                                          HasDefinitions, HasNodes
  <1> QED BY <1>1, <1>4, <1>5, <1>6, OneEndpointMoves

\* A server that registers the namespaces has them all in its table.
LEMMA ServerNamespacesStep ==
  ASSUME RegistryInv, NEW e \in Endpoints, ServerNamespaces(e)
  PROVE  RegistryInv'
  <1> DEFINE added == SetToSeq({providers[n].uri : n \in Range(order)} \ Uris(OwnTable))
             t == OwnTable \o [i \in DOMAIN added |-> <<added[i], Len(OwnTable) + i - 1>>]
  <1>1. UNCHANGED registryVars
    BY DEF ServerNamespaces
  <1>2. /\ pc' = [pc EXCEPT ![e] = "create"] /\ table' = [table EXCEPT ![e] = t]
        /\ types' = types /\ binds' = binds /\ todo' = todo /\ custom' = custom
        /\ nodes' = nodes /\ pc[e] = "namespaces"
    BY DEF ServerNamespaces, Goto
  <1>3. EndpointOk(e)
    BY DEF RegistryInv, EndpointInv
  <1>4. frozen
    BY <1>2, <1>3 DEF EndpointOk, KnowsFrozen
  <1>5. t \in Seq(Namespaces) /\ \A n \in Range(order) : providers[n].uri \in Uris(t)
    BY <1>4, ServerTableIsComplete
  <1> HIDE DEF t
  <1>6. TypeOK'
    <2>1. pc' \in [Endpoints -> {"idle", "namespaces", "create", "copy", "bind",
                                 "publish", "bound"}]
      BY <1>2 DEF RegistryInv, TypeOK
    <2>2. table' \in [Endpoints -> Seq(Namespaces)]
      BY <1>2, <1>5 DEF RegistryInv, TypeOK
    <2> QED BY <1>1, <1>2, <2>1, <2>2, TypesOfStep, RegistryUnchanged
            DEF RegistryInv, TypeOK
  <1>7. \A f \in Endpoints : f # e => EndpointKept(f)
    BY <1>2 DEF RegistryInv, TypeOK, EndpointKept
  <1>8. EndpointOk(e)'
    <2>1. pc'[e] = "create" /\ table'[e] = t
      BY <1>2 DEF RegistryInv, TypeOK
    <2>2. custom'[e] = <<>> /\ nodes'[e] = {}
      BY <1>2, <1>3 DEF EndpointOk, HasDefinitions, HasNodes
    <2>3. HasNamespaces(e)'
      BY <1>1, <1>5, <2>1, RegistryUnchanged DEF HasNamespaces
    <2>4. frozen'
      BY <1>1, <1>4, RegistryUnchanged
    <2> QED BY <2>1, <2>2, <2>3, <2>4 DEF EndpointOk, KnowsFrozen,
        HasDefinitions, HasNodes
  <1> QED BY <1>1, <1>6, <1>7, <1>8, RegistryUnchanged, OneEndpointMoves

\* A client reads its table before it asks for the providers.
LEMMA ClientBeginStep ==
  ASSUME RegistryInv, NEW e \in Endpoints, ClientBegin(e)
  PROVE  RegistryInv'
  <1>1. UNCHANGED registryVars /\ e \notin Servers
    BY DataTypeRegistryAssumption DEF ClientBegin
  <1>2. PICK t \in Tables : table' = [table EXCEPT ![e] = t]
    BY DEF ClientBegin
  <1>3. /\ pc' = [pc EXCEPT ![e] = "create"] /\ binds' = binds + 1 /\ binds < MaxBinds
        /\ types' = types /\ todo' = todo /\ custom' = custom
        /\ nodes' = nodes /\ pc[e] = "idle"
    BY DEF ClientBegin, Goto
  <1>4. TypeOK'
    <2>1. pc' \in [Endpoints -> {"idle", "namespaces", "create", "copy", "bind",
                                 "publish", "bound"}]
      BY <1>3 DEF RegistryInv, TypeOK
    <2>2. table' \in [Endpoints -> Seq(Namespaces)]
      BY <1>2, DataTypeRegistryAssumption DEF RegistryInv, TypeOK
    <2>3. binds' \in 0..MaxBinds
      BY <1>3, DataTypeRegistryAssumption DEF RegistryInv, TypeOK
    <2> QED BY <1>1, <1>3, <2>1, <2>2, <2>3, TypesOfStep, RegistryUnchanged
            DEF RegistryInv, TypeOK
  <1>5. \A f \in Endpoints : f # e => EndpointKept(f)
    BY <1>2, <1>3 DEF RegistryInv, TypeOK, EndpointKept
  <1>6. EndpointOk(e)'
    <2>1. pc'[e] = "create"
      BY <1>3 DEF RegistryInv, TypeOK
    <2>2. custom'[e] = <<>> /\ nodes'[e] = {}
      BY <1>3 DEF RegistryInv, EndpointInv, EndpointOk, HasDefinitions,
          HasNodes
    <2> QED BY <1>1, <2>1, <2>2 DEF EndpointOk, KnowsFrozen, HasNamespaces,
                                    HasDefinitions, HasNodes
  <1> QED BY <1>1, <1>4, <1>5, <1>6, RegistryUnchanged, OneEndpointMoves

\* create() goes on to copy the providers only if they are frozen then; what a
\* server has found in its table has not changed.
LEMMA CreateBeginStep ==
  ASSUME RegistryInv, NEW e \in Endpoints, CreateBegin(e)
  PROVE  RegistryInv'
  <1>1. \/ FreezeEffect /\ pc' = [pc EXCEPT ![e] = IF FreezeSucceeds THEN "copy" ELSE "idle"]
        \/ UNCHANGED registryVars /\ pc' = [pc EXCEPT ![e] = "idle"]
    BY DEF CreateBegin, Goto
  <1>2. /\ types' = types /\ table' = table /\ todo' = todo /\ custom' = custom
        /\ nodes' = nodes /\ binds' = binds /\ pc[e] = "create"
    BY DEF CreateBegin
  <1>3. PICK place \in {"copy", "idle"} :
          /\ pc' = [pc EXCEPT ![e] = place]
          /\ place = "copy" => FreezeEffect /\ FreezeSucceeds
    BY <1>1
  <1>4. /\ providers' = providers /\ RegistryKept /\ order' \in Seq(Names)
        /\ frozen' \in BOOLEAN /\ OrderInv'
    BY <1>1, FreezeStep, RegistryUnchanged
  <1>5. place = "copy" => frozen'
    BY <1>3, FreezeStep
  <1>6. TypeOK'
    <2>1. pc' \in [Endpoints -> {"idle", "namespaces", "create", "copy", "bind",
                                 "publish", "bound"}]
      BY <1>3 DEF RegistryInv, TypeOK
    <2> QED BY <1>2, <1>4, <2>1, TypesOfStep DEF RegistryInv, TypeOK
  <1>7. \A f \in Endpoints : f # e => EndpointKept(f)
    BY <1>2, <1>3 DEF RegistryInv, TypeOK, EndpointKept
  <1>8. EndpointOk(e)'
    <2>1. pc'[e] = place
      BY <1>3 DEF RegistryInv, TypeOK
    <2>2. custom'[e] = <<>> /\ nodes'[e] = {}
      BY <1>2 DEF RegistryInv, EndpointInv, EndpointOk, HasDefinitions,
          HasNodes
    <2>3. HasNamespaces(e)'
      <3> SUFFICES ASSUME e \in Servers, NEW n \in Range(order'), place = "copy"
                   PROVE  providers'[n].uri \in Uris(table'[e])
        BY <2>1 DEF HasNamespaces
      <3>1. frozen
        BY <1>2 DEF RegistryInv, EndpointInv, EndpointOk, KnowsFrozen
      <3>2. order' = order
        BY <3>1, <1>4 DEF RegistryKept
      <3>3. \A m \in Range(order) : providers[m].uri \in Uris(table[e])
        BY <1>2 DEF RegistryInv, EndpointInv, EndpointOk, HasNamespaces
      <3> QED BY <3>2, <3>3, <1>2, <1>4
    <2> QED BY <1>5, <2>1, <2>2, <2>3 DEF EndpointOk, KnowsFrozen,
        HasDefinitions, HasNodes
  <1> QED BY <1>4, <1>6, <1>7, <1>8, OneEndpointMoves

\* The copy that an endpoint starts from is all of the frozen definitions.
LEMMA CreateCopyStep ==
  ASSUME RegistryInv, NEW e \in Endpoints, CreateCopy(e)
  PROVE  RegistryInv'
  <1>1. UNCHANGED registryVars
    BY DEF CreateCopy
  <1>2. /\ types' = types /\ table' = table /\ custom' = custom
        /\ nodes' = nodes /\ binds' = binds /\ pc[e] = "copy"
    BY DEF CreateCopy
  <1>3. \/ todo' = [todo EXCEPT ![e] = FrozenDefinitions] /\ pc' = [pc EXCEPT ![e] = "bind"]
        \/ todo' = todo /\ pc' = [pc EXCEPT ![e] = "idle"]
    BY DEF CreateCopy, Goto
  <1>4. EndpointOk(e)
    BY DEF RegistryInv, EndpointInv
  <1>5. frozen /\ custom[e] = <<>> /\ nodes[e] = {}
    BY <1>2, <1>4 DEF EndpointOk, KnowsFrozen, HasDefinitions, HasNodes
  <1>6. FrozenDefinitions \in Seq(Definitions)
    BY <1>5, FrozenDefinitionsDistinct
  <1>7. TypeOK'
    <2>1. pc' \in [Endpoints -> {"idle", "namespaces", "create", "copy", "bind",
                                 "publish", "bound"}]
      BY <1>3 DEF RegistryInv, TypeOK
    <2>2. todo' \in [Endpoints -> Seq(Definitions)]
      BY <1>3, <1>6 DEF RegistryInv, TypeOK
    <2> QED BY <1>1, <1>2, <2>1, <2>2, TypesOfStep, RegistryUnchanged
            DEF RegistryInv, TypeOK
  <1>8. \A f \in Endpoints : f # e => EndpointKept(f)
    BY <1>2, <1>3 DEF RegistryInv, TypeOK, EndpointKept
  <1>9. EndpointOk(e)'
    <2>1. \/ pc'[e] = "bind" /\ todo'[e] = FrozenDefinitions
          \/ pc'[e] = "idle"
      BY <1>3 DEF RegistryInv, TypeOK
    <2>2. custom'[e] = <<>> /\ nodes'[e] = {} /\ frozen'
      BY <1>1, <1>2, <1>5, RegistryUnchanged
    <2>3. <<>> \o FrozenDefinitions = FrozenDefinitions
      BY <1>6, ConcatEmptySeq
    <2>4. FrozenDefinitions' = FrozenDefinitions
      BY <1>1, RegistryUnchanged
    <2> QED BY <2>1, <2>2, <2>3, <2>4 DEF EndpointOk, KnowsFrozen,
        HasNamespaces,
                                          HasDefinitions, HasNodes
  <1> QED BY <1>1, <1>7, <1>8, <1>9, RegistryUnchanged, OneEndpointMoves

\* The first of the definitions to do may change from one sequence to the other.
LEMMA MoveHead ==
  ASSUME NEW S, NEW c \in Seq(S), NEW t \in Seq(S), t # <<>>
  PROVE  /\ Append(c, Head(t)) \in Seq(S) /\ Tail(t) \in Seq(S) /\ Head(t) \in S
         /\ Append(c, Head(t)) \o Tail(t) = c \o t
  <1>1. /\ Head(t) \in S /\ Tail(t) \in Seq(S) /\ Len(Tail(t)) = Len(t) - 1
        /\ \A i \in 1..Len(Tail(t)) : Tail(t)[i] = t[i + 1]
        /\ Len(t) \in Nat \ {0} /\ Len(c) \in Nat /\ Head(t) = t[1]
    BY HeadTailProperties, EmptySeq, LenProperties
  <1>2. /\ Append(c, Head(t)) \in Seq(S) /\ Len(Append(c, Head(t))) = Len(c) + 1
        /\ \A i \in 1..Len(c) : Append(c, Head(t))[i] = c[i]
        /\ Append(c, Head(t))[Len(c) + 1] = Head(t)
    BY <1>1, AppendProperties
  <1> DEFINE a == Append(c, Head(t))
             u == Tail(t)
             x == a \o u
             y == c \o t
  <1>3. /\ x \in Seq(S) /\ Len(x) = Len(a) + Len(u)
        /\ \A i \in 1..(Len(a) + Len(u)) : x[i] = IF i <= Len(a) THEN a[i] ELSE u[i - Len(a)]
    BY <1>1, <1>2, ConcatProperties
  <1>4. /\ y \in Seq(S) /\ Len(y) = Len(c) + Len(t)
        /\ \A i \in 1..(Len(c) + Len(t)) : y[i] = IF i <= Len(c) THEN c[i] ELSE t[i - Len(c)]
    BY ConcatProperties
  <1>5. Len(a) = Len(c) + 1 /\ Len(u) = Len(t) - 1 /\ Len(c) \in Nat /\ Len(t) \in Nat \ {0}
    BY <1>1, <1>2
  <1>6. /\ \A i \in 1..Len(c) : a[i] = c[i]
        /\ a[Len(c) + 1] = t[1]
        /\ \A i \in 1..(Len(t) - 1) : u[i] = t[i + 1]
    BY <1>1, <1>2
  <1> HIDE DEF a, u, x, y
  <1>7. Len(x) = Len(y)
    BY <1>3, <1>4, <1>5
  <1>8. ASSUME NEW i \in 1..Len(x) PROVE x[i] = y[i]
    <2>1. i \in Nat /\ 1 <= i /\ i <= Len(c) + Len(t)
      BY <1>8, <1>3, <1>5
    <2>2. /\ x[i] = IF i <= Len(c) + 1 THEN a[i] ELSE u[i - (Len(c) + 1)]
          /\ y[i] = IF i <= Len(c) THEN c[i] ELSE t[i - Len(c)]
      BY <2>1, <1>3, <1>4, <1>5
    <2>3. CASE i <= Len(c)
      BY <2>1, <2>2, <2>3, <1>5, <1>6
    <2>4. CASE i = Len(c) + 1
      <3>1. i - Len(c) = 1 /\ ~(i <= Len(c))
        BY <2>4, <1>5
      <3> QED BY <3>1, <2>2, <2>4, <1>5, <1>6
    <2>5. CASE i > Len(c) + 1
      <3> DEFINE k == i - (Len(c) + 1)
      <3>1. k \in 1..(Len(t) - 1) /\ k + 1 = i - Len(c) /\ ~(i <= Len(c)) /\ ~(i <= Len(c) + 1)
        BY <2>1, <2>5, <1>5
      <3> QED BY <3>1, <2>2, <1>6
    <2> QED BY <2>1, <2>3, <2>4, <2>5, <1>5
  <1>9. x = y
    BY <1>3, <1>4, <1>7, <1>8, SeqEqual
  <1> QED BY <1>1, <1>2, <1>9 DEF x, y, a, u

\* Materializing a definition moves it from the ones to do to the ones done.
LEMMA MaterializeStep ==
  ASSUME RegistryInv, NEW e \in Endpoints, Materialize(e)
  PROVE  RegistryInv'
  <1>1. UNCHANGED registryVars
    BY DEF Materialize
  <1>2. /\ custom' = [custom EXCEPT ![e] = Append(custom[e], Head(todo[e]))]
        /\ todo' = [todo EXCEPT ![e] = Tail(todo[e])]
        /\ types' = types /\ table' = table /\ pc' = pc
        /\ nodes' = nodes /\ binds' = binds /\ pc[e] = "bind" /\ todo[e] # <<>>
    BY DEF Materialize
  <1>3. EndpointOk(e)
    BY DEF RegistryInv, EndpointInv
  <1>4. /\ custom[e] \in Seq(Definitions) /\ todo[e] \in Seq(Definitions)
        /\ custom \in [Endpoints -> Seq(Definitions)]
        /\ todo \in [Endpoints -> Seq(Definitions)]
    BY DEF RegistryInv, TypeOK
  <1>5. /\ Append(custom[e], Head(todo[e])) \in Seq(Definitions)
        /\ Tail(todo[e]) \in Seq(Definitions)
        /\ Append(custom[e], Head(todo[e])) \o Tail(todo[e]) = custom[e] \o todo[e]
    BY <1>2, <1>4, MoveHead
  <1>6. TypeOK'
    <2>1. /\ custom' \in [Endpoints -> Seq(Definitions)]
          /\ todo' \in [Endpoints -> Seq(Definitions)]
      BY <1>2, <1>4, <1>5
    <2> QED BY <1>1, <1>2, <2>1, TypesOfStep,
        RegistryUnchanged DEF RegistryInv, TypeOK
  <1>7. \A f \in Endpoints : f # e => EndpointKept(f)
    BY <1>2, <1>4 DEF EndpointKept
  <1>8. EndpointOk(e)'
    <2>1. /\ custom'[e] = Append(custom[e], Head(todo[e])) /\ todo'[e] = Tail(todo[e])
          /\ pc'[e] = "bind" /\ nodes'[e] = nodes[e]
      BY <1>2, <1>4
    <2>2. FrozenDefinitions' = FrozenDefinitions /\ frozen' = frozen
      BY <1>1, RegistryUnchanged
    <2>3. frozen /\ custom[e] \o todo[e] = FrozenDefinitions /\ nodes[e] = {}
      BY <1>2, <1>3 DEF EndpointOk, KnowsFrozen, HasDefinitions, HasNodes
    <2>4. custom'[e] \o todo'[e] = FrozenDefinitions'
      BY <2>1, <2>2, <2>3, <1>5
    <2> QED BY <2>1, <2>2, <2>3, <2>4 DEF EndpointOk, KnowsFrozen,
        HasNamespaces,
                                          HasDefinitions, HasNodes
  <1> QED BY <1>1, <1>6, <1>7, <1>8, RegistryUnchanged, OneEndpointMoves

\* An endpoint that is dropped has nothing left.
LEMMA DropStep ==
  ASSUME RegistryInv, NEW e \in Endpoints, Drop(e)
  PROVE  RegistryInv'
  <1>1. UNCHANGED registryVars
    BY DEF Drop
  <1>2. /\ pc' = [pc EXCEPT ![e] = "idle"]
        /\ todo' = [todo EXCEPT ![e] = <<>>] /\ custom' = [custom EXCEPT ![e] = <<>>]
        /\ nodes' = [nodes EXCEPT ![e] = {}]
        /\ types' = types /\ table' = table /\ binds' = binds
    BY DEF Drop, Goto
  <1>3. TypeOK'
    <2>1. <<>> \in Seq(Definitions)
      BY EmptySeq
    <2>2. /\ pc' \in [Endpoints -> {"idle", "namespaces", "create", "copy", "bind",
                                    "publish", "bound"}]
          /\ todo' \in [Endpoints -> Seq(Definitions)]
          /\ custom' \in [Endpoints -> Seq(Definitions)]
      BY <1>2, <2>1 DEF RegistryInv, TypeOK
    <2>3. nodes' \in [Endpoints -> SUBSET ({TypeId(d) : d \in Definitions} \cup
                                           {EncodingId(d) : d \in Definitions})]
      BY <1>2 DEF RegistryInv, TypeOK
    <2> QED BY <1>1, <1>2, <2>2, <2>3, TypesOfStep, RegistryUnchanged
            DEF RegistryInv, TypeOK
  <1>4. \A f \in Endpoints : f # e => EndpointKept(f)
    BY <1>2 DEF RegistryInv, TypeOK, EndpointKept
  <1>5. EndpointOk(e)'
    <2>1. pc'[e] = "idle" /\ custom'[e] = <<>> /\ nodes'[e] = {}
      BY <1>2 DEF RegistryInv, TypeOK
    <2> QED BY <2>1 DEF EndpointOk, KnowsFrozen, HasNamespaces,
        HasDefinitions, HasNodes
  <1> QED BY <1>1, <1>3, <1>4, <1>5, RegistryUnchanged, OneEndpointMoves

\* When nothing is left to materialize, the endpoint has all definitions; a
\* server has published none of them yet.
LEMMA BindCodecsStep ==
  ASSUME RegistryInv, NEW e \in Endpoints, BindCodecs(e)
  PROVE  RegistryInv'
  <1>1. UNCHANGED registryVars
    BY DEF BindCodecs
  <1>2. /\ types' = types /\ table' = table /\ custom' = custom
        /\ nodes' = nodes /\ binds' = binds /\ pc[e] = "bind" /\ todo[e] = <<>>
    BY DEF BindCodecs
  <1>3. \/ pc' = [pc EXCEPT ![e] = "publish"] /\ todo' = [todo EXCEPT ![e] = custom[e]]
        \/ pc' = [pc EXCEPT ![e] = "bound"] /\ todo' = todo
    BY DEF BindCodecs, Goto
  <1>4. EndpointOk(e)
    BY DEF RegistryInv, EndpointInv
  <1>5. custom[e] \in Seq(Definitions) /\ Len(custom[e]) \in Nat
    BY LenProperties DEF RegistryInv, TypeOK
  <1>6. frozen /\ custom[e] = FrozenDefinitions /\ nodes[e] = {}
    <2>1. frozen /\ custom[e] \o todo[e] = FrozenDefinitions /\ nodes[e] = {}
      BY <1>2, <1>4 DEF EndpointOk, KnowsFrozen, HasDefinitions, HasNodes
    <2>2. custom[e] \o <<>> = custom[e]
      BY <1>5, ConcatEmptySeq
    <2> QED BY <1>2, <2>1, <2>2
  <1>7. TypeOK'
    <2>1. pc' \in [Endpoints -> {"idle", "namespaces", "create", "copy", "bind",
                                 "publish", "bound"}]
      BY <1>3 DEF RegistryInv, TypeOK
    <2>2. todo' \in [Endpoints -> Seq(Definitions)]
      BY <1>3, <1>5 DEF RegistryInv, TypeOK
    <2> QED BY <1>1, <1>2, <2>1, <2>2, TypesOfStep, RegistryUnchanged
            DEF RegistryInv, TypeOK
  <1>8. \A f \in Endpoints : f # e => EndpointKept(f)
    BY <1>2, <1>3 DEF RegistryInv, TypeOK, EndpointKept
  <1>9. EndpointOk(e)'
    <2>1. \/ pc'[e] = "publish" /\ todo'[e] = custom[e]
          \/ pc'[e] = "bound"
      BY <1>3 DEF RegistryInv, TypeOK
    <2>2. /\ custom'[e] = FrozenDefinitions' /\ custom'[e] = custom[e]
          /\ nodes'[e] = {} /\ frozen'
      BY <1>1, <1>2, <1>6, RegistryUnchanged
    <2>3. Published(custom[e], 0, custom[e], {}) /\ 0 \in 0..Len(custom[e])
      BY <1>5 DEF Published
    <2>4. HasNodes(e)'
      BY <2>1, <2>2, <2>3 DEF HasNodes
    <2> QED BY <2>1, <2>2, <2>4 DEF EndpointOk, KnowsFrozen, HasNamespaces,
        HasDefinitions
  <1> QED BY <1>1, <1>7, <1>8, <1>9, RegistryUnchanged, OneEndpointMoves

\* Publishing takes the next definition.
LEMMA PublishNodeStep ==
  ASSUME RegistryInv, NEW e \in Endpoints, PublishNode(e)
  PROVE  RegistryInv'
  <1> DEFINE d == Head(todo[e])
             Space == {TypeId(x) : x \in Definitions} \cup {EncodingId(x) : x \in Definitions}
  <1>1. UNCHANGED registryVars
    BY DEF PublishNode
  <1>2. /\ nodes' = [nodes EXCEPT ![e] = nodes[e] \cup Ids(d)]
        /\ todo' = [todo EXCEPT ![e] = Tail(todo[e])]
        /\ types' = types /\ table' = table /\ custom' = custom
        /\ pc' = pc /\ binds' = binds /\ pc[e] = "publish" /\ todo[e] # <<>>
    BY DEF PublishNode, Ids
  <1>3. EndpointOk(e)
    BY DEF RegistryInv, EndpointInv
  <1>4. /\ custom[e] \in Seq(Definitions) /\ todo[e] \in Seq(Definitions)
        /\ todo \in [Endpoints -> Seq(Definitions)]
        /\ nodes \in [Endpoints -> SUBSET Space]
        /\ Len(custom[e]) \in Nat /\ Len(todo[e]) \in Nat
    BY LenProperties DEF RegistryInv, TypeOK
  <1>5. /\ d \in Definitions /\ Tail(todo[e]) \in Seq(Definitions) /\ d = todo[e][1]
        /\ Len(Tail(todo[e])) = Len(todo[e]) - 1 /\ Len(todo[e]) # 0
        /\ \A i \in 1..Len(Tail(todo[e])) : Tail(todo[e])[i] = todo[e][i + 1]
    BY <1>2, <1>4, HeadTailProperties, EmptySeq
  <1> HIDE DEF d
  <1>6. TypeOK'
    <2>1. todo' \in [Endpoints -> Seq(Definitions)]
      BY <1>2, <1>4, <1>5
    <2>2. Ids(d) \subseteq Space
      BY <1>5 DEF Ids
    <2> HIDE DEF Space
    <2>3. nodes' \in [Endpoints -> SUBSET Space]
      BY <1>2, <1>4, <2>2
    <2> QED BY <1>1, <1>2, <2>1, <2>3, TypesOfStep, RegistryUnchanged
            DEF RegistryInv, TypeOK, Space
  <1>7. \A f \in Endpoints : f # e => EndpointKept(f)
    BY <1>2, <1>4 DEF EndpointKept
  <1>8. EndpointOk(e)'
    <2>1. /\ nodes'[e] = nodes[e] \cup Ids(d) /\ todo'[e] = Tail(todo[e])
          /\ pc'[e] = "publish" /\ custom'[e] = custom[e]
      BY <1>2, <1>4
    <2>2. FrozenDefinitions' = FrozenDefinitions /\ frozen' = frozen
      BY <1>1, RegistryUnchanged
    <2>3. frozen /\ custom[e] = FrozenDefinitions
      BY <1>2, <1>3 DEF EndpointOk, KnowsFrozen, HasDefinitions
    <2>4. PICK k \in 0..Len(custom[e]) : Published(custom[e], k, todo[e], nodes[e])
      BY <1>2, <1>3 DEF EndpointOk, HasNodes
    <2>5. /\ Len(todo[e]) = Len(custom[e]) - k
          /\ \A i \in 1..Len(todo[e]) : todo[e][i] = custom[e][k + i]
          /\ \A y \in nodes[e] : \E i \in 1..k : y \in Ids(custom[e][i])
      BY <2>4 DEF Published
    <2>6. k + 1 \in 0..Len(custom[e]) /\ Len(Tail(todo[e])) = Len(custom[e]) - (k + 1)
      BY <1>4, <1>5, <2>5
    <2>7. ASSUME NEW i \in 1..Len(Tail(todo[e]))
          PROVE  Tail(todo[e])[i] = custom[e][(k + 1) + i]
      <3>1. i + 1 \in 1..Len(todo[e]) /\ k + (i + 1) = (k + 1) + i
        BY <2>7, <1>4, <1>5
      <3> QED BY <3>1, <2>5, <1>5
    <2>8. ASSUME NEW y \in nodes[e] \cup Ids(d)
          PROVE  \E i \in 1..(k + 1) : y \in Ids(custom[e][i])
      <3>1. CASE y \in nodes[e]
        <4>1. PICK i \in 1..k : y \in Ids(custom[e][i])
          BY <3>1, <2>5
        <4>2. i \in 1..(k + 1)
          OBVIOUS
        <4> QED BY <4>1, <4>2
      <3>2. CASE y \in Ids(d)
        <4>1. 1 \in 1..Len(todo[e]) /\ k + 1 \in 1..(k + 1)
          BY <1>4, <1>5
        <4>2. d = custom[e][k + 1]
          BY <4>1, <2>5, <1>5
        <4> QED BY <3>2, <4>1, <4>2
      <3> QED BY <3>1, <3>2, <2>8
    <2>9. Published(custom[e], k + 1, Tail(todo[e]), nodes[e] \cup Ids(d))
      BY <2>6, <2>7, <2>8 DEF Published
    <2>10. HasNodes(e)'
      BY <2>1, <2>6, <2>9 DEF HasNodes
    <2> QED BY <2>1, <2>2, <2>3, <2>10 DEF EndpointOk, KnowsFrozen,
        HasNamespaces,
                                           HasDefinitions
  <1> QED BY <1>1, <1>6, <1>7, <1>8, RegistryUnchanged, OneEndpointMoves

\* A server that has published everything is bound.
LEMMA PublishDoneStep ==
  ASSUME RegistryInv, NEW e \in Endpoints, PublishDone(e)
  PROVE  RegistryInv'
  <1>1. UNCHANGED registryVars
    BY DEF PublishDone
  <1>2. /\ pc' = [pc EXCEPT ![e] = "bound"] /\ todo' = todo /\ nodes' = nodes
        /\ types' = types /\ table' = table /\ custom' = custom
        /\ binds' = binds /\ pc[e] = "publish"
    BY DEF PublishDone, Goto
  <1>3. EndpointOk(e)
    BY DEF RegistryInv, EndpointInv
  <1>4. TypeOK'
    <2>1. pc' \in [Endpoints -> {"idle", "namespaces", "create", "copy", "bind",
                                 "publish", "bound"}]
      BY <1>2 DEF RegistryInv, TypeOK
    <2> QED BY <1>1, <1>2, <2>1, TypesOfStep,
        RegistryUnchanged DEF RegistryInv, TypeOK
  <1>5. \A f \in Endpoints : f # e => EndpointKept(f)
    BY <1>2 DEF RegistryInv, TypeOK, EndpointKept
  <1>6. EndpointOk(e)'
    <2>1. pc'[e] = "bound"
      BY <1>2 DEF RegistryInv, TypeOK
    <2>2. frozen' /\ custom'[e] = FrozenDefinitions'
      BY <1>1, <1>2, <1>3, RegistryUnchanged DEF EndpointOk, KnowsFrozen,
          HasDefinitions
    <2> QED BY <2>1, <2>2 DEF EndpointOk, KnowsFrozen, HasNamespaces,
        HasDefinitions,
                              HasNodes
  <1> QED BY <1>1, <1>4, <1>5, <1>6, RegistryUnchanged, OneEndpointMoves

\* Every step of the process keeps the invariant.
LEMMA RegistryInvStep == RegistryInv /\ [Next]_vars => RegistryInv'
  <1> SUFFICES ASSUME RegistryInv, [Next]_vars PROVE RegistryInv'
    OBVIOUS
  <1>1. ASSUME UNCHANGED <<registryVars, endpointVars>>, types' \subseteq Protocols
        PROVE  RegistryInv'
    <2>1. UNCHANGED registryVars /\ UNCHANGED endpointVars
      BY <1>1
    <2>2. /\ pc' = pc /\ table' = table /\ todo' = todo /\ custom' = custom
          /\ nodes' = nodes /\ binds' = binds
      BY <2>1 DEF endpointVars
    <2>3. TypeOK'
      BY <1>1, <2>1, <2>2, TypesOfStep, RegistryUnchanged DEF RegistryInv,
          TypeOK
    <2>4. NodeIdsInv'
      BY <2>1, NodeIdsKept, RegistryUnchanged DEF RegistryInv
    <2>5. \A e \in Endpoints : EndpointKept(e)
      BY <2>2 DEF EndpointKept
    <2>6. EndpointInv'
      BY <2>1, <2>5, UntouchedEndpoint, RegistryUnchanged DEF EndpointInv,
          Endpoints
    <2> QED BY <2>1, <2>3, <2>4, <2>6, RegistryUnchanged DEF RegistryInv
  <1>2. types \subseteq Protocols
    BY DEF RegistryInv, TypeOK
  <1>3. ASSUME NEW p \in Catalogue, Register(p) PROVE RegistryInv'
    BY <1>3, RegisterStep
  <1>4. ASSUME NEW p \in Catalogue, RegisterNothing(p) PROVE RegistryInv'
    BY <1>1, <1>2, <1>4 DEF RegisterNothing, vars
  <1>5. CASE Freeze
    <2>1. /\ providers' = providers /\ RegistryKept /\ order' \in Seq(Names)
          /\ frozen' \in BOOLEAN /\ OrderInv'
      BY <1>5, FreezeStep DEF Freeze
    <2>2. /\ pc' = pc /\ table' = table /\ todo' = todo /\ custom' = custom
          /\ nodes' = nodes /\ binds' = binds /\ types' = types
      BY <1>5 DEF Freeze, endpointVars
    <2>3. TypeOK'
      BY <2>1, <2>2, TypesOfStep DEF RegistryInv, TypeOK
    <2>4. NodeIdsInv'
      BY <2>1, NodeIdsKept DEF RegistryInv
    <2>5. \A e \in Endpoints : EndpointKept(e)
      BY <2>2 DEF EndpointKept
    <2>6. EndpointInv'
      BY <2>1, <2>5, UntouchedEndpoint DEF EndpointInv, Endpoints
    <2> QED BY <2>1, <2>3, <2>4, <2>6 DEF RegistryInv
  <1>6. ASSUME NEW r \in Protocols, AddProtocol(r) PROVE RegistryInv'
    <2>1. types' \subseteq Protocols
      BY <1>2, <1>6 DEF AddProtocol
    <2>2. UNCHANGED <<registryVars, endpointVars>>
      BY <1>6 DEF AddProtocol
    <2> QED BY <1>1, <2>1, <2>2
  <1>7. ASSUME NEW e \in Endpoints, EndpointStep(e) PROVE RegistryInv'
    <2>1. CASE ServerBegin(e)
      BY <2>1, ServerBeginStep
    <2>2. CASE ServerNamespaces(e)
      BY <2>2, ServerNamespacesStep
    <2>3. CASE ClientBegin(e)
      BY <2>3, ClientBeginStep
    <2>4. CASE CreateBegin(e)
      BY <2>4, CreateBeginStep
    <2>5. CASE CreateCopy(e)
      BY <2>5, CreateCopyStep
    <2>6. CASE Materialize(e)
      BY <2>6, MaterializeStep
    <2>7. CASE Drop(e)
      BY <2>7, DropStep
    <2>8. CASE BindCodecs(e)
      BY <2>8, BindCodecsStep
    <2>9. CASE PublishNode(e)
      BY <2>9, PublishNodeStep
    <2>10. CASE PublishDone(e)
      BY <2>10, PublishDoneStep
    <2> QED
      BY <1>7, <2>1, <2>2, <2>3, <2>4, <2>5, <2>6, <2>7, <2>8, <2>9, <2>10
      DEF EndpointStep, MaterializeFails, BindCodecsFails, PublishFails, Close
  <1>8. CASE UNCHANGED vars
    BY <1>1, <1>2, <1>8 DEF vars
  <1> QED BY <1>3, <1>4, <1>5, <1>6, <1>7, <1>8 DEF Next

\* The invariant holds in every state of every behaviour.
LEMMA RegistryInvAlways == Spec => []RegistryInv
  BY RegistryInvInit, RegistryInvStep, PTL DEF Spec

-----------------------------------------------------------------------------
(* Theorems                                                                *)

\* Every variable keeps its type; that the table of a server is one rests on
\* the frozen order naming registered providers only.
THEOREM RegistryTypeCorrect == Spec => []TypeOK
  <1>1. RegistryInv => TypeOK
    BY DEF RegistryInv
  <1> QED BY <1>1, RegistryInvAlways, PTL

\* For every catalogue: freezing succeeds exactly if the registered providers
\* can be ordered, and stores the alphabetically least topological order.
THEOREM LeastOrder == Spec => []OrderIsLeastTopological
  <1>1. RegistryInv => OrderIsLeastTopological
    BY CanFreezeIffOrderable DEF RegistryInv, OrderInv, OrderIsLeastTopological
  <1> QED BY <1>1, RegistryInvAlways, PTL

\* All bound endpoints have the types of the frozen providers, in their order.
THEOREM SameTypesEverywhere == Spec => []EndpointsAgree
  <1>1. ASSUME RegistryInv PROVE EndpointsAgree
    <2>1. \A e \in Endpoints : pc[e] = "bound" => custom[e] = FrozenDefinitions
      BY <1>1 DEF RegistryInv, EndpointInv, EndpointOk, HasDefinitions
    <2> QED BY <2>1 DEF EndpointsAgree
  <1> QED BY <1>1, RegistryInvAlways, PTL

\* A server finds the namespace of every provider in its table when it takes
\* the providers the second time, and every NodeId it publishes is new.
THEOREM PublicationFindsNoCollision == Spec => []ServerCanPublish
  <1>1. ASSUME RegistryInv PROVE ServerCanPublish
    <2>1. \A e \in Servers : e \in Endpoints
      BY DEF Endpoints
    <2>2. ASSUME NEW e \in Servers, pc[e] = "copy"
          PROVE  \A n \in Range(order) : providers[n].uri \in Uris(table[e])
      BY <1>1, <2>1, <2>2 DEF RegistryInv, EndpointInv, EndpointOk,
          HasNamespaces
    <2>3. ASSUME NEW e \in Servers, pc[e] = "publish", todo[e] # <<>>
          PROVE  Ids(Head(todo[e])) \cap nodes[e] = {}
      <3>1. e \in Endpoints /\ EndpointOk(e)
        BY <1>1, <2>1 DEF RegistryInv, EndpointInv
      <3>2. frozen /\ custom[e] = FrozenDefinitions
        BY <3>1, <2>3 DEF EndpointOk, KnowsFrozen, HasDefinitions
      <3>3. DistinctIds(custom[e])
        BY <1>1, <3>2, FrozenDefinitionsDistinct
      <3>4. PICK k \in 0..Len(custom[e]) : Published(custom[e], k, todo[e], nodes[e])
        BY <3>1, <2>3 DEF EndpointOk, HasNodes
      <3>5. /\ Len(todo[e]) = Len(custom[e]) - k
            /\ \A i \in 1..Len(todo[e]) : todo[e][i] = custom[e][k + i]
            /\ \A y \in nodes[e] : \E i \in 1..k : y \in Ids(custom[e][i])
        BY <3>4 DEF Published
      <3>6. /\ custom[e] \in Seq(Definitions) /\ todo[e] \in Seq(Definitions)
            /\ Len(custom[e]) \in Nat /\ Len(todo[e]) \in Nat \ {0}
            /\ DOMAIN custom[e] = 1..Len(custom[e]) /\ Head(todo[e]) = todo[e][1]
        BY <1>1, <3>1, <2>3, LenProperties, EmptySeq DEF RegistryInv, TypeOK
      <3>7. 1 \in 1..Len(todo[e]) /\ k + 1 \in DOMAIN custom[e]
        BY <3>5, <3>6
      <3>8. Head(todo[e]) = custom[e][k + 1]
        BY <3>5, <3>6, <3>7
      <3>9. ASSUME NEW i \in 1..k PROVE i \in DOMAIN custom[e] /\ i # k + 1
        BY <3>6, <3>7, <3>9
      <3>10. \A i \in 1..k : Ids(custom[e][k + 1]) \cap Ids(custom[e][i]) = {}
        BY <3>3, <3>7, <3>9 DEF DistinctIds
      <3> QED BY <3>5, <3>8, <3>10
    <2> QED BY <2>2, <2>3 DEF ServerCanPublish, Ids
  <1> QED BY <1>1, RegistryInvAlways, PTL

\* A frozen registry stays frozen, with the same providers in the same order:
\* what one endpoint copies between two calls is what every other one copies.
THEOREM FrozenForGood == Spec => [][RegistryKept]_vars
  <1>1. RegistryInv /\ [Next]_vars => [RegistryKept]_vars
    <2> SUFFICES ASSUME RegistryInv, Next PROVE RegistryKept
      OBVIOUS
    <2>1. UNCHANGED registryVars => RegistryKept
      BY RegistryUnchanged
    <2>2. FreezeEffect => RegistryKept
      BY FreezeStep
    <2>3. ASSUME NEW p \in Catalogue, Register(p) \/ RegisterNothing(p) PROVE RegistryKept
      BY <2>1, <2>3 DEF Register, RegisterNothing, RegistryKept, vars
    <2>4. ASSUME NEW r \in Protocols, AddProtocol(r) PROVE RegistryKept
      BY <2>1, <2>4 DEF AddProtocol
    <2>5. ASSUME NEW e \in Endpoints, EndpointStep(e) PROVE RegistryKept
      BY <2>1, <2>2, <2>5
      DEF EndpointStep, ServerBegin, ServerNamespaces, ClientBegin,
          CreateBegin,
          CreateCopy, Materialize, MaterializeFails, BindCodecs, BindCodecsFails,
          PublishNode, PublishFails, PublishDone, Close, Drop
    <2> QED BY <2>2, <2>3, <2>4, <2>5 DEF Next, Freeze
  <1> QED BY <1>1, RegistryInvAlways, PTL DEF Spec

==============================================================================
