-------------------------- MODULE TextMergeProofs --------------------------
(***************************************************************************)
(* Proofs about TextMerge, for any number of replicas, any base text and   *)
(* any bounds.                                                             *)
(*                                                                         *)
(* The argument.  What an operation observes is causally closed, so        *)
(* observing is transitive and goes with the Lamport clock; hence the      *)
(* causal order of a replica's operations has each of them once, behind    *)
(* what it observed.  Fed in that order, an insert lands right behind an   *)
(* atom its author saw, and whoever saw into the middle of an insert has   *)
(* seen the insert.                                                        *)
(*                                                                         *)
(* That text, F, says where each edit belongs: an insert stands behind its *)
(* anchor, with only later-ranked text between; a delete has struck what   *)
(* its author saw.  In any other order that has each edit behind what it   *)
(* observed, the text so far is F without what is to come, and the next    *)
(* edit, which sees the same in both, goes where it stands in F.  When all *)
(* have come, the text is F.                                               *)
(***************************************************************************)
EXTENDS TextMerge, FiniteSetTheorems, SequenceTheorems, WellFoundedInduction, TLAPS

-----------------------------------------------------------------------------
(* Numbers and finite sets.                                                *)

\* Induction on the natural numbers, over a set.
LEMMA SetInduction ==
  ASSUME NEW T, 0 \in T, \A n \in Nat : n \in T => n + 1 \in T
  PROVE  \A n \in Nat : n \in T
<1> DEFINE Bad == {n \in Nat : n \notin T}
<1>1. SUFFICES ASSUME Bad # {} PROVE FALSE
  OBVIOUS
<1> DEFINE Less == {p \in Nat \X Nat : p[1] < p[2]}
<1>2. IsWellFoundedOn(Less, Nat)
  BY NatLessThanWellFounded DEF OpToRel
<1>3. PICK n \in Bad : \A m \in Bad : ~(<<m, n>> \in Less)
  BY <1>1, <1>2, WFMin
<1>4. n \in Nat /\ n \notin T
  BY <1>3
<1>5. n # 0 /\ n - 1 \in Nat /\ n - 1 < n /\ (n - 1) + 1 = n
  BY <1>4
<1>6. n - 1 \notin Bad
  BY <1>3, <1>4, <1>5
<1>7. QED
  BY <1>4, <1>5, <1>6

\* A finite set of numbers that is not empty has a greatest.
LEMMA MaxProps ==
  ASSUME NEW S \in SUBSET Nat, IsFiniteSet(S), S # {}
  PROVE  Max(S) \in S /\ \A y \in S : Max(S) >= y
<1> DEFINE From(m) == {y \in S : y >= m}
           Froms == {From(m) : m \in S}
<1>1. \A m \in S : From(m) \in SUBSET S
  OBVIOUS
<1>2. Froms \subseteq FiniteSubsetsOf(S)
  BY <1>1, FS_FiniteSubsetsOfFinite
<1>8. Froms # {}
  OBVIOUS
<1>3. PICK A \in Froms : \A B \in Froms : ~(<<B, A>> \in StrictSubsetOrdering(S))
  BY <1>2, <1>8, FS_StrictSubsetOrderingWellFounded, WFMin
<1>4. PICK m \in S : A = From(m)
  OBVIOUS
<1>5. ASSUME NEW s \in S, s > m PROVE FALSE
  <2>1. \A i \in S : i \in Nat
    OBVIOUS
  <2>2. ASSUME NEW i \in From(s) PROVE i \in From(m)
    <3>1. i \in S /\ i >= s
      OBVIOUS
    <3>2. i >= m
      BY <1>5, <2>1, <3>1
    <3>3. QED
      BY <3>1, <3>2
  <2>3. m \in From(m) /\ m \notin From(s)
    BY <1>5, <2>1, SMT
  <2>4. <<From(s), A>> \in StrictSubsetOrdering(S)
    BY <1>1, <1>4, <2>2, <2>3 DEF StrictSubsetOrdering
  <2>5. QED
    BY <1>3, <2>4
<1>6. \A s \in S : m >= s
  BY <1>5
<1>7. QED
  BY <1>4, <1>6 DEF Max

\* A sequence is a function.
LEMMA SequenceFacts ==
  ASSUME NEW S, NEW s \in Seq(S)
  PROVE  Len(s) \in Nat /\ DOMAIN s = 1..Len(s) /\ s \in [1..Len(s) -> S]
  OBVIOUS

\* The members of a set that a relation puts before one of them.
Below(S, R, x) == {y \in S : <<y, x>> \in R}

\* What a strict total order on a finite set ranks: each place is taken.
LEMMA EveryPlaceIsTaken ==
  ASSUME NEW S, IsFiniteSet(S), NEW R,
         \A x \in S : <<x, x>> \notin R,
         \A x, y \in S : x = y \/ <<x, y>> \in R \/ <<y, x>> \in R,
         \A x, y, z \in S : <<x, y>> \in R /\ <<y, z>> \in R => <<x, z>> \in R,
         NEW n \in 1..Cardinality(S)
  PROVE  \E x \in S : Cardinality(Below(S, R, x)) = n - 1
<1> DEFINE Places == 0..(Cardinality(S) - 1)
           f == [x \in S |-> Cardinality(Below(S, R, x))]
<1>1. Cardinality(S) \in Nat
  BY FS_CardinalityType
<1>2. ASSUME NEW x \in S
      PROVE  IsFiniteSet(Below(S, R, x)) /\ Cardinality(Below(S, R, x)) \in Places
  <2>1. Below(S, R, x) \in SUBSET S /\ Below(S, R, x) # S
    BY DEF Below
  <2>2. IsFiniteSet(Below(S, R, x)) /\ Cardinality(Below(S, R, x)) <= Cardinality(S)
        /\ Cardinality(Below(S, R, x)) # Cardinality(S)
    BY <2>1, FS_Subset
  <2>3. Cardinality(Below(S, R, x)) \in Nat
    BY <2>2, FS_CardinalityType
  <2>4. QED
    BY <1>1, <2>2, <2>3
<1>3. ASSUME NEW x \in S, NEW y \in S, <<x, y>> \in R
      PROVE  Cardinality(Below(S, R, x)) # Cardinality(Below(S, R, y))
  <2>1. Below(S, R, x) \in SUBSET Below(S, R, y) /\ x \in Below(S, R, y)
        /\ x \notin Below(S, R, x)
    BY <1>3 DEF Below
  <2>2. QED
    BY <1>2, <2>1, FS_Subset
<1>4. SUFFICES ASSUME \A x \in S : f[x] # n - 1 PROVE FALSE
  OBVIOUS
<1>5. f \in [S -> Places \ {n - 1}]
  BY <1>2, <1>4
<1>6. IsFiniteSet(Places \ {n - 1}) /\ Cardinality(Places \ {n - 1}) < Cardinality(S)
  <2>1. IsFiniteSet(Places) /\ Cardinality(Places) = Cardinality(S)
    <3>1. PICK m : m = Cardinality(S) - 1
      OBVIOUS
    <3>2. m \in Int /\ ~(0 > m) /\ m - 0 + 1 = Cardinality(S)
      BY <1>1, <3>1
    <3>3. IsFiniteSet(0..m) /\ Cardinality(0..m) = m - 0 + 1
      BY <3>2, FS_Interval
    <3>4. QED
      BY <3>1, <3>2, <3>3
  <2>2. n - 1 \in Places
    BY <1>1
  <2>3. PICK P : P = Places
    OBVIOUS
  <2>4. IsFiniteSet(P \ {n - 1}) /\ Cardinality(P \ {n - 1}) = Cardinality(P) - 1
    <3>1. PICK k : k = n - 1
      OBVIOUS
    <3>2. k \in P /\ IsFiniteSet(P)
      BY <2>1, <2>2, <2>3, <3>1
    <3>3. IsFiniteSet(P \ {k}) /\ Cardinality(P \ {k}) = Cardinality(P) - 1
      BY <3>2, FS_RemoveElement
    <3>4. QED
      BY <3>1, <3>3
  <2>5. QED
    BY <1>1, <2>1, <2>3, <2>4
<1>7. PICK x, y \in S : x # y /\ f[x] = f[y]
  <2>1. PICK P : P = Places \ {n - 1}
    OBVIOUS
  <2>2. PICK g : g = f
    OBVIOUS
  <2>3. \E x, y \in S : x # y /\ g[x] = g[y]
    BY <1>5, <1>6, <2>1, <2>2, FS_PigeonHole
  <2>4. QED
    BY <2>2, <2>3
<1>8. QED
  BY <1>3, <1>7
-----------------------------------------------------------------------------
(* The causal order.                                                       *)

Distinct(set) == \A x, y \in set : x.actor = y.actor /\ x.seq = y.seq => x = y

\* The Lamport clock goes with what is observed.
Clocked(set) == \A x, y \in set : Observes(x, y) => y.lamport < x.lamport

Orderable(set) ==
    set \subseteq Operations /\ IsFiniteSet(set) /\ Distinct(set) /\ Clocked(set)

\* A sequence has each operation of a set once, behind what it observed.
Linearizes(order, set) ==
    /\ order \in Seq(set) /\ Range(order) = set
    /\ \A i, j \in DOMAIN order : order[i] = order[j] => i = j
    /\ Linear(order)

LEMMA OperationFacts ==
  ASSUME NEW x \in Operations
  PROVE  /\ x.actor \in Actors /\ x.actor \in Nat /\ x.actor # 0
         /\ x.seq \in Nat /\ x.seq # 0 /\ x.lamport \in Nat
         /\ x.seen \in [Actors -> Nat] /\ x.text \in Texts
         /\ x.from \in Nat /\ x.to \in Nat /\ x # Base
<1>1. NumActors \in Nat
  BY TextMergeAssumption
<1>2. x.actor \in Actors /\ x.seq \in Nat \ {0} /\ x.lamport \in Nat \ {0}
      /\ x.seen \in [Actors -> Nat] /\ x.text \in Texts
      /\ x.from \in Nat /\ x.to \in Nat
  BY DEF Operations
<1>3. x.actor \in Nat /\ x.actor # 0
  BY <1>1, <1>2 DEF Actors
<1>4. x # Base
  BY <1>3 DEF Base
<1>5. QED
  BY <1>2, <1>3, <1>4

\* ready_key is a strict total order on operations with their own identities.
LEMMA PrecedesOrders ==
  ASSUME NEW x \in Operations, NEW y \in Operations, NEW z \in Operations
  PROVE  /\ ~Precedes(x, x)
         /\ Precedes(x, y) /\ Precedes(y, z) => Precedes(x, z)
         /\ Precedes(x, y) \/ Precedes(y, x)
            \/ (x.actor = y.actor /\ x.seq = y.seq)
  BY OperationFacts DEF Precedes

\* So there is always a first of those that are ready.
LEMMA FirstExists ==
  ASSUME NEW S, S \subseteq Operations, IsFiniteSet(S), Distinct(S), S # {}
  PROVE  \E x \in S : \A y \in S : x = y \/ Precedes(x, y)
<1> DEFINE Headed(T) == \E x \in T : \A y \in T : x = y \/ Precedes(x, y)
           Bad == {T \in SUBSET S : T # {} /\ ~Headed(T)}
<1>1. SUFFICES ASSUME ~Headed(S) PROVE FALSE
  OBVIOUS
<1>2. Bad \subseteq FiniteSubsetsOf(S) /\ Bad # {}
  BY <1>1, FS_FiniteSubsetsOfFinite
<1>3. PICK A \in Bad : \A B \in Bad : ~(<<B, A>> \in StrictSubsetOrdering(S))
  BY <1>2, FS_StrictSubsetOrderingWellFounded, WFMin
<1>4. A \in SUBSET S /\ A # {} /\ ~Headed(A)
  BY <1>3
<1>5. PICK x \in A : TRUE
  BY <1>4
<1>6. A \ {x} \notin Bad
  BY <1>3, <1>4, <1>5 DEF StrictSubsetOrdering
<1>7. CASE A \ {x} = {}
  BY <1>4, <1>5, <1>7
<1>8. CASE Headed(A \ {x})
  <2>1. PICK z \in A \ {x} : \A y \in A \ {x} : z = y \/ Precedes(z, y)
    BY <1>8
  <2>2. x \in S /\ z \in S /\ x # z
    BY <1>4, <1>5, <2>1
  <2>3. Precedes(x, z) \/ Precedes(z, x)
    BY <2>2, PrecedesOrders DEF Distinct
  <2>4. CASE Precedes(z, x)
    BY <1>4, <2>1, <2>4
  <2>5. CASE Precedes(x, z)
    <3>1. ASSUME NEW y \in A PROVE x = y \/ Precedes(x, y)
      BY <1>4, <2>1, <2>2, <2>5, PrecedesOrders
    <3>2. QED
      BY <1>4, <1>5, <3>1
  <2>6. QED
    BY <2>3, <2>4, <2>5
<1>9. QED
  BY <1>4, <1>6, <1>7, <1>8

\* Not all is done, so something is ready: at least the first of what is left.
LEMMA SomethingIsReady ==
  ASSUME NEW set, Orderable(set), NEW done \in SUBSET set, done # set
  PROVE  \E x \in set \ done : \A y \in set : Observes(x, y) => y \in done
<1>1. set \ done \subseteq Operations /\ IsFiniteSet(set \ done)
      /\ Distinct(set \ done) /\ set \ done # {}
  BY FS_Subset DEF Orderable, Distinct
<1>2. PICK x \in set \ done : \A y \in set \ done : x = y \/ Precedes(x, y)
  BY <1>1, FirstExists
<1>3. ASSUME NEW y \in set, Observes(x, y), y \notin done PROVE FALSE
  <2>1. y.lamport < x.lamport /\ x \in Operations /\ y \in Operations
    BY <1>3 DEF Orderable, Clocked
  <2>2. x # y
    BY <2>1, OperationFacts
  <2>3. Precedes(x, y)
    BY <1>2, <1>3, <2>2
  <2>4. QED
    BY <2>1, <2>3, OperationFacts DEF Precedes
<1>4. QED
  BY <1>2, <1>3

\* The first of those that are ready, as CausalOrder chooses it.
Ready(set, done) == {x \in set \ done : \A y \in set : Observes(x, y) => y \in done}
NextReady(set, done) == CHOOSE x \in Ready(set, done) :
    \A y \in Ready(set, done) : x = y \/ Precedes(x, y)

LEMMA NextReadyProps ==
  ASSUME NEW set, Orderable(set), NEW done \in SUBSET set, done # set
  PROVE  NextReady(set, done) \in Ready(set, done)
<1>1. Ready(set, done) # {}
  BY SomethingIsReady DEF Ready
<1>2. Ready(set, done) \subseteq Operations /\ IsFiniteSet(Ready(set, done))
      /\ Distinct(Ready(set, done))
  <2>1. Ready(set, done) \in SUBSET set
    BY DEF Ready
  <2>2. QED
    BY <2>1, FS_Subset DEF Orderable, Distinct
<1>3. \E x \in Ready(set, done) : \A y \in Ready(set, done) : x = y \/ Precedes(x, y)
  BY <1>1, <1>2, FirstExists
<1>4. QED
  BY <1>3 DEF NextReady

\* A beginning of the order: each once, behind all that it observed.
Begins(order, set, n) ==
    /\ order \in Seq(set) /\ Len(order) = n
    /\ \A i, j \in 1..n : order[i] = order[j] => i = j
    /\ \A i \in 1..n : \A y \in set :
           Observes(order[i], y) => \E j \in 1..n : j < i /\ order[j] = y

LEMMA BeginsFurther ==
  ASSUME NEW set, Orderable(set), NEW n \in Nat, n < Cardinality(set),
         NEW order, Begins(order, set, n)
  PROVE  Begins(Append(order, NextReady(set, Range(order))), set, n + 1)
<1>1. order \in Seq(set) /\ Len(order) = n
  BY DEF Begins
<1>2. Range(order) \in SUBSET set /\ Range(order) = {order[i] : i \in 1..n}
  BY <1>1, RangeOfSeq, RangeEquality
<1>3. Range(order) # set
  <2>1. order \in [1..n -> Range(order)] /\ \A y \in Range(order) : \E i \in 1..n : order[i] = y
    BY <1>1, <1>2
  <2>2. order \in Surjection(1..n, Range(order))
    BY <2>1 DEF Surjection
  <2>3. IsFiniteSet(1..n) /\ Cardinality(1..n) = n
    BY FS_Interval
  <2>4. Cardinality(Range(order)) <= n
    BY <2>2, <2>3, FS_Surjection
  <2>5. Cardinality(set) \in Nat
    BY FS_CardinalityType DEF Orderable
  <2>6. QED
    BY <2>4, <2>5
<1>4. PICK x : x = NextReady(set, Range(order))
  OBVIOUS
<1>5. x \in set /\ x \notin Range(order)
      /\ \A y \in set : Observes(x, y) => y \in Range(order)
  BY <1>2, <1>3, <1>4, NextReadyProps DEF Ready
<1>6. PICK longer : longer = Append(order, x)
  OBVIOUS
<1>7. longer \in Seq(set) /\ Len(longer) = n + 1 /\ longer[n + 1] = x
      /\ \A i \in 1..n : longer[i] = order[i]
  BY <1>1, <1>5, <1>6, AppendProperties
<1>8. \A i \in 1..(n + 1) : i \in 1..n \/ i = n + 1
  OBVIOUS
<1>9. \A i, j \in 1..(n + 1) : longer[i] = longer[j] => i = j
  BY <1>2, <1>5, <1>7, <1>8 DEF Begins
<1>10. ASSUME NEW i \in 1..(n + 1), NEW y \in set, Observes(longer[i], y)
       PROVE  \E j \in 1..(n + 1) : j < i /\ longer[j] = y
  <2>1. CASE i = n + 1
    <3>1. PICK j \in 1..n : order[j] = y
      BY <1>2, <1>5, <1>7, <1>10, <2>1
    <3>2. QED
      BY <1>7, <2>1, <3>1
  <2>2. CASE i \in 1..n
    <3>1. PICK j \in 1..n : j < i /\ order[j] = y
      BY <1>7, <1>10, <2>2 DEF Begins
    <3>2. QED
      BY <1>7, <3>1
  <2>3. QED
    BY <1>8, <2>1, <2>2
<1>11. QED
  BY <1>4, <1>6, <1>7, <1>9, <1>10 DEF Begins

\* What CausalOrder iterates exists.
LEMMA OrderIsDefined ==
  ASSUME NEW set
  PROVE  \A N \in Nat : \E f : f = [n \in 0..N |->
             IF n = 0 THEN <<>>
             ELSE Append(f[n - 1], NextReady(set, Range(f[n - 1])))]
<1> DEFINE Next1(order) == Append(order, NextReady(set, Range(order)))
           Iterates(f, N) == f = [n \in 0..N |-> IF n = 0 THEN <<>> ELSE Next1(f[n - 1])]
           T == {N \in Nat : \E f : Iterates(f, N)}
<1> HIDE DEF Next1
<1>1. 0 \in T
  <2>1. Iterates([n \in 0..0 |-> <<>>], 0)
    OBVIOUS
  <2>2. QED
    BY <2>1
<1>2. ASSUME NEW N \in Nat, N \in T PROVE N + 1 \in T
  <2>1. PICK f : Iterates(f, N)
    BY <1>2
  <2>2. PICK g : g = [n \in 0..(N + 1) |-> IF n = N + 1 THEN Next1(f[N]) ELSE f[n]]
    OBVIOUS
  <2>3. ASSUME NEW n \in 0..(N + 1)
        PROVE  g[n] = IF n = 0 THEN <<>> ELSE Next1(g[n - 1])
    <3>1. CASE n = N + 1
      BY <2>2, <3>1
    <3>2. CASE n = 0
      BY <2>1, <2>2, <3>2
    <3>3. CASE n \in 1..N
      <4>1. g[n] = f[n] /\ g[n - 1] = f[n - 1] /\ n \in 0..N
        BY <2>2, <3>3
      <4>2. f[n] = Next1(f[n - 1])
        BY <2>1, <3>3, <4>1
      <4>3. QED
        BY <3>3, <4>1, <4>2
    <3>4. QED
      BY <3>1, <3>2, <3>3
  <2>4. Iterates(g, N + 1)
    BY <2>2, <2>3
  <2>5. QED
    BY <2>4
<1>3. \A N \in Nat : N \in T
  BY <1>1, <1>2, SetInduction
<1>4. QED
  BY <1>3 DEF Next1

\* causal_order is a linear extension of what its operations observe.
LEMMA CausalOrderProps ==
  ASSUME NEW set, Orderable(set)
  PROVE  Linearizes(CausalOrder(set), set)
<1> DEFINE N == Cardinality(set)
           Iterates(f) == f = [n \in 0..N |->
               IF n = 0 THEN <<>>
               ELSE Append(f[n - 1], NextReady(set, Range(f[n - 1])))]
<1>1. N \in Nat
  BY FS_CardinalityType DEF Orderable
<1>2. PICK f : f = CHOOSE g : Iterates(g)
  OBVIOUS
<1>3. Iterates(f)
  <2>1. \E g : Iterates(g)
    BY <1>1, OrderIsDefined
  <2>2. QED
    BY <1>2, <2>1
<1>4. CausalOrder(set) = f[N]
  BY <1>2 DEF CausalOrder, NextReady, Ready
<1> DEFINE T == {n \in Nat : n <= N => Begins(f[n], set, n)}
<1>5. 0 \in T
  <2>1. f[0] = <<>>
    BY <1>1, <1>3
  <2>2. Begins(<<>>, set, 0)
    BY DEF Begins
  <2>3. QED
    BY <2>1, <2>2
<1>6. ASSUME NEW n \in Nat, n \in T PROVE n + 1 \in T
  <2>1. SUFFICES ASSUME n + 1 <= N PROVE Begins(f[n + 1], set, n + 1)
    OBVIOUS
  <2>2. n < N /\ Begins(f[n], set, n)
    BY <1>1, <1>6, <2>1
  <2>3. f[n + 1] = Append(f[n], NextReady(set, Range(f[n])))
    <3>1. PICK m : m = n + 1
      OBVIOUS
    <3>2. m \in 0..N /\ m # 0 /\ m - 1 = n
      BY <1>1, <2>1, <3>1
    <3>3. f[m] = Append(f[m - 1], NextReady(set, Range(f[m - 1])))
      BY <1>3, <3>2
    <3>4. QED
      BY <3>1, <3>2, <3>3
  <2>4. QED
    BY <2>2, <2>3, BeginsFurther
<1>7. N \in T
  BY <1>1, <1>5, <1>6, SetInduction
<1>8. PICK order : order = f[N]
  OBVIOUS
<1>9. Begins(order, set, N)
  BY <1>1, <1>7, <1>8
<1>10. order \in Seq(set) /\ DOMAIN order = 1..N /\ order \in [1..N -> set]
  BY <1>9, SequenceFacts DEF Begins
<1>11. \A i, j \in DOMAIN order : order[i] = order[j] => i = j
  BY <1>9, <1>10 DEF Begins
<1>12. Range(order) = set
  <2>1. Range(order) \in SUBSET set /\ Range(order) = {order[i] : i \in 1..N}
    BY <1>9, <1>10, RangeOfSeq, RangeEquality DEF Begins
  <2>2. order \in Injection(1..N, set)
    BY <1>10, <1>11 DEF Injection, IsInjective
  <2>3. order \in Surjection(1..N, set)
    <3>1. IsFiniteSet(1..N) /\ Cardinality(1..N) = N /\ IsFiniteSet(set)
      BY <1>1, FS_Interval DEF Orderable
    <3>2. QED
      BY <2>2, <3>1, FS_Injection
  <2>4. QED
    BY <2>1, <2>3 DEF Surjection
<1>13. Linear(order)
  <2>1. ASSUME NEW i \in 1..N, NEW j \in 1..N, Observes(order[i], order[j])
        PROVE  j < i
    <3>1. order[j] \in set
      BY <1>10
    <3>2. PICK k \in 1..N : k < i /\ order[k] = order[j]
      BY <1>9, <2>1, <3>1 DEF Begins
    <3>3. QED
      BY <1>10, <1>11, <3>2
  <2>2. QED
    BY <1>10, <2>1 DEF Linear
<1>14. QED
  BY <1>4, <1>8, <1>10, <1>11, <1>12, <1>13 DEF Linearizes
-----------------------------------------------------------------------------
(* The merge.                                                              *)

Atoms == [label : Labels, by : Operations \cup {Base}, dead : BOOLEAN,
          gone : SUBSET Operations]

Transitive(set) ==
    \A x, y, z \in set : Observes(x, y) /\ Observes(y, z) => Observes(x, z)

\* Atoms by the text before the merge and the first n edits.
Placed(atoms, order, n) ==
    /\ atoms \in Seq(Atoms)
    /\ \A i \in DOMAIN atoms :
           atoms[i].by = Base \/ \E j \in 1..n : j \in DOMAIN order /\ atoms[i].by = order[j]

\* Between two atoms of one insert, nothing that does not know of it.
Unsplit(atoms) ==
    \A i, j, k \in DOMAIN atoms :
        i < j /\ j < k /\ atoms[i].by = atoms[k].by /\ atoms[i].by # Base =>
            /\ atoms[j].by # Base
            /\ atoms[j].by = atoms[i].by \/ Observes(atoms[j].by, atoms[i].by)

LEMMA PositionsFinite ==
  ASSUME NEW atoms \in Seq(Atoms)
  PROVE  IsFiniteSet(DOMAIN atoms)
<1>1. PICK n \in Nat : DOMAIN atoms = 1..n
  BY SequenceFacts
<1>2. IsFiniteSet(1..n)
  BY FS_Interval
<1>3. QED
  BY <1>1, <1>2

\* Positions in order are positions of the set.
LEMMA AscendingProps ==
  ASSUME NEW S \in SUBSET Nat, IsFiniteSet(S)
  PROVE  /\ Cardinality(S) \in Nat
         /\ Ascending(S) \in [1..Cardinality(S) -> S]
<1> DEFINE R == {p \in S \X S : p[1] < p[2]}
<1>1. \A x \in S : x \in Nat
  OBVIOUS
<1>2. /\ \A x \in S : <<x, x>> \notin R
      /\ \A x, y \in S : x = y \/ <<x, y>> \in R \/ <<y, x>> \in R
      /\ \A x, y, z \in S : <<x, y>> \in R /\ <<y, z>> \in R => <<x, z>> \in R
  BY <1>1
<1>3. \A x \in S : Below(S, R, x) = {y \in S : y < x}
  BY DEF Below
<1>4. \A n \in 1..Cardinality(S) :
          \E x \in S : Cardinality(Below(S, R, x)) = n - 1
  <2>1. PICK Q : Q = R
    OBVIOUS
  <2>2. /\ \A x \in S : <<x, x>> \notin Q
        /\ \A x, y \in S : x = y \/ <<x, y>> \in Q \/ <<y, x>> \in Q
        /\ \A x, y, z \in S : <<x, y>> \in Q /\ <<y, z>> \in Q => <<x, z>> \in Q
    BY <1>2, <2>1
  <2>3. ASSUME NEW n \in 1..Cardinality(S)
        PROVE  \E x \in S : Cardinality(Below(S, Q, x)) = n - 1
    BY <2>2, EveryPlaceIsTaken
  <2>4. QED
    BY <2>1, <2>3
<1>5. \A n \in 1..Cardinality(S) :
          \E x \in S : Cardinality({y \in S : y < x}) = n - 1
  BY <1>3, <1>4
<1>6. \A n \in 1..Cardinality(S) : Ascending(S)[n] \in S
  BY <1>5 DEF Ascending, InOrder
<1>7. QED
  BY <1>6, FS_CardinalityType DEF Ascending, InOrder

\* Where an insert lands, when everything there is ranked before it: right
\* behind an atom that its author saw.
Lands(atoms, op, at) ==
    /\ at \in 0..Len(atoms)
    /\ at # 0 => atoms[at].by = Base \/ Observes(op, atoms[at].by)

LEMMA LandingProps ==
  ASSUME NEW atoms \in Seq(Atoms), NEW op \in Operations, NEW rank,
         \A i \in DOMAIN atoms : atoms[i].by = Base \/ ~(rank[atoms[i].by] > rank[op])
  PROVE  Lands(atoms, op, Landing(atoms, op, rank))
<1> DEFINE seen == {i \in DOMAIN atoms :
                      /\ ~atoms[i].dead
                      /\ atoms[i].by = Base \/ Observes(op, atoms[i].by)
                      /\ \A d \in atoms[i].gone : ~Observes(op, d)}
           visible == Visible(atoms, op)
           offset == Least2(op.from, Len(visible))
           anchor == IF offset = 0 THEN 0 ELSE visible[offset]
           stepped(i) == /\ atoms[i].by # Base
                         /\ rank[atoms[i].by] > rank[op]
                         /\ ~Observes(op, atoms[i].by)
<1>1. DOMAIN atoms = 1..Len(atoms) /\ Len(atoms) \in Nat
  OBVIOUS
<1>2. seen \in SUBSET Nat /\ IsFiniteSet(seen) /\ seen \subseteq DOMAIN atoms
  <2>1. IsFiniteSet(DOMAIN atoms)
    BY PositionsFinite
  <2>2. QED
    BY <1>1, <2>1, FS_Subset
<1>3. visible = Ascending(seen)
  BY DEF Visible
<1>4. Cardinality(seen) \in Nat /\ visible \in [1..Cardinality(seen) -> seen]
  BY <1>2, <1>3, AscendingProps
<1>5. Len(visible) = Cardinality(seen)
  BY <1>4
<1>6. offset \in 0..Cardinality(seen)
  BY <1>4, <1>5, OperationFacts DEF Least2
<1>7. anchor = 0 \/ anchor \in seen
  BY <1>4, <1>6
<1>8. \A i \in DOMAIN atoms : ~stepped(i)
  OBVIOUS
<1>9. Landing(atoms, op, rank) = CHOOSE at \in anchor..Len(atoms) :
            /\ \A i \in (anchor + 1)..at : stepped(i)
            /\ at < Len(atoms) => ~stepped(at + 1)
  BY DEF Landing
<1>10. anchor \in 0..Len(atoms)
  BY <1>1, <1>2, <1>7
<1> HIDE DEF anchor, stepped
<1>11. /\ anchor \in anchor..Len(atoms)
       /\ \A i \in (anchor + 1)..anchor : stepped(i)
       /\ anchor < Len(atoms) => ~stepped(anchor + 1)
  BY <1>1, <1>8, <1>10
<1>12. ASSUME NEW at \in anchor..Len(atoms), \A i \in (anchor + 1)..at : stepped(i)
       PROVE  at = anchor
  <2>1. SUFFICES ASSUME at # anchor PROVE FALSE
    OBVIOUS
  <2>2. anchor + 1 \in (anchor + 1)..at /\ anchor + 1 \in DOMAIN atoms
    BY <1>1, <1>10, <2>1
  <2>3. QED
    BY <1>8, <1>12, <2>2
<1>13. Landing(atoms, op, rank) = anchor
  BY <1>9, <1>11, <1>12
<1>14. anchor # 0 => atoms[anchor].by = Base \/ Observes(op, atoms[anchor].by)
  BY <1>7
<1>15. QED
  BY <1>10, <1>13, <1>14 DEF Lands

\* Where a position is: before a gap of w places, in it, or behind it.
LEMMA Thirds ==
  ASSUME NEW n \in Nat, NEW w \in Nat, NEW at \in 0..n, NEW i \in 1..(n + w)
  PROVE  \/ i \in 1..at /\ i \in 1..n
         \/ i \in (at + 1)..(at + w) /\ i - at \in 1..w
         \/ i \in (at + w + 1)..(n + w) /\ i - w \in (at + 1)..n /\ i - w \in 1..n
  OBVIOUS

\* A slice of a sequence of atoms, position by position.
LEMMA SliceFacts ==
  ASSUME NEW s \in Seq(Atoms), NEW n \in Nat, NEW m \in Nat, n + m <= Len(s)
  PROVE  /\ SubSeq(s, n + 1, n + m) \in Seq(Atoms)
         /\ Len(SubSeq(s, n + 1, n + m)) = m
         /\ \A i \in 1..m :
                n + i \in DOMAIN s /\ SubSeq(s, n + 1, n + m)[i] = s[n + i]
  OBVIOUS

\* Two sequences of atoms, position by position.
LEMMA ConcatFacts ==
  ASSUME NEW s \in Seq(Atoms), NEW t \in Seq(Atoms)
  PROVE  /\ s \o t \in Seq(Atoms) /\ Len(s \o t) = Len(s) + Len(t)
         /\ \A i \in 1..Len(s) : (s \o t)[i] = s[i]
         /\ \A i \in 1..Len(t) : (s \o t)[Len(s) + i] = t[i]
  OBVIOUS

\* A sequence with another of length w put into it, position by position.
Splices(s, mid, at, w, new) ==
    /\ new \in Seq(Atoms) /\ w \in Nat /\ Len(new) = Len(s) + w
    /\ \A i \in 1..at : new[i] = s[i]
    /\ \A i \in 1..w : new[at + i] = mid[i]
    /\ \A i \in 1..(Len(s) - at) : new[at + w + i] = s[at + i]

LEMMA SpliceFacts ==
  ASSUME NEW s \in Seq(Atoms), NEW mid \in Seq(Atoms), NEW at \in 0..Len(s)
  PROVE  Splices(s, mid, at, Len(mid),
                 SubSeq(s, 1, at) \o mid \o SubSeq(s, at + 1, Len(s)))
<1> DEFINE w == Len(mid)
           new == SubSeq(s, 1, at) \o mid \o SubSeq(s, at + 1, Len(s))
<1>1. PICK left : left = SubSeq(s, 1, at)
  OBVIOUS
<1>2. PICK right : right = SubSeq(s, at + 1, Len(s))
  OBVIOUS
<1>3. Len(s) \in Nat /\ w \in Nat /\ at \in Nat /\ Len(s) - at \in Nat
      /\ at + (Len(s) - at) = Len(s) /\ 0 + at <= Len(s) /\ at <= Len(s)
      /\ 0 + 1 = 1 /\ 0 + at = at
  OBVIOUS
<1>4. left \in Seq(Atoms) /\ Len(left) = at /\ \A i \in 1..at : left[i] = s[i]
  <2>1. SubSeq(s, 0 + 1, 0 + at) \in Seq(Atoms) /\ Len(SubSeq(s, 0 + 1, 0 + at)) = at
        /\ \A i \in 1..at : SubSeq(s, 0 + 1, 0 + at)[i] = s[0 + i]
    BY <1>3, SliceFacts
  <2>2. \A i \in 1..at : 0 + i = i
    OBVIOUS
  <2>3. QED
    BY <1>1, <1>3, <2>1, <2>2
<1>5. right \in Seq(Atoms) /\ Len(right) = Len(s) - at
      /\ \A i \in 1..(Len(s) - at) : right[i] = s[at + i]
  <2>1. PICK m \in Nat : m = Len(s) - at /\ at + m = Len(s)
    BY <1>3
  <2>2. right = SubSeq(s, at + 1, at + m)
    BY <1>2, <2>1
  <2>3. SubSeq(s, at + 1, at + m) \in Seq(Atoms) /\ Len(SubSeq(s, at + 1, at + m)) = m
        /\ \A i \in 1..m : SubSeq(s, at + 1, at + m)[i] = s[at + i]
    <3>1. at + m <= Len(s) /\ at \in Nat /\ m \in Nat
      BY <1>3, <2>1
    <3>2. QED
      BY <3>1, SliceFacts
  <2>4. QED
    BY <2>1, <2>2, <2>3
<1>6. PICK both : both = left \o mid
  OBVIOUS
<1>7. both \in Seq(Atoms) /\ Len(both) = at + w
      /\ (\A i \in 1..at : both[i] = left[i])
      /\ (\A i \in 1..w : both[at + i] = mid[i])
  <2>1. left \o mid \in Seq(Atoms) /\ Len(left \o mid) = Len(left) + Len(mid)
        /\ (\A i \in 1..Len(left) : (left \o mid)[i] = left[i])
        /\ (\A i \in 1..Len(mid) : (left \o mid)[Len(left) + i] = mid[i])
    BY <1>4, ConcatFacts
  <2>2. Len(left) = at
    BY <1>4
  <2>3. QED
    BY <1>6, <2>1, <2>2
<1>8. new = both \o right
  BY <1>1, <1>2, <1>6
<1>9. new \in Seq(Atoms) /\ Len(new) = (at + w) + (Len(s) - at)
      /\ (\A i \in 1..(at + w) : new[i] = both[i])
      /\ (\A i \in 1..(Len(s) - at) : new[at + w + i] = right[i])
  <2>1. both \o right \in Seq(Atoms) /\ Len(both \o right) = Len(both) + Len(right)
        /\ (\A i \in 1..Len(both) : (both \o right)[i] = both[i])
        /\ (\A i \in 1..Len(right) : (both \o right)[Len(both) + i] = right[i])
    BY <1>5, <1>7, ConcatFacts
  <2>2. Len(both) = at + w /\ Len(right) = Len(s) - at
    BY <1>5, <1>7
  <2>3. QED
    BY <1>8, <2>1, <2>2
<1>10. (at + w) + (Len(s) - at) = Len(s) + w
  BY <1>3
<1>11. ASSUME NEW i \in 1..at PROVE new[i] = s[i]
  <2>1. i \in 1..(at + w)
    BY <1>3
  <2>2. QED
    BY <1>4, <1>7, <1>9, <2>1
<1>12. ASSUME NEW i \in 1..w PROVE new[at + i] = mid[i]
  <2>1. at + i \in 1..(at + w)
    BY <1>3
  <2>2. QED
    BY <1>7, <1>9, <2>1
<1> HIDE DEF w, new
<1>13. \A i \in 1..(Len(s) - at) : new[at + w + i] = s[at + i]
  BY <1>5, <1>9
<1>14. Splices(s, mid, at, w, new)
  BY <1>3, <1>9, <1>10, <1>11, <1>12, <1>13 DEF Splices
<1>15. QED
  BY <1>14 DEF w, new

\* The atoms of one insert.
Inserted(op) == [i \in DOMAIN op.text |->
    [label |-> op.text[i], by |-> op, dead |-> FALSE, gone |-> {}]]

LEMMA InsertedProps ==
  ASSUME NEW op \in Operations
  PROVE  /\ Inserted(op) \in Seq(Atoms) /\ Len(Inserted(op)) = Len(op.text)
         /\ \A i \in 1..Len(op.text) : Inserted(op)[i].by = op
<1>1. op.text \in Seq(Labels)
  BY OperationFacts DEF Texts
<1>2. \A i \in DOMAIN op.text : op.text[i] \in Labels
  BY <1>1
<1>3. \A i \in DOMAIN op.text : Inserted(op)[i] \in Atoms /\ Inserted(op)[i].by = op
  BY <1>2 DEF Inserted, Atoms
<1>4. DOMAIN op.text = 1..Len(op.text) /\ Len(op.text) \in Nat
  BY <1>1
<1>5. DOMAIN Inserted(op) = DOMAIN op.text
  BY DEF Inserted
<1>6. Inserted(op) \in [1..Len(op.text) -> Atoms]
  BY <1>3, <1>4, <1>5 DEF Inserted
<1>7. QED
  BY <1>3, <1>4, <1>6

\* What an insert does to the authors of the atoms: theirs before it, its own
\* in it, theirs behind it.
Widened(old, new, at, w, op) ==
    /\ at \in 0..Len(old) /\ w \in Nat
    /\ Len(old) \in Nat /\ Len(new) = Len(old) + w
    /\ DOMAIN old = 1..Len(old) /\ DOMAIN new = 1..Len(new)
    /\ \A i \in 1..at : new[i].by = old[i].by
    /\ \A i \in 1..w : new[at + i].by = op
    /\ \A i \in 1..(Len(old) - at) : new[at + w + i].by = old[at + i].by

LEMMA InsertWidens ==
  ASSUME NEW old \in Seq(Atoms), NEW op \in Operations, NEW at \in 0..Len(old),
         NEW new, new = SubSeq(old, 1, at) \o Inserted(op)
                            \o SubSeq(old, at + 1, Len(old))
  PROVE  new \in Seq(Atoms) /\ Widened(old, new, at, Len(op.text), op)
<1>1. PICK mid \in Seq(Atoms) : mid = Inserted(op)
  BY InsertedProps
<1>2. PICK w : w = Len(op.text)
  OBVIOUS
<1>3. w = Len(mid) /\ \A i \in 1..w : mid[i].by = op
  BY <1>1, <1>2, InsertedProps
<1>4. new = SubSeq(old, 1, at) \o mid \o SubSeq(old, at + 1, Len(old))
  BY <1>1
<1>5. /\ new \in Seq(Atoms) /\ w \in Nat /\ Len(new) = Len(old) + w
      /\ \A i \in 1..at : new[i] = old[i]
      /\ \A i \in 1..w : new[at + i] = mid[i]
      /\ \A i \in 1..(Len(old) - at) : new[at + w + i] = old[at + i]
  <2>1. w = Len(mid)
    BY <1>3
  <2>2. Splices(old, mid, at, w, new)
    BY <1>4, <2>1, SpliceFacts
  <2>3. QED
    BY <2>2 DEF Splices
<1>6. /\ Len(old) \in Nat /\ DOMAIN old = 1..Len(old) /\ DOMAIN new = 1..Len(new)
  <2>1. new \in Seq(Atoms)
    BY <1>5
  <2>2. QED
    BY <2>1
<1>7. \A i \in 1..w : new[at + i].by = op
  BY <1>3, <1>5
<1>8. Widened(old, new, at, w, op)
  BY <1>5, <1>6, <1>7 DEF Widened
<1>9. QED
  BY <1>2, <1>5, <1>8

\* The author of an atom after an insert.
LEMMA WidenedAuthor ==
  ASSUME NEW old, NEW new, NEW at, NEW w, NEW op, Widened(old, new, at, w, op),
         NEW i \in DOMAIN new
  PROVE  \/ i \in Nat /\ i <= at /\ i \in DOMAIN old /\ new[i].by = old[i].by
         \/ i \in Nat /\ i > at /\ i <= at + w /\ new[i].by = op
         \/ /\ i \in Nat /\ i > at + w /\ i - w \in DOMAIN old /\ i - w > at
            /\ new[i].by = old[i - w].by
<1>1. Len(old) \in Nat /\ w \in Nat /\ at \in 0..Len(old) /\ i \in 1..(Len(old) + w)
      /\ DOMAIN old = 1..Len(old)
  BY DEF Widened
<1>2. \/ i \in 1..at /\ i \in 1..Len(old)
      \/ i \in (at + 1)..(at + w) /\ i - at \in 1..w
      \/ i \in (at + w + 1)..(Len(old) + w) /\ i - w \in (at + 1)..Len(old)
            /\ i - w \in 1..Len(old)
  BY <1>1, Thirds
<1>3. CASE i \in 1..at /\ i \in 1..Len(old)
  BY <1>1, <1>3 DEF Widened
<1>4. CASE i \in (at + 1)..(at + w) /\ i - at \in 1..w
  <2>1. at + (i - at) = i /\ i \in Nat /\ i > at /\ i <= at + w
    BY <1>1, <1>4
  <2>2. new[at + (i - at)].by = op
    BY <1>4 DEF Widened
  <2>3. QED
    BY <2>1, <2>2
<1>5. CASE i \in (at + w + 1)..(Len(old) + w) /\ i - w \in (at + 1)..Len(old)
            /\ i - w \in 1..Len(old)
  <2>1. PICK k : k = i - (at + w)
    OBVIOUS
  <2>2. k \in 1..(Len(old) - at) /\ at + w + k = i /\ at + k = i - w
        /\ i \in Nat /\ i > at + w /\ i - w > at
    BY <1>1, <1>5, <2>1
  <2>3. new[at + w + k].by = old[at + k].by
    BY <2>2 DEF Widened
  <2>4. QED
    BY <1>1, <1>5, <2>2, <2>3
<1>6. QED
  BY <1>2, <1>3, <1>4, <1>5

\* An insert leaves no insert split: whoever wrote it saw what it lands behind.
LEMMA InsertKeepsUnsplit ==
  ASSUME NEW set, Transitive(set), NEW op \in set, op # Base,
         NEW old, NEW new, NEW at, NEW w, Widened(old, new, at, w, op),
         Unsplit(old), Lands(old, op, at),
         \A i \in DOMAIN old : (old[i].by = Base \/ old[i].by \in set) /\ old[i].by # op
  PROVE  Unsplit(new)
<1> DEFINE Old(i) == IF i <= at THEN i ELSE i - w
<1>1. at \in Nat /\ w \in Nat /\ Len(old) \in Nat /\ DOMAIN old = 1..Len(old) /\ at <= Len(old)
  BY DEF Widened
<1>2. ASSUME NEW i \in DOMAIN new, new[i].by # op
      PROVE  /\ i \in Nat /\ Old(i) \in DOMAIN old /\ new[i].by = old[Old(i)].by
             /\ i <= at \/ i > at + w
  BY <1>1, <1>2, WidenedAuthor
<1>3. ASSUME NEW i \in DOMAIN new, new[i].by = op
      PROVE  i \in Nat /\ i > at /\ i <= at + w
  BY <1>1, <1>3, WidenedAuthor
<1>4. ASSUME NEW i \in DOMAIN new, i > at, i <= at + w PROVE new[i].by = op
  BY <1>1, <1>4, WidenedAuthor
<1>5. SUFFICES ASSUME NEW i \in DOMAIN new, NEW j \in DOMAIN new, NEW k \in DOMAIN new,
                      i < j, j < k, new[i].by = new[k].by, new[i].by # Base
               PROVE  /\ new[j].by # Base
                      /\ new[j].by = new[i].by \/ Observes(new[j].by, new[i].by)
  BY DEF Unsplit
<1>6. i \in Nat /\ j \in Nat /\ k \in Nat
  BY <1>2, <1>3
<1>7. CASE new[i].by = op
  <2>1. i > at /\ k <= at + w
    BY <1>3, <1>5, <1>7
  <2>2. j > at /\ j <= at + w
    BY <1>1, <1>5, <1>6, <2>1
  <2>3. QED
    BY <1>4, <1>7, <2>2
<1>8. CASE new[i].by # op /\ new[j].by # op
  <2>1. PICK x \in DOMAIN old : x = Old(i) /\ new[i].by = old[x].by /\ (i <= at \/ i > at + w)
    BY <1>2, <1>8
  <2>2. PICK y \in DOMAIN old : y = Old(j) /\ new[j].by = old[y].by /\ (j <= at \/ j > at + w)
    BY <1>2, <1>8
  <2>3. PICK z \in DOMAIN old : z = Old(k) /\ new[k].by = old[z].by /\ (k <= at \/ k > at + w)
    BY <1>2, <1>5, <1>8
  <2>4. x < y /\ y < z
    BY <1>1, <1>5, <1>6, <2>1, <2>2, <2>3
  <2>5. QED
    BY <1>5, <2>1, <2>2, <2>3, <2>4 DEF Unsplit
<1>9. CASE new[i].by # op /\ new[j].by = op
  <2>1. PICK x \in DOMAIN old : x = Old(i) /\ new[i].by = old[x].by /\ (i <= at \/ i > at + w)
    BY <1>2, <1>9
  <2>2. PICK z \in DOMAIN old : z = Old(k) /\ new[k].by = old[z].by /\ (k <= at \/ k > at + w)
    BY <1>2, <1>5, <1>9
  <2>3. j > at /\ j <= at + w
    BY <1>3, <1>9
  <2>4. x <= at /\ at < z /\ at # 0 /\ at \in DOMAIN old
    BY <1>1, <1>5, <1>6, <2>1, <2>2, <2>3
  <2>5. old[at].by = Base \/ Observes(op, old[at].by)
    BY <2>4 DEF Lands
  <2>6. CASE x = at
    BY <1>5, <1>9, <2>1, <2>5, <2>6
  <2>7. CASE x < at
    <3>1. old[at].by # Base /\ (old[at].by = old[x].by \/ Observes(old[at].by, old[x].by))
      BY <1>5, <2>1, <2>2, <2>4, <2>7 DEF Unsplit
    <3>2. Observes(op, old[at].by) /\ old[at].by \in set /\ old[x].by \in set
      BY <1>5, <2>1, <2>4, <2>5, <3>1
    <3>3. Observes(op, old[x].by)
      BY <3>1, <3>2 DEF Transitive
    <3>4. QED
      BY <1>9, <2>1, <3>3
  <2>8. QED
    BY <1>1, <2>4, <2>6, <2>7
<1>10. QED
  BY <1>7, <1>8, <1>9

\* Deleting marks atoms where they are.
Struck(old, op, struck) == [i \in DOMAIN old |->
    IF i \in struck THEN [old[i] EXCEPT !.gone = @ \cup {op}] ELSE old[i]]

LEMMA StruckProps ==
  ASSUME NEW old \in Seq(Atoms), NEW op \in Operations, NEW struck
  PROVE  /\ Struck(old, op, struck) \in Seq(Atoms)
         /\ DOMAIN Struck(old, op, struck) = DOMAIN old
         /\ \A i \in DOMAIN old : Struck(old, op, struck)[i].by = old[i].by
<1> DEFINE new == Struck(old, op, struck)
<1>1. \A i \in DOMAIN old : old[i] \in Atoms
  OBVIOUS
<1>2. \A i \in DOMAIN old : new[i] \in Atoms /\ new[i].by = old[i].by
  BY <1>1 DEF Atoms, Struck
<1>3. DOMAIN old = 1..Len(old) /\ Len(old) \in Nat
  OBVIOUS
<1>4. new \in [1..Len(old) -> Atoms]
  BY <1>2, <1>3 DEF Struck
<1>5. QED
  BY <1>2, <1>3, <1>4

\* The rank of an operation is its place.
LEMMA RankProps ==
  ASSUME NEW set, NEW order, Linearizes(order, set), NEW i \in DOMAIN order
  PROVE  RankIn(order)[order[i]] = i /\ i \in Nat
<1>1. order[i] \in Range(order)
  BY DEF Range
<1>2. \A j \in DOMAIN order : order[j] = order[i] => j = i
  BY DEF Linearizes
<1>3. i \in Nat
  BY SequenceFacts DEF Linearizes
<1>4. QED
  BY <1>1, <1>2, <1>3 DEF RankIn

\* One edit of a merge, in its turn.
LEMMA EditedProps ==
  ASSUME NEW set, set \subseteq Operations, Transitive(set),
         NEW order, Linearizes(order, set), NEW n \in DOMAIN order,
         NEW atoms, Placed(atoms, order, n - 1), Unsplit(atoms)
  PROVE  LET new == Edited(atoms, order[n], RankIn(order))
         IN  Placed(new, order, n) /\ Unsplit(new)
<1>1. PICK op : op = order[n]
  OBVIOUS
<1>2. PICK new : new = Edited(atoms, op, RankIn(order))
  OBVIOUS
<1>3. op \in set /\ op \in Operations /\ op # Base /\ n \in Nat /\ n # 0
      /\ DOMAIN order = 1..Len(order) /\ Len(order) \in Nat
      /\ \A i \in DOMAIN order : order[i] \in set
  BY <1>1, OperationFacts DEF Linearizes
<1>4. atoms \in Seq(Atoms)
  BY DEF Placed
<1>5. ASSUME NEW i \in DOMAIN atoms, atoms[i].by # Base
      PROVE  /\ atoms[i].by \in set /\ atoms[i].by # op
             /\ ~(RankIn(order)[atoms[i].by] > RankIn(order)[op])
             /\ \E j \in 1..n : j \in DOMAIN order /\ atoms[i].by = order[j]
  <2>1. PICK j \in 1..(n - 1) : j \in DOMAIN order /\ atoms[i].by = order[j]
    BY <1>5 DEF Placed
  <2>2. RankIn(order)[order[j]] = j /\ RankIn(order)[op] = n
    BY <1>1, <2>1, RankProps
  <2>3. j < n /\ j \in 1..n
    BY <1>3, <2>1
  <2>4. QED
    BY <1>3, <2>1, <2>2, <2>3
<1>6. CASE op.kind = "insert"
  <2>1. PICK at : at = Landing(atoms, op, RankIn(order))
    OBVIOUS
  <2>2. Lands(atoms, op, at)
    BY <1>3, <1>4, <1>5, <2>1, LandingProps
  <2>3. new = SubSeq(atoms, 1, at) \o Inserted(op) \o SubSeq(atoms, at + 1, Len(atoms))
    BY <1>2, <1>6, <2>1 DEF Edited, Inserted
  <2>4. new \in Seq(Atoms) /\ Widened(atoms, new, at, Len(op.text), op)
    BY <1>3, <1>4, <2>2, <2>3, InsertWidens DEF Lands
  <2>5. Unsplit(new)
    BY <1>3, <1>5, <2>2, <2>4, InsertKeepsUnsplit
  <2>6. ASSUME NEW i \in DOMAIN new, new[i].by # Base
        PROVE  \E j \in 1..n : j \in DOMAIN order /\ new[i].by = order[j]
    <3>1. new[i].by = op \/ \E k \in DOMAIN atoms : new[i].by = atoms[k].by
      BY <2>4, WidenedAuthor
    <3>2. CASE new[i].by = op
      BY <1>1, <1>3, <3>2
    <3>3. CASE \E k \in DOMAIN atoms : new[i].by = atoms[k].by
      BY <1>5, <2>6, <3>3
    <3>4. QED
      BY <3>1, <3>2, <3>3
  <2>7. QED
    BY <1>1, <1>2, <2>4, <2>5, <2>6 DEF Placed
<1>7. CASE op.kind # "insert"
  <2>1. PICK struck : new = Struck(atoms, op, struck)
    BY <1>2, <1>7 DEF Edited, Struck
  <2>2. new \in Seq(Atoms) /\ DOMAIN new = DOMAIN atoms
        /\ \A i \in DOMAIN atoms : new[i].by = atoms[i].by
    BY <1>3, <1>4, <2>1, StruckProps
  <2>3. Unsplit(new)
    BY <2>2 DEF Unsplit
  <2>4. Placed(new, order, n)
    BY <1>5, <2>2 DEF Placed
  <2>5. QED
    BY <1>1, <1>2, <2>3, <2>4
<1>8. QED
  BY <1>6, <1>7

\* What Resolved iterates: the atoms after each of the first N edits.
Iterated(f, N, atoms, edits, rank) ==
    f = [n \in 0..N |-> IF n = 0 THEN atoms ELSE Edited(f[n - 1], edits[n], rank)]

\* It exists.
LEMMA EditingIsDefined ==
  ASSUME NEW atoms, NEW edits, NEW rank
  PROVE  \A N \in Nat : \E f : Iterated(f, N, atoms, edits, rank)
<1> DEFINE One(a, n) == Edited(a, edits[n], rank)
           Iterates(f, N) == f = [n \in 0..N |-> IF n = 0 THEN atoms ELSE One(f[n - 1], n)]
           T == {N \in Nat : \E f : Iterates(f, N)}
<1> HIDE DEF One
<1>1. 0 \in T
  <2>1. Iterates([n \in 0..0 |-> atoms], 0)
    OBVIOUS
  <2>2. QED
    BY <2>1
<1>2. ASSUME NEW N \in Nat, N \in T PROVE N + 1 \in T
  <2>1. PICK f : Iterates(f, N)
    BY <1>2
  <2>2. PICK g : g = [n \in 0..(N + 1) |-> IF n = N + 1 THEN One(f[N], N + 1) ELSE f[n]]
    OBVIOUS
  <2>3. ASSUME NEW n \in 0..(N + 1)
        PROVE  g[n] = IF n = 0 THEN atoms ELSE One(g[n - 1], n)
    <3>1. CASE n = N + 1
      BY <2>2, <3>1
    <3>2. CASE n = 0
      BY <2>1, <2>2, <3>2
    <3>3. CASE n \in 1..N
      <4>1. g[n] = f[n] /\ g[n - 1] = f[n - 1] /\ n \in 0..N
        BY <2>2, <3>3
      <4>2. f[n] = One(f[n - 1], n)
        BY <2>1, <3>3, <4>1
      <4>3. QED
        BY <3>3, <4>1, <4>2
    <3>4. QED
      BY <3>1, <3>2, <3>3
  <2>4. Iterates(g, N + 1)
    BY <2>2, <2>3
  <2>5. QED
    BY <2>4
<1>3. \A N \in Nat : N \in T
  BY <1>1, <1>2, SetInduction
<1>4. QED
  BY <1>3 DEF One, Iterated

\* The base of a merge: no atom is an operation's.
LEMMA FreshProps ==
  ASSUME NEW text \in Texts, NEW order
  PROVE  Placed(Fresh(text), order, 0) /\ Unsplit(Fresh(text))
<1>1. text \in Seq(Labels) /\ DOMAIN text = 1..Len(text) /\ Len(text) \in Nat
      /\ \A i \in DOMAIN text : text[i] \in Labels
  BY DEF Texts
<1>2. DOMAIN Fresh(text) = 1..Len(text)
      /\ \A i \in DOMAIN text : Fresh(text)[i] \in Atoms /\ Fresh(text)[i].by = Base
  BY <1>1 DEF Fresh, Atoms
<1>3. Fresh(text) \in [1..Len(text) -> Atoms]
  BY <1>1, <1>2 DEF Fresh
<1>4. Fresh(text) \in Seq(Atoms)
  BY <1>1, <1>3
<1>5. \A i \in DOMAIN Fresh(text) : Fresh(text)[i].by = Base
  BY <1>1, <1>2
<1>6. QED
  BY <1>4, <1>5 DEF Placed, Unsplit

LEMMA BaseTextType == BaseText \in Texts
<1>1. \A i \in 1..BaseLength : <<0, 0, i>> \in Labels
  BY TextMergeAssumption DEF Labels
<1>2. BaseText \in [1..BaseLength -> Labels]
  BY <1>1 DEF BaseText
<1>3. QED
  BY <1>2, TextMergeAssumption DEF Texts

\* The last write of the whole run, if there is one, is among the operations.
LEMMA ResetProps ==
  ASSUME NEW set, NEW order, Linearizes(order, set)
  PROVE  ResetIn(order) \in 0..Len(order)
<1>1. DOMAIN order = 1..Len(order) /\ Len(order) \in Nat
  BY SequenceFacts DEF Linearizes
<1>2. PICK S : S = {0} \cup {i \in DOMAIN order : order[i].kind = "write"}
  OBVIOUS
<1>3. S \in SUBSET (0..Len(order)) /\ S \in SUBSET Nat /\ S # {}
  BY <1>1, <1>2
<1>4. IsFiniteSet(S)
  <2>1. IsFiniteSet(0..Len(order))
    BY <1>1, FS_Interval
  <2>2. QED
    BY <1>3, <2>1, FS_Subset
<1>5. Max(S) \in S
  BY <1>3, <1>4, MaxProps
<1>6. QED
  BY <1>2, <1>3, <1>5 DEF ResetIn

\* The operations from one place on.
LEMMA SuffixFacts ==
  ASSUME NEW s \in Seq(Operations), NEW r \in Nat, NEW m \in Nat, r + m = Len(s)
  PROVE  /\ Len(SubSeq(s, r + 1, Len(s))) = m
         /\ \A i \in 1..m :
                r + i \in DOMAIN s /\ SubSeq(s, r + 1, Len(s))[i] = s[r + i]
  OBVIOUS

\* What a replica makes of what it holds.
LEMMA MergeProps ==
  ASSUME NEW set, Orderable(set), Transitive(set), NEW atoms,
         \A order : Placed(atoms, order, 0) /\ Unsplit(atoms)
  PROVE  /\ Merge(atoms, set) \in Seq(Atoms)
         /\ \A i \in DOMAIN Merge(atoms, set) :
                Merge(atoms, set)[i].by = Base \/ Merge(atoms, set)[i].by \in set
         /\ Unsplit(Merge(atoms, set))
<1>1. PICK order : order = CausalOrder(set)
  OBVIOUS
<1>2. Linearizes(order, set) /\ set \subseteq Operations
  BY <1>1, CausalOrderProps DEF Orderable
<1>3. order \in Seq(set) /\ DOMAIN order = 1..Len(order) /\ Len(order) \in Nat
      /\ \A i \in DOMAIN order : order[i] \in set
  BY <1>2, SequenceFacts DEF Linearizes
<1>4. PICK r \in 0..Len(order) : r = ResetIn(order)
  BY <1>2, ResetProps
<1>5. PICK start : start = StartOf(atoms, order)
  OBVIOUS
<1>6. Placed(start, order, 0) /\ Unsplit(start)
  <2>1. CASE r = 0
    BY <1>4, <1>5, <2>1 DEF StartOf
  <2>2. CASE r # 0
    <3>1. order[r].text \in Texts
      BY <1>2, <1>3, <2>2, OperationFacts
    <3>2. QED
      BY <1>4, <1>5, <2>2, <3>1, FreshProps DEF StartOf
  <2>3. QED
    BY <2>1, <2>2
<1>7. PICK edits : edits = EditsAfter(order)
  OBVIOUS
<1>8. PICK M \in Nat : r + M = Len(order)
  <2>1. Len(order) - r \in Nat /\ r + (Len(order) - r) = Len(order)
    BY <1>3, <1>4
  <2>2. QED
    BY <2>1
<1>9. Len(edits) = M /\ \A i \in 1..M : r + i \in DOMAIN order /\ edits[i] = order[r + i]
  <2>1. order \in Seq(Operations) /\ r \in Nat
    BY <1>2, <1>3, <1>4
  <2>2. edits = SubSeq(order, r + 1, Len(order))
    BY <1>4, <1>7 DEF EditsAfter
  <2>3. QED
    BY <1>8, <2>1, <2>2, SuffixFacts
<1> DEFINE rank == RankIn(order)
<1> HIDE DEF rank
<1>10. PICK f : f = CHOOSE g : Iterated(g, M, start, edits, rank)
  OBVIOUS
<1>11. Iterated(f, M, start, edits, rank)
  BY <1>10, EditingIsDefined
<1>12. Merge(atoms, set) = f[M]
  BY <1>1, <1>5, <1>7, <1>9, <1>10 DEF Merge, Resolved, Iterated, rank
<1> DEFINE T == {n \in Nat : n <= M => Placed(f[n], order, r + n) /\ Unsplit(f[n])}
<1>13. 0 \in T
  <2>1. f[0] = start
    BY <1>11 DEF Iterated
  <2>2. Placed(start, order, r + 0)
    BY <1>6 DEF Placed
  <2>3. QED
    BY <1>6, <2>1, <2>2
<1>14. ASSUME NEW n \in Nat, n \in T PROVE n + 1 \in T
  <2>1. SUFFICES ASSUME n + 1 <= M
                 PROVE  Placed(f[n + 1], order, r + (n + 1)) /\ Unsplit(f[n + 1])
    OBVIOUS
  <2>2. PICK m : m = n + 1
    OBVIOUS
  <2>3. m \in 0..M /\ m \in 1..M /\ m # 0 /\ m - 1 = n /\ (r + m) - 1 = r + n /\ n <= M
    BY <1>4, <2>1, <2>2
  <2>4. f[m] = Edited(f[n], edits[m], RankIn(order))
    BY <1>11, <2>3 DEF Iterated, rank
  <2>5. r + m \in DOMAIN order /\ edits[m] = order[r + m]
    BY <1>9, <2>3
  <2>6. Placed(f[n], order, (r + m) - 1) /\ Unsplit(f[n])
    BY <1>14, <2>3
  <2>7. PICK k \in DOMAIN order : k = r + m
    BY <2>5
  <2>8. Placed(Edited(f[n], order[k], RankIn(order)), order, k)
        /\ Unsplit(Edited(f[n], order[k], RankIn(order)))
    BY <1>2, <2>6, <2>7, EditedProps
  <2>9. QED
    BY <2>2, <2>4, <2>5, <2>7, <2>8
<1>15. M \in T
  BY <1>13, <1>14, SetInduction
<1>16. Placed(f[M], order, r + M) /\ Unsplit(f[M])
  BY <1>15
<1>17. QED
  BY <1>3, <1>12, <1>16 DEF Placed

LEMMA MergedProps ==
  ASSUME NEW set, Orderable(set), Transitive(set)
  PROVE  /\ Merged(set) \in Seq(Atoms)
         /\ \A i \in DOMAIN Merged(set) : Merged(set)[i].by = Base \/ Merged(set)[i].by \in set
         /\ Unsplit(Merged(set))
  BY MergeProps, FreshProps, BaseTextType DEF Merged
-----------------------------------------------------------------------------
(* The inductive invariant.                                                *)

\* A context names what was minted.
ContextsExist ==
    \A x \in ops : \A b \in Actors :
        b # x.actor /\ x.seen[b] # 0 =>
            \E o \in ops : o.actor = b /\ o.seq = x.seen[b]

\* The operations and who holds them.
CausalOK ==
    /\ Orderable(ops) /\ Transitive(ops) /\ ContextsExist
    /\ known \in [Actors -> SUBSET ops]
    /\ \A a \in Actors : Closed(known[a]) /\ Own(a, ops) \subseteq known[a]

\* What a replica may undo and redo is its own, and a gesture that may go on has
\* begun a step.
OwnSteps(stack, own) ==
    stack \in Seq(Steps) /\ \A i \in DOMAIN stack : stack[i].ops \subseteq own

HistoryOK ==
    /\ history \in [Actors -> [undo : Seq(Steps), redo : Seq(Steps)]]
    /\ typing \in [Actors -> Typings]
    /\ \A a \in Actors :
           /\ typing[a] # "no" => history[a].undo # <<>>
           /\ OwnSteps(history[a].undo, Own(a, known[a]))
           /\ OwnSteps(history[a].redo, Own(a, known[a]))

IInv == CausalOK /\ HistoryOK
-----------------------------------------------------------------------------
(* Minting.                                                                *)

Kinds == [kind : {"insert", "delete", "write"}, from : Nat, to : Nat, text : Texts]

\* What a function makes of a finite set is finite.
LEMMA ImageFinite ==
  ASSUME NEW f, IsFiniteSet(DOMAIN f)
  PROVE  IsFiniteSet({f[x] : x \in DOMAIN f})
<1>1. PICK T : T = {f[x] : x \in DOMAIN f}
  OBVIOUS
<1>2. PICK g : g = [x \in DOMAIN f |-> f[x]]
  OBVIOUS
<1>3. g \in Surjection(DOMAIN f, T)
  BY <1>1, <1>2 DEF Surjection
<1>4. IsFiniteSet(T)
  BY <1>3, FS_Surjection
<1>5. QED
  BY <1>1, <1>4

\* The numbers, and the clocks, of operations have a greatest, or are none.
LEMMA GreatestNumber ==
  ASSUME NEW S \in SUBSET (Nat \ {0}), IsFiniteSet(S)
  PROVE  /\ Max({0} \cup S) \in Nat /\ \A s \in S : s <= Max({0} \cup S)
         /\ Max({0} \cup S) \in S \/ (Max({0} \cup S) = 0 /\ S = {})
<1>1. PICK Z : Z = {0} \cup S
  OBVIOUS
<1>2. Z \in SUBSET Nat /\ Z # {} /\ 0 \in Z
  BY <1>1
<1>3. IsFiniteSet(Z)
  BY <1>1, FS_AddElement
<1>4. Max(Z) \in Z /\ \A z \in Z : Max(Z) >= z
  BY <1>2, <1>3, MaxProps
<1>5. Max(Z) \in Nat /\ \A s \in S : s \in Nat /\ s # 0
  BY <1>2, <1>4
<1>6. Max(Z) \in S \/ Max(Z) = 0
  BY <1>1, <1>4
<1>7. Max(Z) = 0 => S = {}
  <2>1. ASSUME Max(Z) = 0, NEW s \in S PROVE FALSE
    <3>1. 0 >= s /\ s \in Nat /\ s # 0
      BY <1>1, <1>4, <1>5, <2>1
    <3>2. QED
      BY <3>1
  <2>2. QED
    BY <2>1
<1>8. \A s \in S : s <= Max(Z)
  BY <1>1, <1>4, <1>5
<1>9. QED
  BY <1>1, <1>5, <1>6, <1>7, <1>8

LEMMA HighestProps ==
  ASSUME NEW set, set \subseteq Operations, IsFiniteSet(set), NEW b
  PROVE  /\ Highest(set, b) \in Nat
         /\ \A o \in set : o.actor = b => o.seq <= Highest(set, b)
         /\ Highest(set, b) # 0 => \E o \in set : o.actor = b /\ o.seq = Highest(set, b)
<1>1. PICK S : S = {op.seq : op \in Own(b, set)}
  OBVIOUS
<1>2. S \in SUBSET (Nat \ {0}) /\ IsFiniteSet(S)
  <2>1. Own(b, set) \subseteq Operations /\ IsFiniteSet(Own(b, set))
    BY FS_Subset DEF Own
  <2>2. IsFiniteSet(S)
    <3>1. PICK f : f = [op \in Own(b, set) |-> op.seq]
      OBVIOUS
    <3>2. IsFiniteSet({f[x] : x \in DOMAIN f})
      BY <2>1, <3>1, ImageFinite
    <3>3. {f[x] : x \in DOMAIN f} = S
      BY <1>1, <3>1
    <3>4. QED
      BY <3>2, <3>3
  <2>3. QED
    BY <1>1, <2>1, <2>2 DEF Operations
<1>3. Highest(set, b) = Max({0} \cup S)
  BY <1>1 DEF Highest
<1>4. \A o \in set : o.actor = b => o.seq \in S
  BY <1>1 DEF Own
<1>5. \A s \in S : \E o \in set : o.actor = b /\ o.seq = s
  BY <1>1 DEF Own
<1>6. /\ Max({0} \cup S) \in Nat /\ \A s \in S : s <= Max({0} \cup S)
      /\ Max({0} \cup S) \in S \/ (Max({0} \cup S) = 0 /\ S = {})
  BY <1>2, GreatestNumber
<1>7. QED
  BY <1>3, <1>4, <1>5, <1>6

\* The Lamport clock of a replica.
Clock(set) == Max({0} \cup {op.lamport : op \in set})

LEMMA ClockProps ==
  ASSUME NEW set, set \subseteq Operations, IsFiniteSet(set)
  PROVE  /\ Clock(set) \in Nat
         /\ \A o \in set : o.lamport <= Clock(set)
         /\ Clock(set) # 0 => \E o \in set : o.lamport = Clock(set)
<1>1. PICK S : S = {op.lamport : op \in set}
  OBVIOUS
<1>2. S \in SUBSET (Nat \ {0}) /\ IsFiniteSet(S)
  <2>1. IsFiniteSet(S)
    <3>1. PICK f : f = [op \in set |-> op.lamport]
      OBVIOUS
    <3>2. IsFiniteSet({f[x] : x \in DOMAIN f})
      BY <3>1, ImageFinite
    <3>3. {f[x] : x \in DOMAIN f} = S
      BY <1>1, <3>1
    <3>4. QED
      BY <3>2, <3>3
  <2>2. QED
    BY <1>1, <2>1 DEF Operations
<1>3. Clock(set) = Max({0} \cup S)
  BY <1>1 DEF Clock
<1>4. /\ Max({0} \cup S) \in Nat /\ \A s \in S : s <= Max({0} \cup S)
      /\ Max({0} \cup S) \in S \/ (Max({0} \cup S) = 0 /\ S = {})
  BY <1>2, GreatestNumber
<1>5. (\A o \in set : o.lamport \in S) /\ \A s \in S : \E o \in set : o.lamport = s
  BY <1>1
<1>6. QED
  BY <1>3, <1>4, <1>5

\* An operation of replica a that observes what a holds and the k before it.
MintedAs(m, a, k, kind) ==
    /\ m.actor = a /\ m.seq = Highest(known[a], a) + k
    /\ m.lamport = Clock(known[a]) + k
    /\ m.seen = [b \in Actors |-> IF b = a THEN Highest(known[a], a) + k - 1
                                  ELSE Highest(known[a], b)]
    /\ m.kind = kind.kind /\ m.from = kind.from /\ m.to = kind.to /\ m.text = kind.text

\* What is known in general of what a replica holds.
LEMMA HeldFacts ==
  ASSUME CausalOK, NEW a \in Actors
  PROVE  /\ known[a] \subseteq ops /\ known[a] \subseteq Operations
         /\ ops \subseteq Operations /\ IsFiniteSet(ops) /\ Cardinality(ops) \in Nat
         /\ Orderable(known[a]) /\ Transitive(known[a])
<1>1. known[a] \subseteq ops /\ ops \subseteq Operations /\ IsFiniteSet(ops)
  BY DEF CausalOK, Orderable
<1>2. IsFiniteSet(known[a]) /\ Cardinality(ops) \in Nat
  BY <1>1, FS_Subset, FS_CardinalityType
<1>3. Distinct(known[a]) /\ Clocked(known[a]) /\ Transitive(known[a])
  BY <1>1 DEF CausalOK, Orderable, Distinct, Clocked, Transitive
<1>4. QED
  BY <1>1, <1>2, <1>3 DEF Orderable

\* The clock and the counters of a replica.
LEMMA CountsOfHeld ==
  ASSUME CausalOK, NEW a \in Actors
  PROVE  Clock(known[a]) \in Nat /\ \A b : Highest(known[a], b) \in Nat
<1>1. known[a] \subseteq Operations /\ IsFiniteSet(known[a])
  BY HeldFacts DEF Orderable
<1>2. QED
  BY <1>1, HighestProps, ClockProps

LEMMA MintedProps ==
  ASSUME CausalOK, NEW a \in Actors, NEW kinds \in Seq(Kinds)
  PROVE  /\ Minted(a, kinds) \in Seq(Operations)
         /\ DOMAIN Minted(a, kinds) = 1..Len(kinds) /\ Len(kinds) \in Nat
         /\ \A k \in 1..Len(kinds) : MintedAs(Minted(a, kinds)[k], a, k, kinds[k])
<1>1. DOMAIN kinds = 1..Len(kinds) /\ Len(kinds) \in Nat
      /\ \A k \in DOMAIN kinds : kinds[k] \in Kinds
  OBVIOUS
<1>2. PICK new : new = Minted(a, kinds)
  OBVIOUS
<1>3. DOMAIN new = 1..Len(kinds)
  BY <1>1, <1>2 DEF Minted
<1>4. \A k \in 1..Len(kinds) : MintedAs(new[k], a, k, kinds[k])
  BY <1>1, <1>2 DEF Minted, MintedAs, Clock
<1>5. ASSUME NEW k \in 1..Len(kinds) PROVE new[k] \in Operations
  <2>1. /\ Highest(known[a], a) + k \in Nat \ {0} /\ Clock(known[a]) + k \in Nat \ {0}
        /\ Highest(known[a], a) + k - 1 \in Nat
        /\ \A b \in Actors : Highest(known[a], b) \in Nat
    <3>1. PICK h \in Nat : h = Highest(known[a], a)
      BY CountsOfHeld
    <3>2. PICK c \in Nat : c = Clock(known[a])
      BY CountsOfHeld
    <3>3. h + k \in Nat \ {0} /\ c + k \in Nat \ {0} /\ h + k - 1 \in Nat
      BY <1>1
    <3>4. QED
      BY <3>1, <3>2, <3>3, CountsOfHeld
  <2>2. [b \in Actors |-> IF b = a THEN Highest(known[a], a) + k - 1
                          ELSE Highest(known[a], b)] \in [Actors -> Nat]
    BY <2>1
  <2>3. kinds[k] \in Kinds /\ k \in DOMAIN kinds
    BY <1>1
  <2>4. new[k] = [actor |-> a, seq |-> Highest(known[a], a) + k,
                  lamport |-> Clock(known[a]) + k,
                  seen |-> [b \in Actors |-> IF b = a THEN Highest(known[a], a) + k - 1
                                             ELSE Highest(known[a], b)],
                  kind |-> kinds[k].kind, from |-> kinds[k].from,
                  to |-> kinds[k].to, text |-> kinds[k].text]
    BY <1>2, <2>3 DEF Minted, Clock
  <2>5. QED
    BY <2>1, <2>2, <2>3, <2>4 DEF Operations, Kinds
<1>6. new \in [1..Len(kinds) -> Operations]
  <2>1. new = [k \in 1..Len(kinds) |-> new[k]]
    BY <1>1, <1>2, <1>3 DEF Minted
  <2>2. QED
    BY <1>3, <1>5, <2>1
<1>7. new \in Seq(Operations)
  BY <1>1, <1>6
<1>8. QED
  BY <1>1, <1>2, <1>3, <1>4, <1>7

\* What operations minted by replica a observe and are observed by: of those
\* there were, exactly what a holds; of each other, those before; and nobody
\* has observed them yet.
Anew(new, a, n) ==
    /\ new \in Seq(Operations) /\ n \in Nat /\ DOMAIN new = 1..n
    /\ \A i \in 1..n : /\ new[i].actor = a /\ new[i].seq = Highest(known[a], a) + i
                       /\ new[i].lamport = Clock(known[a]) + i
    /\ \A i \in 1..n : \A o \in ops : Observes(new[i], o) <=> o \in known[a]
    /\ \A i, j \in 1..n : Observes(new[i], new[j]) <=> j < i
    /\ \A i \in 1..n : \A o \in ops : ~Observes(o, new[i]) /\ o # new[i]
    /\ \A i \in 1..n : \A b \in Actors \ {a} :
           new[i].seen[b] # 0 => \E o \in ops : o.actor = b /\ o.seq = new[i].seen[b]

LEMMA MintedAnew ==
  ASSUME CausalOK, NEW a \in Actors, NEW kinds \in Seq(Kinds)
  PROVE  Anew(Minted(a, kinds), a, Len(kinds))
<1>1. PICK new \in Seq(Operations) : new = Minted(a, kinds)
  BY MintedProps
<1>2. PICK n \in Nat : n = Len(kinds) /\ DOMAIN new = 1..n
  BY <1>1, MintedProps
<1>3. \A i \in 1..n : MintedAs(new[i], a, i, kinds[i])
  BY <1>1, <1>2, MintedProps
<1>4. /\ known[a] \subseteq ops /\ known[a] \subseteq Operations /\ ops \subseteq Operations
      /\ Closed(known[a]) /\ Own(a, ops) \subseteq known[a] /\ Distinct(ops)
      /\ IsFiniteSet(known[a])
  BY HeldFacts DEF CausalOK, Orderable
<1>5. PICK h : h = Highest(known[a], a)
  OBVIOUS
<1>6. h \in Nat /\ (\A o \in ops : o.actor = a => o.seq <= h)
      /\ (h # 0 => \E o \in known[a] : o.actor = a /\ o.seq = h)
  BY <1>4, <1>5, HighestProps DEF Own
<1>7. \A i \in 1..n : /\ new[i].actor = a /\ new[i].seq = h + i
                      /\ new[i].lamport = Clock(known[a]) + i
                      /\ \A b \in Actors \ {a} : new[i].seen[b] = Highest(known[a], b)
  BY <1>3, <1>5 DEF MintedAs
<1>8. ASSUME NEW i \in 1..n, NEW o \in ops PROVE Observes(new[i], o) <=> o \in known[a]
  <2>1. o \in Operations /\ o.actor \in Actors /\ o.seq \in Nat /\ o.seq # 0
    BY <1>4, OperationFacts
  <2>2. CASE o.actor = a
    <3>1. o \in known[a] /\ o.seq <= h
      BY <1>4, <1>6, <2>2 DEF Own
    <3>2. o.seq < new[i].seq
      BY <1>6, <1>7, <2>1, <3>1
    <3>3. QED
      BY <1>7, <2>2, <3>1, <3>2 DEF Observes
  <2>3. CASE o.actor # a
    <3>1. PICK g : g = Highest(known[a], o.actor)
      OBVIOUS
    <3>2. Observes(new[i], o) <=> g >= o.seq
      BY <1>7, <2>1, <2>3, <3>1 DEF Observes
    <3>3. g \in Nat /\ (o \in known[a] => o.seq <= g)
          /\ (g # 0 => \E x \in known[a] : x.actor = o.actor /\ x.seq = g)
      BY <1>4, <3>1, HighestProps
    <3>4. ASSUME g >= o.seq PROVE o \in known[a]
      <4>1. PICK x \in known[a] : x.actor = o.actor /\ x.seq = g
        BY <2>1, <3>3, <3>4
      <4>2. CASE g = o.seq
        BY <1>4, <4>1, <4>2 DEF Distinct
      <4>3. CASE g > o.seq
        <5>1. Observes(x, o)
          BY <4>1, <4>3 DEF Observes
        <5>2. QED
          BY <1>4, <4>1, <5>1 DEF Closed
      <4>4. QED
        BY <2>1, <3>3, <3>4, <4>2, <4>3
    <3>5. QED
      BY <2>1, <3>2, <3>3, <3>4
  <2>4. QED
    BY <2>2, <2>3
<1>9. ASSUME NEW i \in 1..n, NEW j \in 1..n PROVE Observes(new[i], new[j]) <=> j < i
  BY <1>6, <1>7 DEF Observes
<1>10. ASSUME NEW i \in 1..n, NEW o \in ops PROVE ~Observes(o, new[i]) /\ o # new[i]
  <2>1. o \in Operations /\ o.actor \in Actors /\ o.seq \in Nat /\ o.seen \in [Actors -> Nat]
    BY <1>4, OperationFacts
  <2>2. new[i].actor = a /\ new[i].seq = h + i /\ i \in Nat /\ i # 0
    BY <1>7
  <2>3. CASE o.actor = a
    <3>1. o.seq <= h
      BY <1>6, <2>3
    <3>2. QED
      BY <1>6, <2>1, <2>2, <2>3, <3>1 DEF Observes
  <2>4. CASE o.actor # a
    <3>1. o.seen[a] = 0 \/ \E x \in ops : x.actor = a /\ x.seq = o.seen[a]
      BY <2>4 DEF CausalOK, ContextsExist
    <3>2. o.seen[a] <= h
      BY <1>6, <3>1
    <3>3. QED
      BY <1>6, <2>1, <2>2, <2>4, <3>2 DEF Observes
  <2>5. QED
    BY <2>3, <2>4
<1>11. ASSUME NEW i \in 1..n, NEW b \in Actors \ {a}, new[i].seen[b] # 0
       PROVE  \E o \in ops : o.actor = b /\ o.seq = new[i].seen[b]
  <2>1. new[i].seen[b] = Highest(known[a], b)
    BY <1>7
  <2>2. PICK g : g = Highest(known[a], b)
    OBVIOUS
  <2>3. g # 0 => \E o \in known[a] : o.actor = b /\ o.seq = g
    BY <1>4, <2>2, HighestProps
  <2>4. QED
    BY <1>4, <1>11, <2>1, <2>2, <2>3
<1>12. Anew(new, a, n)
  BY <1>2, <1>5, <1>7, <1>8, <1>9, <1>10, <1>11 DEF Anew
<1>13. QED
  BY <1>1, <1>2, <1>12

\* A sequence of newcomers leaves a set finite.
LEMMA NewcomersFinite ==
  ASSUME NEW set, IsFiniteSet(set), NEW new, NEW n \in Nat, DOMAIN new = 1..n
  PROVE  IsFiniteSet(set \cup Range(new))
<1>1. IsFiniteSet(1..n)
  BY FS_Interval
<1>2. IsFiniteSet({new[i] : i \in DOMAIN new})
  BY <1>1, ImageFinite
<1>3. QED
  BY <1>2, FS_Union DEF Range

\* What minting a sequence of operations makes of the state.
MintedBy(new, a) ==
    /\ ops' = ops \cup Range(new)
    /\ known' = [known EXCEPT ![a] = @ \cup Range(new)]

\* With what is minted, the operations are as well ordered as without.
LEMMA AddedInOrder ==
  ASSUME CausalOK, NEW a \in Actors, NEW new, NEW n, Anew(new, a, n),
         NEW more, more = ops \cup Range(new)
  PROVE  /\ Orderable(more) /\ Transitive(more)
<1>1. /\ ops \subseteq Operations /\ IsFiniteSet(ops) /\ Distinct(ops) /\ Clocked(ops)
      /\ Transitive(ops) /\ known[a] \subseteq ops /\ Closed(known[a])
      /\ known[a] \subseteq Operations
  BY HeldFacts DEF CausalOK, Orderable
<1>2. /\ new \in Seq(Operations) /\ n \in Nat /\ DOMAIN new = 1..n
      /\ \A i \in 1..n : new[i].actor = a /\ new[i].seq = Highest(known[a], a) + i
      /\ \A i \in 1..n : new[i].lamport = Clock(known[a]) + i
  BY DEF Anew
<1>3. Clock(known[a]) \in Nat /\ Highest(known[a], a) \in Nat
  BY CountsOfHeld
<1>4. \A i, j \in 1..n : new[i].seq = new[j].seq => i = j
  BY <1>2, <1>3
<1>5. IsFiniteSet(known[a])
  BY HeldFacts DEF Orderable
<1>6. IsFiniteSet(ops \cup Range(new))
  BY <1>1, <1>2, NewcomersFinite
<1>7. more = ops \cup {new[i] : i \in 1..n} /\ \A i \in 1..n : new[i] \in Operations
  <2>1. \A i \in 1..n : new[i] \in Operations
    BY <1>2
  <2>2. QED
    BY <1>2, <2>1 DEF Range
<1>8. /\ \A i \in 1..n : \A o \in ops : Observes(new[i], o) <=> o \in known[a]
      /\ \A i, j \in 1..n : Observes(new[i], new[j]) <=> j < i
      /\ \A i \in 1..n : \A o \in ops : ~Observes(o, new[i])
  BY DEF Anew
<1>9. Distinct(more)
  <2>1. \A i \in 1..n : \A o \in ops : ~(o.actor = a /\ o.seq = new[i].seq)
    <3>1. ASSUME NEW i \in 1..n, NEW o \in ops, o.actor = a, o.seq = new[i].seq PROVE FALSE
      <4>1. o \in known[a]
        BY <3>1 DEF CausalOK, Own
      <4>2. Observes(new[i], o)
        BY <1>8, <4>1
      <4>3. o.seq < new[i].seq
        BY <1>2, <3>1, <4>2 DEF Observes
      <4>4. o.seq \in Nat
        BY <1>1, OperationFacts
      <4>5. QED
        BY <3>1, <4>3, <4>4
    <3>2. QED
      BY <3>1
  <2>2. ASSUME NEW x \in more, NEW y \in more, x.actor = y.actor, x.seq = y.seq
        PROVE  x = y
    <3>1. CASE x \in ops /\ y \in ops
      BY <1>1, <2>2, <3>1 DEF Distinct
    <3>2. CASE x \in ops /\ y \notin ops
      BY <1>2, <1>7, <2>1, <2>2, <3>2
    <3>3. CASE x \notin ops /\ y \in ops
      BY <1>2, <1>7, <2>1, <2>2, <3>3
    <3>4. CASE x \notin ops /\ y \notin ops
      BY <1>4, <1>7, <2>2, <3>4
    <3>5. QED
      BY <3>1, <3>2, <3>3, <3>4
  <2>3. QED
    BY <2>2 DEF Distinct
<1>10. Clocked(more)
  <2>1. ASSUME NEW x \in more, NEW y \in more, Observes(x, y)
        PROVE  y.lamport < x.lamport
    <3>1. CASE x \in ops /\ y \in ops
      BY <1>1, <2>1, <3>1 DEF Clocked
    <3>2. CASE x \in ops /\ y \notin ops
      BY <1>7, <1>8, <2>1, <3>2
    <3>3. CASE x \notin ops /\ y \in ops
      <4>1. PICK i \in 1..n : x = new[i]
        BY <1>7, <3>3
      <4>2. y \in known[a] /\ y.lamport \in Nat
        BY <1>1, <1>8, <2>1, <3>3, <4>1, OperationFacts
      <4>3. y.lamport <= Clock(known[a])
        BY <1>1, <1>5, <4>2, ClockProps
      <4>4. QED
        BY <1>2, <1>3, <4>1, <4>2, <4>3
    <3>4. CASE x \notin ops /\ y \notin ops
      <4>1. PICK i \in 1..n, j \in 1..n : x = new[i] /\ y = new[j]
        BY <1>7, <3>4
      <4>2. j < i
        BY <1>8, <2>1, <4>1
      <4>3. QED
        BY <1>2, <1>3, <4>1, <4>2
    <3>5. QED
      BY <3>1, <3>2, <3>3, <3>4
  <2>2. QED
    BY <2>1 DEF Clocked
<1>11. Transitive(more)
  <2>1. ASSUME NEW x \in more, NEW y \in more, NEW z \in more,
               Observes(x, y), Observes(y, z)
        PROVE  Observes(x, z)
    <3>1. CASE x \in ops
      <4>1. y \in ops /\ z \in ops
        BY <1>7, <1>8, <2>1, <3>1
      <4>2. QED
        BY <1>1, <2>1, <3>1, <4>1 DEF Transitive
    <3>2. CASE x \notin ops /\ y \in ops
      <4>1. PICK i \in 1..n : x = new[i]
        BY <1>7, <3>2
      <4>2. y \in known[a] /\ z \in ops
        BY <1>7, <1>8, <2>1, <3>2, <4>1
      <4>3. z \in known[a]
        BY <1>1, <2>1, <4>2 DEF Closed
      <4>4. QED
        BY <1>8, <4>1, <4>2, <4>3
    <3>3. CASE x \notin ops /\ y \notin ops /\ z \in ops
      BY <1>7, <1>8, <2>1, <3>3
    <3>4. CASE x \notin ops /\ y \notin ops /\ z \notin ops
      <4>1. PICK i \in 1..n, j \in 1..n, k \in 1..n : x = new[i] /\ y = new[j] /\ z = new[k]
        BY <1>7, <3>4
      <4>2. j < i /\ k < j
        BY <1>8, <2>1, <4>1
      <4>3. k < i
        BY <4>2
      <4>4. QED
        BY <1>8, <4>1, <4>3
    <3>5. QED
      BY <3>1, <3>2, <3>3, <3>4
  <2>2. QED
    BY <2>1 DEF Transitive
<1>12. Orderable(more)
  BY <1>1, <1>6, <1>7, <1>9, <1>10 DEF Orderable
<1>13. QED
  BY <1>11, <1>12

LEMMA MintKeepsCausal ==
  ASSUME CausalOK, NEW a \in Actors, NEW new, NEW n, Anew(new, a, n),
         MintedBy(new, a)
  PROVE  CausalOK'
<1>1. Orderable(ops') /\ Transitive(ops')
  <2>1. PICK more : more = ops \cup Range(new)
    OBVIOUS
  <2>2. Orderable(more) /\ Transitive(more)
    BY <2>1, AddedInOrder
  <2>3. more = ops'
    BY <2>1 DEF MintedBy
  <2>4. QED
    BY <2>2, <2>3 DEF Orderable, Distinct, Clocked, Transitive
<1>2. ops' = ops \cup {new[i] : i \in 1..n} /\ Range(new) = {new[i] : i \in 1..n}
  BY DEF MintedBy, Anew, Range
<1>3. known \in [Actors -> SUBSET ops] /\ ContextsExist
      /\ \A b \in Actors : Closed(known[b]) /\ Own(b, ops) \subseteq known[b]
  BY DEF CausalOK
<1>4. /\ known'[a] = known[a] \cup Range(new) /\ known' \in [Actors -> SUBSET ops']
      /\ \A b \in Actors \ {a} : known'[b] = known[b]
  BY <1>2, <1>3 DEF MintedBy
<1>5. /\ \A i \in 1..n : new[i].actor = a
      /\ \A i \in 1..n : \A o \in ops : Observes(new[i], o) <=> o \in known[a]
      /\ \A i, j \in 1..n : Observes(new[i], new[j]) <=> j < i
      /\ \A i \in 1..n : \A o \in ops : ~Observes(o, new[i])
      /\ \A i \in 1..n : \A b \in Actors \ {a} :
             new[i].seen[b] # 0 => \E o \in ops : o.actor = b /\ o.seq = new[i].seen[b]
  BY DEF Anew
<1>6. ContextsExist'
  <2>1. ASSUME NEW x \in ops', NEW b \in Actors, b # x.actor, x.seen[b] # 0
        PROVE  \E o \in ops' : o.actor = b /\ o.seq = x.seen[b]
    <3>1. CASE x \in ops
      BY <1>2, <1>3, <2>1, <3>1 DEF ContextsExist
    <3>2. CASE x \notin ops
      BY <1>2, <1>5, <2>1, <3>2
    <3>3. QED
      BY <3>1, <3>2
  <2>2. QED
    BY <2>1 DEF ContextsExist
<1>7. ASSUME NEW b \in Actors PROVE Closed(known[b])' /\ Own(b, ops') \subseteq known'[b]
  <2>1. ASSUME NEW x \in known'[b], NEW o \in ops', Observes(x, o) PROVE o \in known'[b]
    <3>1. CASE x \in ops
      <4>1. o \in ops
        BY <1>2, <1>5, <2>1, <3>1
      <4>2. x \in known[b]
        <5>1. CASE b # a
          BY <1>4, <2>1, <5>1
        <5>2. CASE b = a
          <6>1. \A i \in 1..n : new[i] \notin ops
            BY DEF Anew
          <6>2. QED
            BY <1>2, <1>4, <2>1, <3>1, <5>2, <6>1
        <5>3. QED
          BY <5>1, <5>2
      <4>3. o \in known[b]
        BY <1>3, <2>1, <4>1, <4>2 DEF Closed
      <4>4. QED
        BY <1>4, <4>3
    <3>2. CASE x \notin ops
      <4>1. b = a /\ \E i \in 1..n : x = new[i]
        BY <1>2, <1>3, <1>4, <2>1, <3>2
      <4>2. QED
        BY <1>2, <1>4, <1>5, <2>1, <4>1
    <3>3. QED
      BY <3>1, <3>2
  <2>2. Own(b, ops') \subseteq known'[b]
    BY <1>2, <1>3, <1>4, <1>5 DEF Own
  <2>3. QED
    BY <2>1, <2>2 DEF Closed
<1>8. QED
  BY <1>1, <1>4, <1>6, <1>7 DEF CausalOK

\* Delivering what comes next keeps what is known causally closed.
LEMMA DeliverKeepsCausal ==
  ASSUME CausalOK, NEW a \in Actors, NEW op \in ops, Deliver(a, op)
  PROVE  CausalOK'
<1>1. /\ known \in [Actors -> SUBSET ops] /\ ContextsExist
      /\ Orderable(ops) /\ Transitive(ops)
      /\ \A b \in Actors : Closed(known[b]) /\ Own(b, ops) \subseteq known[b]
  BY DEF CausalOK
<1>2. /\ ops' = ops /\ known' = [known EXCEPT ![a] = @ \cup {op}]
      /\ \A o \in ops : Observes(op, o) => o \in known[a]
  BY DEF Deliver
<1>3. /\ known'[a] = known[a] \cup {op} /\ known' \in [Actors -> SUBSET ops]
      /\ \A b \in Actors \ {a} : known'[b] = known[b]
  BY <1>1, <1>2
<1>4. ContextsExist'
  BY <1>1, <1>2 DEF ContextsExist
<1>5. ASSUME NEW b \in Actors PROVE Closed(known[b])' /\ Own(b, ops') \subseteq known'[b]
  <2>1. ASSUME NEW x \in known'[b], NEW o \in ops, Observes(x, o) PROVE o \in known'[b]
    <3>1. CASE x \in known[b]
      BY <1>1, <1>3, <2>1, <3>1 DEF Closed
    <3>2. CASE x \notin known[b]
      BY <1>2, <1>3, <2>1, <3>2
    <3>3. QED
      BY <3>1, <3>2
  <2>2. Own(b, ops') \subseteq known'[b]
    BY <1>1, <1>2, <1>3 DEF Own
  <2>3. QED
    BY <1>2, <2>1, <2>2 DEF Closed
<1>6. QED
  BY <1>1, <1>2, <1>3, <1>4, <1>5 DEF CausalOK
-----------------------------------------------------------------------------
(* What is minted: the kinds of a gesture, of a write and of an undo.      *)

\* The live atoms, and their labels.
LEMMA LiveProps ==
  ASSUME NEW atoms \in Seq(Atoms)
  PROVE  Live(atoms) \in Seq(Atoms) /\ TextOf(atoms) \in Texts
<1>1. PICK S : S = {i \in DOMAIN atoms : Alive(atoms[i])}
  OBVIOUS
<1>2. S \in SUBSET Nat /\ IsFiniteSet(S) /\ \A i \in S : atoms[i] \in Atoms
  <2>1. DOMAIN atoms = 1..Len(atoms) /\ Len(atoms) \in Nat
        /\ \A i \in DOMAIN atoms : atoms[i] \in Atoms
    OBVIOUS
  <2>2. IsFiniteSet(DOMAIN atoms)
    BY PositionsFinite
  <2>3. QED
    BY <1>1, <2>1, <2>2, FS_Subset
<1>3. PICK n \in Nat : n = Cardinality(S) /\ Ascending(S) \in [1..n -> S]
  BY <1>2, AscendingProps
<1>4. PICK live : live = Live(atoms)
  OBVIOUS
<1>5. live = [i \in 1..n |-> atoms[Ascending(S)[i]]]
  BY <1>1, <1>3, <1>4 DEF Live
<1>6. live \in [1..n -> Atoms]
  BY <1>2, <1>3, <1>5
<1>7. live \in Seq(Atoms) /\ DOMAIN live = 1..n /\ \A i \in 1..n : live[i].label \in Labels
  <2>1. \A i \in 1..n : live[i].label \in Labels
    BY <1>6 DEF Atoms
  <2>2. QED
    BY <1>6, <2>1
<1>8. TextOf(atoms) = [i \in 1..n |-> live[i].label]
  BY <1>4, <1>7 DEF TextOf
<1>9. TextOf(atoms) \in [1..n -> Labels]
  BY <1>7, <1>8
<1>10. QED
  BY <1>4, <1>7, <1>9 DEF Texts

\* Numbers before and in the text of atoms.
LEMMA CountProps ==
  ASSUME NEW atoms \in Seq(Atoms), NEW targets
  PROVE  /\ \A i \in DOMAIN atoms : LiveBefore(atoms, i) \in 0..Len(atoms)
         /\ \A g \in Nat : Kept(atoms, targets, g) \in Nat
<1>1. DOMAIN atoms = 1..Len(atoms) /\ Len(atoms) \in Nat
  OBVIOUS
<1>2. ASSUME NEW i \in DOMAIN atoms PROVE LiveBefore(atoms, i) \in 0..Len(atoms)
  <2>1. PICK S : S = {j \in 1..(i - 1) : Alive(atoms[j])}
    OBVIOUS
  <2>2. S \in SUBSET (1..Len(atoms))
    BY <1>1, <2>1
  <2>3. IsFiniteSet(1..Len(atoms)) /\ Cardinality(1..Len(atoms)) = Len(atoms)
    <3>1. PICK m \in Nat : m = Len(atoms)
      BY <1>1
    <3>2. IsFiniteSet(1..m) /\ Cardinality(1..m) = m
      BY FS_Interval
    <3>3. QED
      BY <3>1, <3>2
  <2>4. IsFiniteSet(S) /\ Cardinality(S) <= Len(atoms)
    BY <2>2, <2>3, FS_Subset
  <2>5. Cardinality(S) \in Nat
    BY <2>4, FS_CardinalityType
  <2>6. QED
    BY <1>1, <2>1, <2>4, <2>5 DEF LiveBefore
<1>3. ASSUME NEW g \in Nat PROVE Kept(atoms, targets, g) \in Nat
  <2>1. PICK S : S = {i \in 1..g : Live(atoms)[i].by \notin targets}
    OBVIOUS
  <2>2. IsFiniteSet(1..g) /\ S \in SUBSET (1..g)
    BY <2>1, FS_Interval
  <2>3. IsFiniteSet(S)
    BY <2>2, FS_Subset
  <2>4. Cardinality(S) \in Nat
    BY <2>3, FS_CardinalityType
  <2>5. QED
    BY <2>1, <2>4 DEF Kept
<1>4. QED
  BY <1>2, <1>3

LEMMA LostTextType ==
  ASSUME NEW atoms \in Seq(Atoms), NEW targets, NEW g
  PROVE  LostText(atoms, targets, g) \in Texts
<1>1. PICK S : S = {i \in DOMAIN atoms :
                      LostTo(atoms[i], targets) /\ LiveBefore(atoms, i) = g}
  OBVIOUS
<1>2. S \in SUBSET Nat /\ IsFiniteSet(S) /\ \A i \in S : atoms[i].label \in Labels
  <2>1. DOMAIN atoms = 1..Len(atoms) /\ Len(atoms) \in Nat
        /\ \A i \in DOMAIN atoms : atoms[i] \in Atoms
    OBVIOUS
  <2>2. IsFiniteSet(DOMAIN atoms)
    BY PositionsFinite
  <2>3. \A i \in DOMAIN atoms : atoms[i].label \in Labels
    BY <2>1 DEF Atoms
  <2>4. QED
    BY <1>1, <2>1, <2>2, <2>3, FS_Subset
<1>3. PICK n \in Nat : n = Cardinality(S) /\ Ascending(S) \in [1..n -> S]
  BY <1>2, AscendingProps
<1>4. LostText(atoms, targets, g) = [i \in 1..n |-> atoms[Ascending(S)[i]].label]
  BY <1>1, <1>3 DEF LostText
<1>5. LostText(atoms, targets, g) \in [1..n -> Labels]
  BY <1>2, <1>3, <1>4
<1>6. QED
  BY <1>5 DEF Texts

\* The ranges of an undo: each has a start of its own.
LEMMA RangesProps ==
  ASSUME NEW atoms \in Seq(Atoms), NEW targets
  PROVE  /\ OwnRanges(atoms, targets) \subseteq Nat \X Nat
         /\ IsFiniteSet(OwnRanges(atoms, targets))
         /\ \A r, s \in OwnRanges(atoms, targets) : r[1] = s[1] => r = s
<1>1. PICK live \in Seq(Atoms) : live = Live(atoms)
  BY LiveProps
<1>2. PICK N \in Nat : N = Len(live)
  BY <1>1
<1> DEFINE ours(i) == i \in DOMAIN live /\ live[i].by \in targets
<1>3. \A r \in OwnRanges(atoms, targets) :
          /\ r \in (0..N) \X (0..N) /\ r[1] < r[2] /\ ~ours(r[2] + 1)
          /\ \A i \in (r[1] + 1)..r[2] : ours(i)
  BY <1>1, <1>2 DEF OwnRanges
<1> HIDE DEF ours
<1>4. IsFiniteSet(OwnRanges(atoms, targets))
  <2>1. IsFiniteSet(0..N)
    BY FS_Interval
  <2>2. IsFiniteSet((0..N) \X (0..N))
    BY <2>1, FS_Product
  <2>3. OwnRanges(atoms, targets) \in SUBSET ((0..N) \X (0..N))
    BY <1>3
  <2>4. QED
    BY <2>2, <2>3, FS_Subset
<1>5. ASSUME NEW r \in OwnRanges(atoms, targets), NEW s \in OwnRanges(atoms, targets),
             r[1] = s[1], r[2] < s[2]
      PROVE  FALSE
  <2>1. r[2] + 1 \in (s[1] + 1)..s[2]
    BY <1>3, <1>5
  <2>2. QED
    BY <1>3, <2>1
<1>6. ASSUME NEW r \in OwnRanges(atoms, targets), NEW s \in OwnRanges(atoms, targets),
             r[1] = s[1]
      PROVE  r = s
  <2>1. ~(r[2] < s[2]) /\ ~(s[2] < r[2])
    BY <1>5, <1>6
  <2>2. r \in (0..N) \X (0..N) /\ s \in (0..N) \X (0..N)
    BY <1>3
  <2>3. QED
    BY <1>6, <2>1, <2>2
<1>7. OwnRanges(atoms, targets) \subseteq Nat \X Nat
  BY <1>3
<1>8. QED
  BY <1>4, <1>6, <1>7

LEMMA LastFirstProps ==
  ASSUME NEW S \in SUBSET (Nat \X Nat), IsFiniteSet(S),
         \A r, s \in S : r[1] = s[1] => r = s
  PROVE  Cardinality(S) \in Nat /\ LastFirst(S) \in [1..Cardinality(S) -> S]
<1>1. PICK R : R = {p \in S \X S : p[1][1] > p[2][1]}
  OBVIOUS
<1>2. \A x, y \in S : <<x, y>> \in R <=> x[1] > y[1]
  BY <1>1
<1>3. \A x \in S : x[1] \in Nat
  OBVIOUS
<1>4. /\ \A x \in S : <<x, x>> \notin R
      /\ \A x, y \in S : x = y \/ <<x, y>> \in R \/ <<y, x>> \in R
      /\ \A x, y, z \in S : <<x, y>> \in R /\ <<y, z>> \in R => <<x, z>> \in R
  BY <1>2, <1>3
<1>5. \A x \in S : Below(S, R, x) = {y \in S : y[1] > x[1]}
  BY <1>2 DEF Below
<1>6. ASSUME NEW n \in 1..Cardinality(S)
      PROVE  \E x \in S : Cardinality(Below(S, R, x)) = n - 1
  BY <1>4, EveryPlaceIsTaken
<1>7. \A n \in 1..Cardinality(S) :
          \E x \in S : Cardinality({y \in S : y[1] > x[1]}) = n - 1
  BY <1>5, <1>6
<1>8. \A n \in 1..Cardinality(S) : LastFirst(S)[n] \in S
  BY <1>7 DEF LastFirst, InOrder
<1>9. QED
  BY <1>8, FS_CardinalityType DEF LastFirst, InOrder

LEMMA GapsBackwardsProps ==
  ASSUME NEW atoms \in Seq(Atoms), NEW targets
  PROVE  \E n \in Nat : GapsBackwards(atoms, targets) \in [1..n -> Nat]
<1>1. PICK S : S = Gaps(atoms, targets)
  OBVIOUS
<1>2. S \in SUBSET (0..Len(atoms)) /\ Len(atoms) \in Nat
  <2>1. \A i \in DOMAIN atoms : LiveBefore(atoms, i) \in 0..Len(atoms)
    BY CountProps
  <2>2. QED
    BY <1>1, <2>1 DEF Gaps
<1>3. S \in SUBSET Nat /\ IsFiniteSet(S)
  <2>1. PICK I : I = 0..Len(atoms)
    OBVIOUS
  <2>2. IsFiniteSet(I) /\ S \in SUBSET I /\ I \subseteq Nat
    BY <1>2, <2>1, FS_Interval
  <2>3. QED
    BY <2>2, FS_Subset
<1> DEFINE k(g) == Kept(atoms, targets, g)
           before(g, h) == k(g) > k(h) \/ (k(g) = k(h) /\ g < h)
<1>4. PICK R : R = {p \in S \X S : before(p[1], p[2])}
  OBVIOUS
<1>5. \A x, y \in S : <<x, y>> \in R <=> before(x, y)
  BY <1>4
<1>6. \A x \in S : x \in Nat /\ k(x) \in Nat
  BY <1>3, CountProps
<1>7. /\ \A x \in S : ~before(x, x)
      /\ \A x, y \in S : x = y \/ before(x, y) \/ before(y, x)
      /\ \A x, y, z \in S : before(x, y) /\ before(y, z) => before(x, z)
  <2> HIDE DEF k
  <2> QED
    BY <1>6
<1>8. /\ \A x \in S : <<x, x>> \notin R
      /\ \A x, y \in S : x = y \/ <<x, y>> \in R \/ <<y, x>> \in R
      /\ \A x, y, z \in S : <<x, y>> \in R /\ <<y, z>> \in R => <<x, z>> \in R
  <2> HIDE DEF before
  <2> QED
    BY <1>5, <1>7
<1>9. \A x \in S : Below(S, R, x) = {y \in S : before(y, x)}
  <2> HIDE DEF before
  <2> QED
    BY <1>5 DEF Below
<1>10. ASSUME NEW n \in 1..Cardinality(S)
       PROVE  \E x \in S : Cardinality(Below(S, R, x)) = n - 1
  BY <1>3, <1>8, EveryPlaceIsTaken
<1>11. \A n \in 1..Cardinality(S) :
          \E x \in S : Cardinality({y \in S : before(y, x)}) = n - 1
  <2> HIDE DEF before
  <2> QED
    BY <1>9, <1>10
<1>12. GapsBackwards(atoms, targets) = [n \in 1..Cardinality(S) |->
          CHOOSE x \in S : Cardinality({y \in S : before(y, x)}) = n - 1]
  BY <1>1 DEF GapsBackwards, InOrder
<1> HIDE DEF before
<1>13. GapsBackwards(atoms, targets) \in [1..Cardinality(S) -> S]
  BY <1>11, <1>12
<1>14. Cardinality(S) \in Nat
  BY <1>3, FS_CardinalityType
<1>15. QED
  BY <1>3, <1>13, <1>14

LEMMA KindsConcatenate ==
  ASSUME NEW s \in Seq(Kinds), NEW t \in Seq(Kinds)
  PROVE  s \o t \in Seq(Kinds)
  OBVIOUS

LEMMA NoText == <<>> \in Texts
  BY DEF Texts

LEMMA InvertedProps ==
  ASSUME NEW set, Merged(set) \in Seq(Atoms), NEW targets
  PROVE  Inverted(set, targets) \in Seq(Kinds)
<1>1. PICK atoms \in Seq(Atoms) : atoms = Merged(set)
  OBVIOUS
<1>2. PICK S : S = OwnRanges(atoms, targets)
  OBVIOUS
<1>3. S \in SUBSET (Nat \X Nat) /\ IsFiniteSet(S) /\ \A r, s \in S : r[1] = s[1] => r = s
  BY <1>2, RangesProps
<1>4. PICK n \in Nat : LastFirst(S) \in [1..n -> S]
  BY <1>3, LastFirstProps
<1>5. PICK m \in Nat : GapsBackwards(atoms, targets) \in [1..m -> Nat]
  BY GapsBackwardsProps
<1>6. PICK deletes : deletes = LastFirst(S)
  OBVIOUS
<1>7. PICK gaps : gaps = GapsBackwards(atoms, targets)
  OBVIOUS
<1>8. PICK d : d = [i \in 1..n |-> Kind("delete", deletes[i][1], deletes[i][2], <<>>)]
  OBVIOUS
<1>9. PICK g : g = [i \in 1..m |-> Kind("insert", Kept(atoms, targets, gaps[i]), 0,
                                        LostText(atoms, targets, gaps[i]))]
  OBVIOUS
<1>10. d \in Seq(Kinds)
  <2>1. \A i \in 1..n : deletes[i][1] \in Nat /\ deletes[i][2] \in Nat
    BY <1>3, <1>4, <1>6
  <2>2. \A i \in 1..n : Kind("delete", deletes[i][1], deletes[i][2], <<>>) \in Kinds
    BY <2>1, NoText DEF Kind, Kinds
  <2>3. d \in [1..n -> Kinds]
    BY <1>8, <2>2
  <2>4. QED
    BY <2>3
<1>11. g \in Seq(Kinds)
  <2>1. \A i \in 1..m : Kept(atoms, targets, gaps[i]) \in Nat
    BY <1>5, <1>7, CountProps
  <2>2. \A i \in 1..m : LostText(atoms, targets, gaps[i]) \in Texts
    BY LostTextType
  <2>3. \A i \in 1..m : Kind("insert", Kept(atoms, targets, gaps[i]), 0,
                             LostText(atoms, targets, gaps[i])) \in Kinds
    BY <2>1, <2>2 DEF Kind, Kinds
  <2>4. g \in [1..m -> Kinds]
    BY <1>9, <2>3
  <2>5. QED
    BY <2>4
<1>12. Inverted(set, targets) = d \o g
  <2>1. DOMAIN deletes = 1..n /\ DOMAIN gaps = 1..m
    BY <1>4, <1>5, <1>6, <1>7
  <2>2. QED
    BY <1>1, <1>2, <1>6, <1>7, <1>8, <1>9, <2>1 DEF Inverted
<1>13. QED
  BY <1>10, <1>11, <1>12, KindsConcatenate
-----------------------------------------------------------------------------
(* Undo and redo stacks.                                                   *)

LEMMA StackKept ==
  ASSUME NEW h, NEW own, NEW more, OwnSteps(h, own), own \subseteq more
  PROVE  OwnSteps(h, more)
  BY DEF OwnSteps

LEMMA EmptyStack ==
  ASSUME NEW own
  PROVE  OwnSteps(<<>>, own)
  BY DEF OwnSteps

LEMMA StepAppended ==
  ASSUME NEW h \in Seq(Steps), NEW step \in Steps
  PROVE  /\ Append(h, step) \in Seq(Steps) /\ Append(h, step) # <<>>
         /\ \A i \in DOMAIN Append(h, step) :
                \/ i \in DOMAIN h /\ Append(h, step)[i] = h[i]
                \/ Append(h, step)[i] = step
  OBVIOUS

LEMMA StackAppend ==
  ASSUME NEW h, NEW own, NEW more, OwnSteps(h, own), own \subseteq more,
         NEW step \in Steps, step.ops \subseteq more
  PROVE  OwnSteps(Append(h, step), more) /\ Append(h, step) # <<>>
<1>1. h \in Seq(Steps)
  BY DEF OwnSteps
<1>2. QED
  BY <1>1, StepAppended DEF OwnSteps

LEMMA StepTaken ==
  ASSUME NEW h \in Seq(Steps), h # <<>>
  PROVE  /\ Front(h) \in Seq(Steps) /\ Last(h) \in Steps
         /\ Len(h) \in DOMAIN h /\ Last(h) = h[Len(h)]
         /\ \A i \in DOMAIN Front(h) : i \in DOMAIN h /\ Front(h)[i] = h[i]
  BY DEF Front, Last

LEMMA StackFront ==
  ASSUME NEW h, NEW own, NEW more, OwnSteps(h, own), own \subseteq more, h # <<>>
  PROVE  OwnSteps(Front(h), more) /\ Last(h) \in Steps
<1>1. h \in Seq(Steps)
  BY DEF OwnSteps
<1>2. QED
  BY <1>1, StepTaken DEF OwnSteps

LEMMA StackExtend ==
  ASSUME NEW h, NEW own, NEW more, OwnSteps(h, own), own \subseteq more, h # <<>>,
         NEW new, new \subseteq Operations, new \subseteq more
  PROVE  OwnSteps(Extended(h, new), more) /\ Extended(h, new) # <<>>
<1>1. h \in Seq(Steps)
  BY DEF OwnSteps
<1>2. PICK n \in Nat : n = Len(h) /\ DOMAIN h = 1..n /\ n # 0
        /\ \A i \in 1..n : h[i] \in Steps
  BY <1>1
<1>3. PICK last : last = [h[n] EXCEPT !.ops = @ \cup new]
  OBVIOUS
<1>4. last \in Steps /\ last.ops = h[n].ops \cup new
  <2>1. h[n] \in Steps
    BY <1>2
  <2>2. QED
    BY <1>3, <2>1 DEF Steps
<1>5. PICK e : e = Extended(h, new)
  OBVIOUS
<1>6. DOMAIN e = 1..n /\ \A i \in 1..n : e[i] = IF i = n THEN last ELSE h[i]
  BY <1>2, <1>3, <1>5 DEF Extended
<1>7. e \in [1..n -> Steps]
  <2>1. e = [i \in 1..n |-> e[i]]
    BY <1>2, <1>5, <1>6 DEF Extended
  <2>2. QED
    BY <1>2, <1>4, <1>6, <2>1
<1>8. e \in Seq(Steps) /\ e # <<>>
  BY <1>2, <1>7
<1>9. \A i \in DOMAIN e : e[i].ops \subseteq more
  BY <1>2, <1>4, <1>6 DEF OwnSteps
<1>10. QED
  BY <1>5, <1>8, <1>9 DEF OwnSteps

\* What a step of replica a makes of the stacks.
LEMMA HistoryNext ==
  ASSUME HistoryOK, NEW a \in Actors,
         \A b \in Actors : Own(b, known[b]) \subseteq Own(b, known'[b]),
         DOMAIN history' = Actors,
         \A b \in Actors \ {a} : history'[b] = history[b] /\ typing'[b] = typing[b],
         history'[a] \in [undo : Seq(Steps), redo : Seq(Steps)],
         history' = [b \in Actors |-> history'[b]],
         OwnSteps(history'[a].undo, Own(a, known'[a])),
         OwnSteps(history'[a].redo, Own(a, known'[a])),
         typing' \in [Actors -> Typings],
         typing'[a] # "no" => history'[a].undo # <<>>
  PROVE  HistoryOK'
<1>1. \A b \in Actors : history'[b] \in [undo : Seq(Steps), redo : Seq(Steps)]
  BY DEF HistoryOK
<1>2. history' \in [Actors -> [undo : Seq(Steps), redo : Seq(Steps)]]
  BY <1>1
<1>3. ASSUME NEW b \in Actors
      PROVE  /\ typing'[b] # "no" => history'[b].undo # <<>>
             /\ OwnSteps(history'[b].undo, Own(b, known'[b]))
             /\ OwnSteps(history'[b].redo, Own(b, known'[b]))
  <2>1. CASE b = a
    BY <2>1
  <2>2. CASE b # a
    <3>1. history'[b] = history[b] /\ typing'[b] = typing[b]
      BY <2>2
    <3>2. /\ typing[b] # "no" => history[b].undo # <<>>
          /\ OwnSteps(history[b].undo, Own(b, known[b]))
          /\ OwnSteps(history[b].redo, Own(b, known[b]))
      BY DEF HistoryOK
    <3>3. Own(b, known[b]) \subseteq Own(b, known'[b])
      OBVIOUS
    <3>4. QED
      BY <3>1, <3>2, <3>3, StackKept
  <2>3. QED
    BY <2>1, <2>2
<1>4. QED
  BY <1>2, <1>3 DEF HistoryOK
-----------------------------------------------------------------------------
(* The steps.                                                              *)

\* The text a replica shows is text.
LEMMA ShownProps ==
  ASSUME CausalOK, NEW a \in Actors
  PROVE  Merged(known[a]) \in Seq(Atoms) /\ Shown(known[a]) \in Texts
<1>1. Orderable(known[a]) /\ Transitive(known[a])
  BY HeldFacts
<1>2. PICK set : set = known[a]
  OBVIOUS
<1>3. Merged(set) \in Seq(Atoms)
  BY <1>1, <1>2, MergedProps
<1>4. TextOf(Merged(set)) \in Texts
  BY <1>3, LiveProps
<1>5. QED
  BY <1>2, <1>3, <1>4 DEF Shown

\* The stack a step is taken from, and what it adds to.
LEMMA MintProps ==
  ASSUME CausalOK, HistoryOK, NEW a \in Actors, NEW kinds \in Seq(Kinds), Mint(a, kinds)
  PROVE  /\ CausalOK'
         /\ Range(Minted(a, kinds)) \subseteq Operations
         /\ Range(Minted(a, kinds)) \subseteq Own(a, known'[a])
         /\ \A b \in Actors : Own(b, known[b]) \subseteq Own(b, known'[b])
         /\ [ops |-> Range(Minted(a, kinds)), was |-> Shown(known[a])] \in Steps
<1>1. PICK new : new = Minted(a, kinds)
  OBVIOUS
<1>2. Anew(new, a, Len(kinds)) /\ MintedBy(new, a)
  BY <1>1, MintedAnew DEF Mint, MintedBy
<1>3. CausalOK'
  BY <1>2, MintKeepsCausal
<1>4. /\ \A m \in Range(new) : m \in Operations /\ m.actor = a
      /\ known' = [known EXCEPT ![a] = @ \cup Range(new)]
  BY <1>2 DEF Anew, MintedBy, Range
<1>5. known \in [Actors -> SUBSET ops]
  BY DEF CausalOK
<1>6. Shown(known[a]) \in Texts
  BY ShownProps
<1>7. Range(new) \subseteq Operations /\ Range(new) \subseteq Own(a, known'[a])
      /\ \A b \in Actors : Own(b, known[b]) \subseteq Own(b, known'[b])
  BY <1>4, <1>5 DEF Own
<1>8. [ops |-> Range(new), was |-> Shown(known[a])] \in Steps
  BY <1>6, <1>7 DEF Steps
<1>9. QED
  BY <1>1, <1>3, <1>7, <1>8

\* A replica's record, and its stacks.
LEMMA StackFacts ==
  ASSUME HistoryOK, NEW a \in Actors
  PROVE  /\ OwnSteps(history[a].undo, Own(a, known[a]))
         /\ OwnSteps(history[a].redo, Own(a, known[a]))
         /\ typing[a] # "no" => history[a].undo # <<>>
         /\ history[a] \in [undo : Seq(Steps), redo : Seq(Steps)]
         /\ DOMAIN history = Actors
         /\ typing \in [Actors -> Typings]
  BY DEF HistoryOK

\* One replica's stacks become u and r, and its typing g.
Restacked(a, u, r, g) ==
    /\ DOMAIN history' = Actors /\ history' = [b \in Actors |-> history'[b]]
    /\ \A b \in Actors \ {a} : history'[b] = history[b]
    /\ history'[a] = [undo |-> u, redo |-> r]
    /\ typing' = [typing EXCEPT ![a] = g]

LEMMA RestackedKeeps ==
  ASSUME HistoryOK, NEW a \in Actors,
         \A b \in Actors : Own(b, known[b]) \subseteq Own(b, known'[b]),
         NEW u, NEW r, NEW g \in Typings, Restacked(a, u, r, g),
         OwnSteps(u, Own(a, known'[a])), OwnSteps(r, Own(a, known'[a])),
         g # "no" => u # <<>>
  PROVE  HistoryOK'
<1>1. typing \in [Actors -> Typings]
  BY StackFacts
<1>2. typing' \in [Actors -> Typings] /\ typing'[a] = g
      /\ \A b \in Actors \ {a} : typing'[b] = typing[b]
  BY <1>1 DEF Restacked
<1>3. u \in Seq(Steps) /\ r \in Seq(Steps)
  BY DEF OwnSteps
<1>4. history'[a].undo = u /\ history'[a].redo = r
      /\ history'[a] \in [undo : Seq(Steps), redo : Seq(Steps)]
  BY <1>3 DEF Restacked
<1>5. /\ DOMAIN history' = Actors /\ history' = [b \in Actors |-> history'[b]]
      /\ \A b \in Actors \ {a} : history'[b] = history[b]
  BY DEF Restacked
<1>6. /\ OwnSteps(history'[a].undo, Own(a, known'[a]))
      /\ OwnSteps(history'[a].redo, Own(a, known'[a]))
      /\ typing'[a] # "no" => history'[a].undo # <<>>
  BY <1>2, <1>4
<1>7. \A b \in Actors \ {a} : history'[b] = history[b] /\ typing'[b] = typing[b]
  BY <1>2, <1>5
<1>8. QED
  BY <1>2, <1>4, <1>5, <1>6, <1>7, HistoryNext

\* The characters a gesture types carry the number of the operation to come.
LEMMA TypedText ==
  ASSUME CausalOK, NEW a \in Actors, NEW size \in Nat, NEW n \in Nat
  PROVE  [i \in 1..size |-> <<a, Highest(known[a], a) + n, i>>] \in Texts
<1>1. NumActors \in Nat
  BY TextMergeAssumption
<1>2. Highest(known[a], a) \in Nat
  BY CountsOfHeld
<1>3. Highest(known[a], a) + n \in Nat /\ a \in 0..NumActors
  BY <1>1, <1>2 DEF Actors
<1>4. PICK h : h = Highest(known[a], a) + n
  OBVIOUS
<1>5. \A i \in 1..size : <<a, h, i>> \in Labels
  BY <1>3, <1>4 DEF Labels
<1>6. [i \in 1..size |-> <<a, h, i>>] \in [1..size -> Labels]
  BY <1>5
<1>7. QED
  BY <1>4, <1>6 DEF Texts

LEMMA OneKind ==
  ASSUME NEW k \in Kinds
  PROVE  <<k>> \in Seq(Kinds) /\ Len(<<k>>) = 1
  OBVIOUS

LEMMA TwoKinds ==
  ASSUME NEW d, NEW t
  PROVE  /\ <<d>> \o <<>> = <<d>> /\ <<>> \o <<t>> = <<t>>
         /\ Len(<<d>> \o <<t>>) = 2 /\ Len(<<t>>) = 1
  OBVIOUS

\* The kinds of a gesture: a delete, an insert, or both.
LEMMA InputKinds ==
  ASSUME CausalOK, NEW a \in Actors, NEW from \in Nat, NEW to \in Nat, NEW size \in Nat,
         NEW text, NEW kinds,
         text = [i \in 1..size |->
                    <<a, Highest(known[a], a) + (IF from < to THEN 2 ELSE 1), i>>],
         kinds = (IF from < to THEN <<Kind("delete", from, to, <<>>)>> ELSE <<>>)
                 \o (IF size > 0 THEN <<Kind("insert", from, 0, text)>> ELSE <<>>)
  PROVE  kinds \in Seq(Kinds)
<1>1. PICK d : d = Kind("delete", from, to, <<>>)
  OBVIOUS
<1>2. PICK t : t = Kind("insert", from, 0, text)
  OBVIOUS
<1>3. d \in Kinds
  BY <1>1, NoText DEF Kind, Kinds
<1>4. text \in Texts => t \in Kinds
  BY <1>2 DEF Kind, Kinds
<1>5. CASE ~(size > 0)
  <2>1. CASE from < to
    <3>1. kinds = <<d>> \o <<>>
      BY <1>1, <1>5, <2>1
    <3>2. kinds = <<d>>
      BY <3>1, TwoKinds
    <3>3. QED
      BY <1>3, <3>2, OneKind
  <2>2. CASE ~(from < to)
    BY <1>5, <2>2
  <2>3. QED
    BY <2>1, <2>2
<1>6. CASE size > 0 /\ from < to
  <2>1. kinds = <<d>> \o <<t>>
    BY <1>1, <1>2, <1>6
  <2>2. text \in Texts
    <3>1. [i \in 1..size |-> <<a, Highest(known[a], a) + 2, i>>] \in Texts
      BY TypedText
    <3>2. QED
      BY <1>6, <3>1
  <2>3. QED
    BY <1>3, <1>4, <2>1, <2>2, OneKind, KindsConcatenate
<1>7. CASE size > 0 /\ ~(from < to)
  <2>1. kinds = <<>> \o <<t>>
    BY <1>2, <1>7
  <2>2. kinds = <<t>>
    BY <2>1, TwoKinds
  <2>3. text \in Texts
    <3>1. [i \in 1..size |-> <<a, Highest(known[a], a) + 1, i>>] \in Texts
      BY TypedText
    <3>2. QED
      BY <1>7, <3>1
  <2>4. QED
    BY <1>4, <2>2, <2>3, OneKind
<1>8. QED
  BY <1>5, <1>6, <1>7

\* A gesture of typing.
LEMMA InputStep ==
  ASSUME IInv, NEW a \in Actors, NEW from \in Nat, NEW to \in Nat, NEW size \in Nat,
         Input(a, from, to, size)
  PROVE  IInv'
<1>1. CausalOK /\ HistoryOK
  BY DEF IInv
<1>2. PICK text : text = [i \in 1..size |->
                    <<a, Highest(known[a], a) + (IF from < to THEN 2 ELSE 1), i>>]
  OBVIOUS
<1>3. PICK kinds :
         kinds = (IF from < to THEN <<Kind("delete", from, to, <<>>)>> ELSE <<>>)
                 \o (IF size > 0 THEN <<Kind("insert", from, 0, text)>> ELSE <<>>)
  OBVIOUS
<1>4. PICK gesture : gesture = IF size > 0 THEN "insert" ELSE "delete"
  OBVIOUS
<1>5. PICK minted : minted = Range(Minted(a, kinds))
  OBVIOUS
<1>6. /\ Mint(a, kinds)
      /\ \/ /\ typing[a] = gesture
            /\ history' = [history EXCEPT
                    ![a].undo = Extended(@, minted),
                    ![a].redo = <<>>]
            /\ UNCHANGED typing
         \/ /\ typing[a] = ClosedStep(gesture)
            /\ history' = [history EXCEPT ![a].redo = <<>>]
            /\ UNCHANGED typing
         \/ /\ history' = [history EXCEPT
                    ![a].undo = Append(@, [ops |-> minted, was |-> Shown(known[a])]),
                    ![a].redo = <<>>]
            /\ typing' = [typing EXCEPT ![a] = gesture]
  BY <1>2, <1>3, <1>4, <1>5 DEF Input
<1>7. kinds \in Seq(Kinds)
  BY <1>1, <1>2, <1>3, InputKinds
<1>8. PICK step : step = [ops |-> minted, was |-> Shown(known[a])]
  OBVIOUS
<1>9. /\ CausalOK' /\ minted \subseteq Operations /\ minted \subseteq Own(a, known'[a])
      /\ \A b \in Actors : Own(b, known[b]) \subseteq Own(b, known'[b])
      /\ step \in Steps /\ step.ops = minted
  BY <1>1, <1>5, <1>6, <1>7, <1>8, MintProps
<1>10. PICK undo : undo = history[a].undo
  OBVIOUS
<1>11. /\ OwnSteps(undo, Own(a, known[a]))
       /\ typing[a] # "no" => undo # <<>>
       /\ DOMAIN history = Actors
       /\ history[a] \in [undo : Seq(Steps), redo : Seq(Steps)]
       /\ typing \in [Actors -> Typings]
  BY <1>1, <1>10, StackFacts
<1>12. /\ gesture \in Typings /\ gesture # "no"
       /\ ClosedStep(gesture) \in Typings /\ ClosedStep(gesture) # "no"
  BY <1>4 DEF Typings, ClosedStep
<1>13. Own(a, known[a]) \subseteq Own(a, known'[a])
  BY <1>9
<1>14. OwnSteps(<<>>, Own(a, known'[a]))
  BY EmptyStack
<1>15. CASE /\ typing[a] = gesture
            /\ history' = [history EXCEPT
                    ![a].undo = Extended(@, minted),
                    ![a].redo = <<>>]
            /\ UNCHANGED typing
  <2>1. PICK u : u = Extended(undo, minted)
    OBVIOUS
  <2>2. OwnSteps(u, Own(a, known'[a])) /\ u # <<>>
    <3>1. undo # <<>>
      BY <1>11, <1>12, <1>15
    <3>2. QED
      BY <1>9, <1>11, <1>13, <2>1, <3>1, StackExtend
  <2>3. history' = [history EXCEPT ![a].undo = u, ![a].redo = <<>>]
    BY <1>10, <1>15, <2>1
  <2>4. Restacked(a, u, <<>>, gesture)
    <3>1. typing' = [typing EXCEPT ![a] = gesture]
      BY <1>11, <1>15
    <3>2. QED
      BY <1>11, <2>3, <3>1 DEF Restacked
  <2>5. HistoryOK'
    BY <1>1, <1>9, <1>12, <1>14, <2>2, <2>4, RestackedKeeps
  <2>6. QED
    BY <1>9, <2>5 DEF IInv
<1>16. CASE /\ typing[a] = ClosedStep(gesture)
            /\ history' = [history EXCEPT ![a].redo = <<>>]
            /\ UNCHANGED typing
  <2>1. OwnSteps(undo, Own(a, known'[a])) /\ undo # <<>>
    BY <1>11, <1>12, <1>13, <1>16, StackKept
  <2>2. Restacked(a, undo, <<>>, ClosedStep(gesture))
    <3>1. typing' = [typing EXCEPT ![a] = ClosedStep(gesture)]
      BY <1>11, <1>16
    <3>2. history' = [history EXCEPT ![a].redo = <<>>]
      BY <1>16
    <3>3. QED
      BY <1>10, <1>11, <3>1, <3>2 DEF Restacked
  <2>3. HistoryOK'
    BY <1>1, <1>9, <1>12, <1>14, <2>1, <2>2, RestackedKeeps
  <2>4. QED
    BY <1>9, <2>3 DEF IInv
<1>17. CASE /\ history' = [history EXCEPT
                    ![a].undo = Append(@, [ops |-> minted, was |-> Shown(known[a])]),
                    ![a].redo = <<>>]
            /\ typing' = [typing EXCEPT ![a] = gesture]
  <2>1. PICK u : u = Append(undo, step)
    OBVIOUS
  <2>2. OwnSteps(u, Own(a, known'[a])) /\ u # <<>>
    <3>1. step.ops \subseteq Own(a, known'[a])
      BY <1>9
    <3>2. QED
      BY <1>9, <1>11, <1>13, <2>1, <3>1, StackAppend
  <2>3. history' = [history EXCEPT ![a].undo = u, ![a].redo = <<>>]
    BY <1>8, <1>10, <1>17, <2>1
  <2>4. Restacked(a, u, <<>>, gesture)
    BY <1>11, <1>17, <2>3 DEF Restacked
  <2>5. HistoryOK'
    BY <1>1, <1>9, <1>12, <1>14, <2>2, <2>4, RestackedKeeps
  <2>6. QED
    BY <1>9, <2>5 DEF IInv
<1>18. QED
  BY <1>6, <1>15, <1>16, <1>17

\* A refused command leaves operations and stacks as they are.
LEMMA FailStep ==
  ASSUME IInv, NEW a \in Actors, Fail(a)
  PROVE  IInv'
<1>1. /\ CausalOK /\ HistoryOK
      /\ typing[a] \in {"insert", "delete"}
      /\ typing' = [typing EXCEPT ![a] = ClosedStep(@)]
      /\ UNCHANGED <<ops, known, history>>
  BY DEF IInv, Fail
<1>2. CausalOK'
  BY <1>1 DEF CausalOK, ContextsExist, Closed
<1>3. typing \in [Actors -> Typings] /\ ClosedStep(typing[a]) \in Typings
  BY <1>1 DEF HistoryOK, ClosedStep, Typings
<1>4. typing' \in [Actors -> Typings]
  BY <1>1, <1>3
<1>5. \A b \in Actors : typing'[b] # "no" => typing[b] # "no"
  BY <1>1, <1>3
<1>6. HistoryOK'
  BY <1>1, <1>4, <1>5 DEF HistoryOK
<1>7. QED
  BY <1>2, <1>6 DEF IInv

LEMMA RewriteStep ==
  ASSUME IInv, NEW a \in Actors, Rewrite(a)
  PROVE  IInv'
<1>1. CausalOK /\ HistoryOK
  BY DEF IInv
<1>2. PICK text : text = <<<<a, Highest(known[a], a) + 1, 1>>>>
  OBVIOUS
<1>3. PICK kinds : kinds = <<Kind("write", 0, 0, text)>>
  OBVIOUS
<1>4. PICK step : step = [ops |-> Range(Minted(a, kinds)), was |-> Shown(known[a])]
  OBVIOUS
<1>5. /\ Mint(a, kinds) /\ typing' = [typing EXCEPT ![a] = "no"]
      /\ history' = [history EXCEPT ![a].undo = Append(@, step), ![a].redo = <<>>]
  BY <1>2, <1>3, <1>4 DEF Rewrite
<1>6. kinds \in Seq(Kinds)
  <2>1. [i \in 1..1 |-> <<a, Highest(known[a], a) + 1, i>>] \in Texts
    BY <1>1, TypedText
  <2>2. text = [i \in 1..1 |-> <<a, Highest(known[a], a) + 1, i>>]
    BY <1>2
  <2>3. Kind("write", 0, 0, text) \in Kinds
    BY <2>1, <2>2 DEF Kind, Kinds
  <2>4. QED
    BY <1>3, <2>3, OneKind
<1>7. /\ CausalOK' /\ \A b \in Actors : Own(b, known[b]) \subseteq Own(b, known'[b])
      /\ step \in Steps /\ step.ops \subseteq Own(a, known'[a])
  BY <1>1, <1>4, <1>5, <1>6, MintProps
<1>8. PICK undo : undo = history[a].undo
  OBVIOUS
<1>9. /\ OwnSteps(undo, Own(a, known[a])) /\ DOMAIN history = Actors
      /\ history[a] \in [undo : Seq(Steps), redo : Seq(Steps)]
  BY <1>1, <1>8, StackFacts
<1>10. PICK u : u = Append(undo, step)
  OBVIOUS
<1>11. OwnSteps(u, Own(a, known'[a])) /\ OwnSteps(<<>>, Own(a, known'[a]))
  BY <1>7, <1>9, <1>10, StackAppend, EmptyStack
<1>12. Restacked(a, u, <<>>, "no")
  BY <1>5, <1>8, <1>9, <1>10 DEF Restacked
<1>13. HistoryOK'
  BY <1>1, <1>7, <1>11, <1>12, RestackedKeeps DEF Typings
<1>14. QED
  BY <1>7, <1>13 DEF IInv

LEMMA StepStep ==
  ASSUME IInv, NEW a \in Actors, NEW verb \in {"undo", "redo"}, Step(a, verb)
  PROVE  IInv'
<1>1. CausalOK /\ HistoryOK
  BY DEF IInv
<1>2. PICK last : last = Last(history[a][verb])
  OBVIOUS
<1>3. PICK kinds : kinds = InverseOfStep(a, last)
  OBVIOUS
<1>4. PICK step : step = [ops |-> Range(Minted(a, kinds)), was |-> Shown(known[a])]
  OBVIOUS
<1>5. /\ history[a][verb] # <<>> /\ Mint(a, kinds) /\ typing' = [typing EXCEPT ![a] = "no"]
      /\ history' = [history EXCEPT ![a][verb] = Front(@), ![a][Other(verb)] = Append(@, step)]
  BY <1>2, <1>3, <1>4 DEF Step
<1>6. PICK undo : undo = history[a].undo
  OBVIOUS
<1>7. PICK redo : redo = history[a].redo
  OBVIOUS
<1>8. /\ OwnSteps(undo, Own(a, known[a])) /\ OwnSteps(redo, Own(a, known[a]))
      /\ DOMAIN history = Actors
      /\ history[a] \in [undo : Seq(Steps), redo : Seq(Steps)]
  BY <1>1, <1>6, <1>7, StackFacts
<1>9. last \in Steps
  <2>1. CASE verb = "undo"
    BY <1>2, <1>5, <1>6, <1>8, <2>1, StackFront
  <2>2. CASE verb = "redo"
    BY <1>2, <1>5, <1>7, <1>8, <2>2, StackFront
  <2>3. QED
    BY <2>1, <2>2
<1>10. kinds \in Seq(Kinds)
  <2>1. Merged(known[a]) \in Seq(Atoms)
    BY <1>1, ShownProps
  <2>2. Inverted(known[a], last.ops) \in Seq(Kinds)
    BY <2>1, InvertedProps
  <2>3. <<Kind("write", 0, 0, last.was)>> \in Seq(Kinds)
    <3>1. Kind("write", 0, 0, last.was) \in Kinds
      BY <1>9 DEF Steps, Kind, Kinds
    <3>2. QED
      BY <3>1, OneKind
  <2>4. <<>> \in Seq(Kinds)
    OBVIOUS
  <2>5. QED
    BY <1>3, <2>2, <2>3, <2>4 DEF InverseOfStep
<1>11. /\ CausalOK' /\ \A b \in Actors : Own(b, known[b]) \subseteq Own(b, known'[b])
       /\ step \in Steps /\ step.ops \subseteq Own(a, known'[a])
  BY <1>1, <1>4, <1>5, <1>10, MintProps
<1>12. Own(a, known[a]) \subseteq Own(a, known'[a])
  BY <1>11
<1>13. CASE verb = "undo"
  <2>1. PICK u : u = Front(undo)
    OBVIOUS
  <2>2. PICK r : r = Append(redo, step)
    OBVIOUS
  <2>3. OwnSteps(u, Own(a, known'[a]))
    BY <1>5, <1>6, <1>8, <1>12, <1>13, <2>1, StackFront
  <2>4. OwnSteps(r, Own(a, known'[a]))
    BY <1>8, <1>11, <1>12, <2>2, StackAppend
  <2>5. history' = [history EXCEPT ![a]["undo"] = u, ![a]["redo"] = r]
    BY <1>5, <1>6, <1>7, <1>8, <1>13, <2>1, <2>2 DEF Other
  <2>6. Restacked(a, u, r, "no")
    BY <1>5, <1>8, <2>5 DEF Restacked
  <2>7. HistoryOK'
    BY <1>1, <1>11, <2>3, <2>4, <2>6, RestackedKeeps DEF Typings
  <2>8. QED
    BY <1>11, <2>7 DEF IInv
<1>14. CASE verb = "redo"
  <2>1. PICK r : r = Front(redo)
    OBVIOUS
  <2>2. PICK u : u = Append(undo, step)
    OBVIOUS
  <2>3. OwnSteps(r, Own(a, known'[a]))
    BY <1>5, <1>7, <1>8, <1>12, <1>14, <2>1, StackFront
  <2>4. OwnSteps(u, Own(a, known'[a]))
    BY <1>8, <1>11, <1>12, <2>2, StackAppend
  <2>5. history' = [history EXCEPT ![a]["redo"] = r, ![a]["undo"] = u]
    BY <1>5, <1>6, <1>7, <1>8, <1>14, <2>1, <2>2 DEF Other
  <2>6. Restacked(a, u, r, "no")
    BY <1>5, <1>8, <2>5 DEF Restacked
  <2>7. HistoryOK'
    BY <1>1, <1>11, <2>3, <2>4, <2>6, RestackedKeeps DEF Typings
  <2>8. QED
    BY <1>11, <2>7 DEF IInv
<1>15. QED
  BY <1>13, <1>14

LEMMA DeliverStep ==
  ASSUME IInv, NEW a \in Actors, NEW op \in ops, Deliver(a, op)
  PROVE  IInv'
<1>1. CausalOK /\ HistoryOK
  BY DEF IInv
<1>2. CausalOK'
  BY <1>1, DeliverKeepsCausal
<1>3. /\ known' = [known EXCEPT ![a] = @ \cup {op}] /\ history' = history
      /\ typing' = [typing EXCEPT ![a] = "no"]
  BY DEF Deliver
<1>4. known \in [Actors -> SUBSET ops]
  BY <1>1 DEF CausalOK
<1>5. \A b \in Actors : Own(b, known[b]) \subseteq Own(b, known'[b])
  BY <1>3, <1>4 DEF Own
<1>6. /\ OwnSteps(history[a].undo, Own(a, known[a]))
      /\ OwnSteps(history[a].redo, Own(a, known[a]))
      /\ history \in [Actors -> [undo : Seq(Steps), redo : Seq(Steps)]]
  BY <1>1 DEF HistoryOK
<1>7. /\ OwnSteps(history[a].undo, Own(a, known'[a]))
      /\ OwnSteps(history[a].redo, Own(a, known'[a]))
  BY <1>5, <1>6, StackKept
<1>8. Restacked(a, history[a].undo, history[a].redo, "no")
  BY <1>3, <1>6 DEF Restacked
<1>9. HistoryOK'
  BY <1>1, <1>5, <1>7, <1>8, RestackedKeeps DEF Typings
<1>10. QED
  BY <1>2, <1>9 DEF IInv

LEMMA InitInv ==
  ASSUME Init
  PROVE  IInv
<1>1. ops = {} /\ known = [a \in Actors |-> {}]
  BY DEF Init
<1>2. IsFiniteSet(ops)
  BY <1>1, FS_EmptySet
<1>3. Orderable(ops) /\ Transitive(ops) /\ ContextsExist
  BY <1>1, <1>2 DEF Orderable, Distinct, Clocked, Transitive, ContextsExist
<1>4. CausalOK
  BY <1>1, <1>3 DEF CausalOK, Closed, Own
<1>5. /\ history = [a \in Actors |-> [undo |-> <<>>, redo |-> <<>>]]
      /\ typing = [a \in Actors |-> "no"]
  BY DEF Init
<1>6. <<>> \in Seq(Steps)
  OBVIOUS
<1>7. HistoryOK
  BY <1>5, <1>6, EmptyStack DEF HistoryOK, Typings
<1>8. QED
  BY <1>4, <1>7 DEF IInv

LEMMA NextInv ==
  ASSUME IInv, [Next]_vars
  PROVE  IInv'
<1>1. CASE UNCHANGED vars
  BY <1>1 DEF vars, IInv, CausalOK, HistoryOK, ContextsExist, Closed
<1>2. CASE Next
  <2>1. PICK a \in Actors :
            \/ \E to \in 0..Len(Shown(known[a])) : \E from \in 0..to :
                   \E size \in {0, MaxText} : Input(a, from, to, size)
            \/ Rewrite(a) \/ Fail(a)
            \/ \E verb \in {"undo", "redo"} : Step(a, verb)
            \/ \E op \in ops : Deliver(a, op)
    BY <1>2 DEF Next
  <2>2. ASSUME NEW to \in 0..Len(Shown(known[a])), NEW from \in 0..to,
               NEW size \in {0, MaxText}, Input(a, from, to, size)
        PROVE  IInv'
    <3>1. Shown(known[a]) \in Texts
      BY ShownProps DEF IInv
    <3>2. Len(Shown(known[a])) \in Nat
      BY <3>1 DEF Texts
    <3>3. to \in Nat /\ from \in Nat /\ size \in Nat
      BY <3>2, TextMergeAssumption
    <3>4. QED
      BY <2>2, <3>3, InputStep
  <2>3. QED
    BY <2>1, <2>2, RewriteStep, FailStep, StepStep, DeliverStep
<1>3. QED
  BY <1>1, <1>2

LEMMA Inductive == Spec => []IInv
<1>1. Init => IInv
  BY InitInv
<1>2. IInv /\ [Next]_vars => IInv'
  BY NextInv
<1>3. QED
  BY <1>1, <1>2, PTL DEF Spec

\* Every operation has its identity to itself; what a replica holds is causally
\* closed and has all it minted (apply_batch, apply_remote_operations); and its
\* stacks have only operations of its own (step_edit_history).
THEOREM TypeCorrect == Spec => []TypeOK
<1>1. ASSUME IInv PROVE TypeOK
  <2>1. CausalOK /\ HistoryOK
    BY <1>1 DEF IInv
  <2>2. ops \subseteq Operations /\ \A x, y \in ops : x.actor = y.actor /\ x.seq = y.seq => x = y
    BY <2>1 DEF CausalOK, Orderable, Distinct
  <2>3. /\ known \in [Actors -> SUBSET ops]
        /\ \A a \in Actors : Closed(known[a]) /\ Own(a, ops) \subseteq known[a]
    BY <2>1 DEF CausalOK
  <2>4. /\ history \in [Actors -> [undo : Seq(Steps), redo : Seq(Steps)]]
        /\ typing \in [Actors -> Typings]
    BY <2>1 DEF HistoryOK
  <2>5. ASSUME NEW a \in Actors, NEW verb \in {"undo", "redo"},
               NEW i \in DOMAIN history[a][verb]
        PROVE  history[a][verb][i].ops \subseteq Own(a, known[a])
    BY <2>1 DEF HistoryOK, OwnSteps
  <2>6. QED
    BY <2>2, <2>3, <2>4, <2>5 DEF TypeOK
<1>2. QED
  BY <1>1, Inductive, PTL

\* Whatever replicas type at once, text inserted by one operation stays in one
\* piece: nothing that was written without knowledge of it stands inside it.
THEOREM RunsAreNeverSplit == Spec => []NothingIsSplit
<1>1. ASSUME IInv PROVE NothingIsSplit
  <2>1. Orderable(ops) /\ Transitive(ops) /\ ops \subseteq Operations
    BY <1>1 DEF IInv, CausalOK, Orderable
  <2>2. PICK atoms : atoms = Merged(ops)
    OBVIOUS
  <2>3. PICK set : set = ops
    OBVIOUS
  <2>4. Unsplit(atoms)
    BY <2>1, <2>2, <2>3, MergedProps
  <2>5. ASSUME NEW op \in ops, NEW i \in DOMAIN atoms, NEW j \in DOMAIN atoms,
               NEW k \in DOMAIN atoms,
               i < j /\ j < k /\ atoms[i].by = op /\ atoms[k].by = op
        PROVE  atoms[j].by # Base /\ (atoms[j].by = op \/ Observes(atoms[j].by, op))
    <3>1. op # Base
      BY <2>1, OperationFacts
    <3>2. QED
      BY <2>4, <2>5, <3>1 DEF Unsplit
  <2>6. QED
    BY <2>2, <2>5 DEF NothingIsSplit
<1>2. QED
  BY <1>1, Inductive, PTL
-----------------------------------------------------------------------------
(* Positions in order.                                                     *)

\* The members of a set of numbers, from the least to the greatest.
Enumerates(f, n, S) ==
    /\ n \in Nat /\ f \in [1..n -> S]
    /\ \A i, j \in 1..n : i < j => f[i] < f[j]
    /\ \A x \in S : \E i \in 1..n : f[i] = x

LEMMA AscendingEnumerates ==
  ASSUME NEW S \in SUBSET Nat, IsFiniteSet(S)
  PROVE  Enumerates(Ascending(S), Cardinality(S), S)
<1> DEFINE R == {p \in S \X S : p[1] < p[2]}
           Less(x) == {y \in S : y < x}
           n == Cardinality(S)
           f == Ascending(S)
<1>1. \A x \in S : x \in Nat
  OBVIOUS
<1>2. n \in Nat /\ f \in [1..n -> S]
  BY AscendingProps
<1>3. \A k \in 1..n : \E x \in S : Cardinality(Less(x)) = k - 1
  <2>1. PICK Q : Q = R
    OBVIOUS
  <2>2. /\ \A x \in S : <<x, x>> \notin Q
        /\ \A x, y \in S : x = y \/ <<x, y>> \in Q \/ <<y, x>> \in Q
        /\ \A x, y, z \in S : <<x, y>> \in Q /\ <<y, z>> \in Q => <<x, z>> \in Q
    BY <1>1, <2>1
  <2>3. \A x \in S : Below(S, Q, x) = Less(x)
    BY <2>1 DEF Below
  <2>4. ASSUME NEW k \in 1..n PROVE \E x \in S : Cardinality(Below(S, Q, x)) = k - 1
    BY <2>2, EveryPlaceIsTaken
  <2>5. QED
    BY <2>3, <2>4
<1>4. ASSUME NEW k \in 1..n PROVE f[k] \in S /\ Cardinality(Less(f[k])) = k - 1
  <2>1. f[k] = CHOOSE x \in S : Cardinality(Less(x)) = k - 1
    BY <1>2, <1>4 DEF Ascending, InOrder
  <2> HIDE DEF Less
  <2>2. QED
    BY <1>3, <2>1
<1>5. ASSUME NEW x \in S
      PROVE  IsFiniteSet(Less(x)) /\ Cardinality(Less(x)) \in Nat /\ Cardinality(Less(x)) < n
  <2>1. x \notin Less(x) /\ Less(x) \subseteq S
    BY <1>1
  <2>2. QED
    BY <1>2, <2>1, FS_Subset, FS_CardinalityType
<1>6. ASSUME NEW x \in S, NEW y \in S, x < y
      PROVE  Cardinality(Less(x)) < Cardinality(Less(y))
  <2>1. x \in Nat /\ y \in Nat
    BY <1>1
  <2>2. ASSUME NEW z \in Less(x) PROVE z \in Less(y)
    <3>1. z \in S /\ z \in Nat /\ z < x
      BY <1>1
    <3>2. z < y
      BY <1>6, <2>1, <3>1
    <3>3. QED
      BY <3>1, <3>2
  <2>3. x \in Less(y) /\ x \notin Less(x)
    BY <1>6, <2>1
  <2> HIDE DEF Less
  <2>4. Less(x) \subseteq Less(y) /\ Less(x) # Less(y)
    BY <2>2, <2>3
  <2>5. IsFiniteSet(Less(y))
    BY <1>5
  <2>6. Cardinality(Less(x)) <= Cardinality(Less(y)) /\ Cardinality(Less(x)) # Cardinality(Less(y))
    BY <2>4, <2>5, FS_Subset
  <2>7. QED
    BY <1>5, <2>6
<1> HIDE DEF Less, f, n
<1>7. ASSUME NEW i \in 1..n, NEW j \in 1..n, i < j PROVE f[i] < f[j]
  <2>1. f[i] \in S /\ f[j] \in S /\ i \in Nat /\ j \in Nat
    BY <1>2, <1>4
  <2>2. Cardinality(Less(f[i])) < Cardinality(Less(f[j]))
    BY <1>4, <1>7, <2>1
  <2>3. Cardinality(Less(f[i])) \in Nat /\ Cardinality(Less(f[j])) \in Nat
    BY <1>5, <2>1
  <2>4. ~(f[j] < f[i])
    <3>1. SUFFICES ASSUME f[j] < f[i] PROVE FALSE
      OBVIOUS
    <3>2. Cardinality(Less(f[j])) < Cardinality(Less(f[i]))
      BY <1>6, <2>1, <3>1
    <3>3. QED
      BY <2>2, <2>3, <3>2
  <2>5. f[i] # f[j]
    BY <2>2, <2>3
  <2>6. f[i] \in Nat /\ f[j] \in Nat
    BY <1>1, <2>1
  <2>7. QED
    BY <2>4, <2>5, <2>6
<1>8. ASSUME NEW x \in S PROVE \E i \in 1..n : f[i] = x
  <2>1. PICK k \in Nat : k = Cardinality(Less(x))
    BY <1>5
  <2>2. k + 1 \in 1..n /\ (k + 1) - 1 = k
    BY <1>2, <1>5, <2>1
  <2>3. f[k + 1] \in S /\ Cardinality(Less(f[k + 1])) = Cardinality(Less(x))
    BY <1>4, <2>1, <2>2
  <2>4. ~(f[k + 1] < x)
    <3>1. SUFFICES ASSUME f[k + 1] < x PROVE FALSE
      OBVIOUS
    <3>2. Cardinality(Less(f[k + 1])) < Cardinality(Less(x))
      BY <1>6, <2>3, <3>1
    <3>3. QED
      BY <1>5, <2>3, <3>2
  <2>5. ~(x < f[k + 1])
    <3>1. SUFFICES ASSUME x < f[k + 1] PROVE FALSE
      OBVIOUS
    <3>2. Cardinality(Less(x)) < Cardinality(Less(f[k + 1]))
      BY <1>6, <2>3, <3>1
    <3>3. QED
      BY <1>5, <2>3, <3>2
  <2>6. f[k + 1] \in Nat /\ x \in Nat
    BY <1>1, <2>3
  <2>7. f[k + 1] = x
    BY <2>4, <2>5, <2>6
  <2>8. QED
    BY <2>2, <2>7
<1>9. QED
  BY <1>2, <1>7, <1>8 DEF Enumerates, f, n

\* There is one such enumeration.
LEMMA EnumerationsAgree ==
  ASSUME NEW S \in SUBSET Nat, NEW f, NEW n, NEW g, NEW m,
         Enumerates(f, n, S), Enumerates(g, m, S)
  PROVE  n = m /\ f = g
<1> DEFINE T == {k \in Nat : \A j \in 1..k : j <= n /\ j <= m => f[j] = g[j]}
<1>1. n \in Nat /\ m \in Nat /\ \A x \in S : x \in Nat
  BY DEF Enumerates
<1>2. /\ \A i \in 1..n : f[i] \in S
      /\ \A i, j \in 1..n : i < j => f[i] < f[j]
      /\ \A x \in S : \E i \in 1..n : f[i] = x
  BY DEF Enumerates
<1>3. /\ \A i \in 1..m : g[i] \in S
      /\ \A i, j \in 1..m : i < j => g[i] < g[j]
      /\ \A x \in S : \E i \in 1..m : g[i] = x
  BY DEF Enumerates
<1>14. (\A i \in 1..n : f[i] \in Nat) /\ (\A i \in 1..m : g[i] \in Nat)
  BY <1>1, <1>2, <1>3
<1>4. 0 \in T
  OBVIOUS
<1>5. ASSUME NEW k \in Nat, k \in T PROVE k + 1 \in T
  <2>1. SUFFICES ASSUME k + 1 <= n, k + 1 <= m PROVE f[k + 1] = g[k + 1]
    BY <1>5
  <2>2. \A j \in 1..k : j \in 1..n /\ j \in 1..m /\ f[j] = g[j]
    BY <1>1, <1>5, <2>1
  <2>3. k + 1 \in 1..n /\ k + 1 \in 1..m
    BY <1>1, <2>1
  <2>4. g[k + 1] <= f[k + 1]
    <3>1. PICK j \in 1..m : g[j] = f[k + 1]
      BY <1>2, <1>3, <2>3
    <3>2. ~(j \in 1..k)
      <4>1. SUFFICES ASSUME j \in 1..k PROVE FALSE
        OBVIOUS
      <4>2. f[j] = f[k + 1] /\ j < k + 1 /\ j \in 1..n
        BY <2>2, <3>1, <4>1
      <4>3. f[j] < f[k + 1] /\ f[j] \in Nat
        BY <1>1, <1>2, <2>3, <4>2
      <4>4. QED
        BY <4>2, <4>3
    <3>3. j = k + 1 \/ k + 1 < j
      BY <1>1, <3>1, <3>2
    <3>4. CASE j = k + 1
      BY <1>14, <2>3, <3>1, <3>4
    <3>5. CASE k + 1 < j
      <4>1. g[k + 1] < g[j]
        BY <1>3, <2>3, <3>1, <3>5
      <4>2. QED
        BY <1>14, <2>3, <3>1, <4>1
    <3>6. QED
      BY <3>3, <3>4, <3>5
  <2>5. f[k + 1] <= g[k + 1]
    <3>1. PICK j \in 1..n : f[j] = g[k + 1]
      BY <1>2, <1>3, <2>3
    <3>2. ~(j \in 1..k)
      <4>1. SUFFICES ASSUME j \in 1..k PROVE FALSE
        OBVIOUS
      <4>2. g[j] = g[k + 1] /\ j < k + 1 /\ j \in 1..m
        BY <2>2, <3>1, <4>1
      <4>3. g[j] < g[k + 1] /\ g[j] \in Nat
        BY <1>1, <1>3, <2>3, <4>2
      <4>4. QED
        BY <4>2, <4>3
    <3>3. j = k + 1 \/ k + 1 < j
      BY <1>1, <3>1, <3>2
    <3>4. CASE j = k + 1
      BY <1>14, <2>3, <3>1, <3>4
    <3>5. CASE k + 1 < j
      <4>1. f[k + 1] < f[j]
        BY <1>2, <2>3, <3>1, <3>5
      <4>2. QED
        BY <1>14, <2>3, <3>1, <4>1
    <3>6. QED
      BY <3>3, <3>4, <3>5
  <2>6. QED
    BY <1>14, <2>3, <2>4, <2>5
<1> HIDE DEF T
<1>6. \A k \in Nat : k \in T
  BY <1>4, <1>5, SetInduction
<1>7. \A k \in Nat : k <= n /\ k <= m /\ k # 0 => f[k] = g[k]
  <2>1. ASSUME NEW k \in Nat, k <= n, k <= m, k # 0 PROVE f[k] = g[k]
    <3>1. k \in T /\ k \in 1..k
      BY <1>6, <2>1
    <3>2. QED
      BY <2>1, <3>1 DEF T
  <2>2. QED
    BY <2>1
<1>8. ~(n < m)
  <2>1. SUFFICES ASSUME n < m PROVE FALSE
    OBVIOUS
  <2>2. n + 1 \in 1..m /\ g[n + 1] \in S
    BY <1>1, <1>3, <2>1
  <2>3. PICK j \in 1..n : f[j] = g[n + 1]
    BY <1>2, <2>2
  <2>4. g[j] = g[n + 1] /\ j < n + 1 /\ j \in 1..m
    BY <1>1, <1>7, <2>1, <2>3
  <2>5. QED
    <3>1. g[j] < g[n + 1]
      BY <1>3, <2>2, <2>4
    <3>2. QED
      BY <1>14, <2>2, <2>4, <3>1
<1>9. ~(m < n)
  <2>1. SUFFICES ASSUME m < n PROVE FALSE
    OBVIOUS
  <2>2. m + 1 \in 1..n /\ f[m + 1] \in S
    BY <1>1, <1>2, <2>1
  <2>3. PICK j \in 1..m : g[j] = f[m + 1]
    BY <1>3, <2>2
  <2>4. f[j] = f[m + 1] /\ j < m + 1 /\ j \in 1..n
    BY <1>1, <1>7, <2>1, <2>3
  <2>5. QED
    <3>1. f[j] < f[m + 1]
      BY <1>2, <2>2, <2>4
    <3>2. QED
      BY <1>14, <2>2, <2>4, <3>1
<1>10. n = m
  BY <1>1, <1>8, <1>9
<1>11. \A k \in 1..n : f[k] = g[k]
  BY <1>1, <1>7, <1>10
<1>12. f = [k \in 1..n |-> f[k]] /\ g = [k \in 1..n |-> g[k]]
  BY <1>10 DEF Enumerates
<1>13. f = g
  BY <1>11, <1>12
<1>15. QED
  BY <1>10, <1>13
-----------------------------------------------------------------------------
(* What an edit sees, and what it does.                                    *)

Sees(op, atom) ==
    /\ ~atom.dead
    /\ atom.by = Base \/ Observes(op, atom.by)
    /\ \A d \in atom.gone : ~Observes(op, d)

Seen(atoms, op) == {i \in DOMAIN atoms : Sees(op, atoms[i])}

\* The atom an insert is put behind, or 0; the atoms a delete strikes.
Offset(atoms, op) == Least2(op.from, Len(Visible(atoms, op)))
Anchor(atoms, op) ==
    IF Offset(atoms, op) = 0 THEN 0 ELSE Visible(atoms, op)[Offset(atoms, op)]
StruckBy(atoms, op) ==
    {Visible(atoms, op)[i] : i \in (op.from + 1)..Least2(op.to, Len(Visible(atoms, op)))}

LEMMA VisibleEnumerates ==
  ASSUME NEW atoms \in Seq(Atoms), NEW op
  PROVE  /\ Enumerates(Visible(atoms, op), Len(Visible(atoms, op)), Seen(atoms, op))
         /\ Seen(atoms, op) \in SUBSET Nat /\ Seen(atoms, op) \subseteq DOMAIN atoms
<1>1. DOMAIN atoms = 1..Len(atoms) /\ Len(atoms) \in Nat
  OBVIOUS
<1>2. Seen(atoms, op) \subseteq DOMAIN atoms
  BY DEF Seen
<1>3. Seen(atoms, op) \in SUBSET Nat
  BY <1>1, <1>2
<1>4. IsFiniteSet(Seen(atoms, op))
  BY <1>2, PositionsFinite, FS_Subset
<1>5. Visible(atoms, op) = Ascending(Seen(atoms, op))
  BY DEF Visible, Seen, Sees
<1>6. PICK n : n = Cardinality(Seen(atoms, op))
  OBVIOUS
<1>7. Enumerates(Visible(atoms, op), n, Seen(atoms, op))
  BY <1>3, <1>4, <1>5, <1>6, AscendingEnumerates
<1>8. Len(Visible(atoms, op)) = n
  BY <1>7 DEF Enumerates
<1>9. QED
  BY <1>2, <1>3, <1>7, <1>8

LEMMA AnchorProps ==
  ASSUME NEW atoms \in Seq(Atoms), NEW op \in Operations
  PROVE  /\ Offset(atoms, op) \in 0..Len(Visible(atoms, op))
         /\ Anchor(atoms, op) \in 0..Len(atoms)
         /\ Anchor(atoms, op) # 0 => Anchor(atoms, op) \in Seen(atoms, op)
         /\ StruckBy(atoms, op) \subseteq Seen(atoms, op)
<1>1. PICK v : v = Visible(atoms, op)
  OBVIOUS
<1>2. PICK n : n = Len(v)
  OBVIOUS
<1>3. n \in Nat /\ \A i \in 1..n : v[i] \in Seen(atoms, op)
  BY <1>1, <1>2, VisibleEnumerates DEF Enumerates
<1>4. op.from \in Nat /\ op.to \in Nat
  BY OperationFacts
<1>5. Offset(atoms, op) \in 0..n
  BY <1>1, <1>2, <1>3, <1>4 DEF Offset, Least2
<1>6. Offset(atoms, op) # 0 => Offset(atoms, op) \in 1..n
  BY <1>3, <1>5
<1>7. Anchor(atoms, op) = 0 \/ Anchor(atoms, op) \in Seen(atoms, op)
  BY <1>1, <1>3, <1>6 DEF Anchor
<1>8. \A i \in (op.from + 1)..Least2(op.to, n) : i \in 1..n
  BY <1>3, <1>4 DEF Least2
<1>9. StruckBy(atoms, op) \subseteq Seen(atoms, op)
  BY <1>1, <1>2, <1>3, <1>8 DEF StruckBy
<1>10. DOMAIN atoms = 1..Len(atoms) /\ Len(atoms) \in Nat
  OBVIOUS
<1>11. Anchor(atoms, op) \in 0..Len(atoms)
  BY <1>7, <1>10, VisibleEnumerates
<1>12. QED
  BY <1>1, <1>2, <1>5, <1>7, <1>9, <1>11

\* An insert steps over an atom.
Stepped(atoms, op, rank, i) ==
    /\ atoms[i].by # Base
    /\ rank[atoms[i].by] > rank[op]
    /\ ~Observes(op, atoms[i].by)

\* Where an insert lands: behind its anchor and what it steps over.
LandsBehind(atoms, op, rank, at) ==
    /\ at \in 0..Len(atoms) /\ Anchor(atoms, op) <= at
    /\ \A i \in (Anchor(atoms, op) + 1)..at : Stepped(atoms, op, rank, i)
    /\ at < Len(atoms) => ~Stepped(atoms, op, rank, at + 1)

LEMMA LandingBehind ==
  ASSUME NEW atoms \in Seq(Atoms), NEW op \in Operations, NEW rank
  PROVE  LandsBehind(atoms, op, rank, Landing(atoms, op, rank))
<1> DEFINE a == Anchor(atoms, op)
           N == Len(atoms)
           over(i) == Stepped(atoms, op, rank, i)
           G == {m \in a..N : \A i \in (a + 1)..m : over(i)}
<1>1. a \in Nat /\ N \in Nat /\ a <= N
  BY AnchorProps
<1>2. Landing(atoms, op, rank) = CHOOSE at \in a..N :
            /\ \A i \in (a + 1)..at : over(i)
            /\ at < N => ~over(at + 1)
  BY DEF Landing, Anchor, Offset, Stepped
<1> HIDE DEF a, over, N
<1>3. a \in G
  BY <1>1
<1>4. G \in SUBSET Nat /\ IsFiniteSet(G)
  <2>1. G \in SUBSET (a..N) /\ IsFiniteSet(a..N)
    BY <1>1, FS_Interval
  <2>2. G \in SUBSET Nat
    BY <1>1
  <2>3. QED
    BY <2>1, <2>2, FS_Subset
<1>5. PICK at \in G : \A m \in G : at >= m
  BY <1>3, <1>4, MaxProps
<1>6. at \in a..N /\ \A i \in (a + 1)..at : over(i)
  BY <1>5
<1>7. ASSUME at < N PROVE ~over(at + 1)
  <2>1. SUFFICES ASSUME over(at + 1) PROVE FALSE
    OBVIOUS
  <2>2. at + 1 \in a..N /\ at \in Nat
    BY <1>1, <1>6, <1>7
  <2>3. \A i \in (a + 1)..(at + 1) : i \in (a + 1)..at \/ i = at + 1
    BY <1>1, <2>2
  <2>4. at + 1 \in G
    BY <1>6, <2>1, <2>2, <2>3
  <2>5. QED
    BY <1>5, <2>2, <2>4
<1>8. PICK l : l = Landing(atoms, op, rank)
  OBVIOUS
<1>9. /\ l \in a..N /\ \A i \in (a + 1)..l : over(i)
      /\ l < N => ~over(l + 1)
  BY <1>2, <1>6, <1>7, <1>8
<1>10. l \in 0..N /\ a <= l
  BY <1>1, <1>9
<1>11. QED
  BY <1>8, <1>9, <1>10 DEF LandsBehind, a, N, over
-----------------------------------------------------------------------------
(* A text as a part of another.                                            *)

\* An atom as it is when of all operations only those of D have been.
SameAtom(x, y, D) ==
    /\ x.label = y.label /\ x.by = y.by /\ x.dead = y.dead
    /\ x.gone = y.gone \cap D

\* The atoms R are the atoms F without what others than D did: e is where they
\* stand in F.
Part(R, F, D, e) ==
    /\ R \in Seq(Atoms) /\ F \in Seq(Atoms)
    /\ e \in [DOMAIN R -> DOMAIN F]
    /\ \A i, j \in DOMAIN R : i < j => e[i] < e[j]
    /\ \A i \in DOMAIN R : SameAtom(R[i], F[e[i]], D) /\ R[i].by \in D \cup {Base}
    /\ \A p \in DOMAIN F : F[p].by \in D \cup {Base} => \E i \in DOMAIN R : e[i] = p

\* Of what is done in F, op knows only what D did.
Hears(F, op, D) == \A p \in DOMAIN F :
    /\ F[p].by # Base /\ Observes(op, F[p].by) => F[p].by \in D
    /\ \A d \in F[p].gone : Observes(op, d) => d \in D

LEMMA PartFacts ==
  ASSUME NEW R, NEW F, NEW D, NEW e, Part(R, F, D, e)
  PROVE  /\ R \in Seq(Atoms) /\ F \in Seq(Atoms)
         /\ Len(R) \in Nat /\ Len(F) \in Nat
         /\ DOMAIN R = 1..Len(R) /\ DOMAIN F = 1..Len(F)
         /\ \A i \in DOMAIN R : e[i] \in DOMAIN F /\ i \in Nat /\ e[i] \in Nat /\ e[i] # 0
<1>1. R \in Seq(Atoms) /\ F \in Seq(Atoms) /\ e \in [DOMAIN R -> DOMAIN F]
  BY DEF Part
<1>2. Len(R) \in Nat /\ Len(F) \in Nat /\ DOMAIN R = 1..Len(R) /\ DOMAIN F = 1..Len(F)
  BY <1>1
<1>3. QED
  BY <1>1, <1>2

LEMMA PartOrder ==
  ASSUME NEW R, NEW F, NEW D, NEW e, Part(R, F, D, e),
         NEW i \in DOMAIN R, NEW j \in DOMAIN R
  PROVE  /\ i < j <=> e[i] < e[j]
         /\ i = j <=> e[i] = e[j]
         /\ i <= j <=> e[i] <= e[j]
<1>1. i \in Nat /\ j \in Nat /\ e[i] \in Nat /\ e[j] \in Nat
  BY PartFacts
<1>2. (i < j => e[i] < e[j]) /\ (j < i => e[j] < e[i])
  BY DEF Part
<1>3. i = j => e[i] = e[j]
  OBVIOUS
<1>4. QED
  BY <1>1, <1>2, <1>3

\* Whoever knows only what D did sees the same in both.
LEMMA PartSeen ==
  ASSUME NEW R, NEW F, NEW D, NEW e, Part(R, F, D, e), NEW op, Hears(F, op, D)
  PROVE  /\ \A i \in DOMAIN R : i \in Seen(R, op) <=> e[i] \in Seen(F, op)
         /\ \A p \in Seen(F, op) : \E i \in Seen(R, op) : e[i] = p
<1>1. ASSUME NEW i \in DOMAIN R PROVE i \in Seen(R, op) <=> e[i] \in Seen(F, op)
  <2>1. e[i] \in DOMAIN F /\ SameAtom(R[i], F[e[i]], D)
    BY <1>1, PartFacts DEF Part
  <2>2. PICK x : x = R[i]
    OBVIOUS
  <2>3. PICK y : y = F[e[i]]
    OBVIOUS
  <2>4. \A d \in y.gone : Observes(op, d) => d \in D
    BY <2>1, <2>3 DEF Hears
  <2>5. x.by = y.by /\ x.dead = y.dead /\ x.gone = y.gone \cap D
    BY <2>1, <2>2, <2>3 DEF SameAtom
  <2>6. (\A d \in x.gone : ~Observes(op, d)) <=> (\A d \in y.gone : ~Observes(op, d))
    BY <2>4, <2>5
  <2>7. Sees(op, x) <=> Sees(op, y)
    BY <2>5, <2>6 DEF Sees
  <2>8. QED
    BY <1>1, <2>1, <2>2, <2>3, <2>7 DEF Seen
<1>2. ASSUME NEW p \in Seen(F, op) PROVE \E i \in Seen(R, op) : e[i] = p
  <2>1. p \in DOMAIN F /\ (F[p].by = Base \/ Observes(op, F[p].by))
    BY <1>2 DEF Seen, Sees
  <2>2. F[p].by \in D \cup {Base}
    BY <2>1 DEF Hears
  <2>3. PICK i \in DOMAIN R : e[i] = p
    BY <2>1, <2>2 DEF Part
  <2>4. QED
    BY <1>1, <1>2, <2>3
<1>3. QED
  BY <1>1, <1>2

LEMMA PartVisible ==
  ASSUME NEW R, NEW F, NEW D, NEW e, Part(R, F, D, e), NEW op, Hears(F, op, D)
  PROVE  /\ Len(Visible(R, op)) = Len(Visible(F, op)) /\ Len(Visible(R, op)) \in Nat
         /\ \A n \in 1..Len(Visible(R, op)) :
                /\ Visible(R, op)[n] \in DOMAIN R
                /\ Visible(F, op)[n] = e[Visible(R, op)[n]]
<1>1. PICK v : v = Visible(R, op)
  OBVIOUS
<1>2. PICK n : n = Len(v)
  OBVIOUS
<1>3. PICK h : h = [k \in 1..n |-> e[v[k]]]
  OBVIOUS
<1>4. PICK S : S = Seen(F, op)
  OBVIOUS
<1>5. /\ Enumerates(v, n, Seen(R, op)) /\ Seen(R, op) \subseteq DOMAIN R
      /\ Enumerates(Visible(F, op), Len(Visible(F, op)), S) /\ S \in SUBSET Nat
  BY <1>1, <1>2, <1>4, PartFacts, VisibleEnumerates
<1>6. n \in Nat /\ \A k \in 1..n : v[k] \in Seen(R, op) /\ v[k] \in DOMAIN R
  BY <1>5 DEF Enumerates
<1>7. \A k \in 1..n : h[k] = e[v[k]] /\ h[k] \in S
  BY <1>3, <1>4, <1>6, PartSeen
<1>8. ASSUME NEW i \in 1..n, NEW j \in 1..n, i < j PROVE h[i] < h[j]
  <2>1. v[i] < v[j]
    BY <1>5, <1>8 DEF Enumerates
  <2>2. QED
    BY <1>6, <1>7, <2>1 DEF Part
<1>9. ASSUME NEW x \in S PROVE \E k \in 1..n : h[k] = x
  <2>1. PICK i \in Seen(R, op) : e[i] = x
    BY <1>4, PartSeen
  <2>2. PICK k \in 1..n : v[k] = i
    BY <1>5 DEF Enumerates
  <2>3. QED
    BY <1>7, <2>1, <2>2
<1>10. h \in [1..n -> S]
  BY <1>3, <1>7
<1>11. Enumerates(h, n, S)
  BY <1>6, <1>8, <1>9, <1>10 DEF Enumerates
<1>12. n = Len(Visible(F, op)) /\ h = Visible(F, op)
  BY <1>5, <1>11, EnumerationsAgree
<1>13. QED
  BY <1>1, <1>2, <1>6, <1>7, <1>12

\* So it puts an insert behind the same atom, and a delete strikes the same.
LEMMA PartAnchor ==
  ASSUME NEW R, NEW F, NEW D, NEW e, Part(R, F, D, e), NEW op \in Operations,
         Hears(F, op, D)
  PROVE  \/ Anchor(R, op) = 0 /\ Anchor(F, op) = 0
         \/ Anchor(R, op) \in DOMAIN R /\ Anchor(F, op) = e[Anchor(R, op)]
<1>1. PICK n : n = Len(Visible(R, op))
  OBVIOUS
<1>2. n = Len(Visible(F, op)) /\ n \in Nat
  BY <1>1, PartVisible
<1>3. PICK k : k = Offset(R, op)
  OBVIOUS
<1>4. k = Offset(F, op) /\ k \in 0..n
  BY <1>1, <1>2, <1>3, PartFacts, AnchorProps DEF Offset
<1>5. CASE k = 0
  BY <1>3, <1>4, <1>5 DEF Anchor
<1>6. CASE k # 0
  <2>1. k \in 1..n
    BY <1>2, <1>4, <1>6
  <2>2. Visible(R, op)[k] \in DOMAIN R /\ Visible(F, op)[k] = e[Visible(R, op)[k]]
    BY <1>1, <2>1, PartVisible
  <2>3. QED
    BY <1>3, <1>4, <1>6, <2>2 DEF Anchor
<1>7. QED
  BY <1>5, <1>6

LEMMA PartStruck ==
  ASSUME NEW R, NEW F, NEW D, NEW e, Part(R, F, D, e), NEW op \in Operations,
         Hears(F, op, D)
  PROVE  /\ \A i \in DOMAIN R : i \in StruckBy(R, op) <=> e[i] \in StruckBy(F, op)
         /\ \A p \in StruckBy(F, op) : \E i \in DOMAIN R : e[i] = p
<1>1. PICK n : n = Len(Visible(R, op))
  OBVIOUS
<1>2. n = Len(Visible(F, op)) /\ n \in Nat
  BY <1>1, PartVisible
<1>3. PICK K : K = (op.from + 1)..Least2(op.to, n)
  OBVIOUS
<1>4. \A k \in K : k \in 1..n
  BY <1>2, <1>3, OperationFacts DEF Least2
<1>5. \A k \in K : /\ Visible(R, op)[k] \in DOMAIN R
                   /\ Visible(F, op)[k] = e[Visible(R, op)[k]]
  BY <1>1, <1>4, PartVisible
<1>6. \A p : p \in StruckBy(R, op) <=> \E k \in K : p = Visible(R, op)[k]
  BY <1>1, <1>3 DEF StruckBy
<1>7. \A p : p \in StruckBy(F, op) <=> \E k \in K : p = Visible(F, op)[k]
  BY <1>2, <1>3 DEF StruckBy
<1>8. ASSUME NEW i \in DOMAIN R, e[i] \in StruckBy(F, op) PROVE i \in StruckBy(R, op)
  <2>1. PICK k \in K : e[i] = Visible(F, op)[k]
    BY <1>7, <1>8
  <2>2. e[i] = e[Visible(R, op)[k]] /\ Visible(R, op)[k] \in DOMAIN R
    BY <1>5, <2>1
  <2>3. i = Visible(R, op)[k]
    BY <2>2, PartOrder
  <2>4. QED
    BY <1>6, <2>3
<1>9. ASSUME NEW i \in DOMAIN R, i \in StruckBy(R, op) PROVE e[i] \in StruckBy(F, op)
  BY <1>5, <1>6, <1>7, <1>9
<1>10. ASSUME NEW p \in StruckBy(F, op) PROVE \E i \in DOMAIN R : e[i] = p
  BY <1>5, <1>7
<1>11. QED
  BY <1>8, <1>9, <1>10
LEMMA AtomsAgree ==
  ASSUME NEW x \in Atoms, NEW y \in Atoms,
         x.label = y.label, x.by = y.by, x.dead = y.dead, x.gone = y.gone
  PROVE  x = y
<1>1. /\ x = [label |-> x.label, by |-> x.by, dead |-> x.dead, gone |-> x.gone]
      /\ y = [label |-> y.label, by |-> y.by, dead |-> y.dead, gone |-> y.gone]
  BY DEF Atoms
<1>2. QED
  BY <1>1

\* The part that is everything.
LEMMA WholePart ==
  ASSUME NEW R, NEW F, NEW D, NEW e, Part(R, F, D, e),
         \A p \in DOMAIN F : F[p].by \in D \cup {Base} /\ F[p].gone \subseteq D
  PROVE  R = F
<1>1. /\ R \in Seq(Atoms) /\ F \in Seq(Atoms)
      /\ DOMAIN R = 1..Len(R) /\ DOMAIN F = 1..Len(F) /\ Len(R) \in Nat /\ Len(F) \in Nat
  BY PartFacts
<1>2. PICK n \in Nat : n = Len(R)
  BY <1>1
<1>3. PICK m \in Nat : m = Len(F)
  BY <1>1
<1>4. PICK S : S = 1..m
  OBVIOUS
<1>5. PICK id : id = [k \in 1..m |-> k]
  OBVIOUS
<1>6. Enumerates(id, m, S) /\ S \in SUBSET Nat
  BY <1>4, <1>5 DEF Enumerates
<1>7. e \in [1..n -> S] /\ \A i, j \in 1..n : i < j => e[i] < e[j]
  BY <1>1, <1>2, <1>3, <1>4 DEF Part
<1>8. \A p \in S : \E i \in 1..n : e[i] = p
  BY <1>1, <1>2, <1>3, <1>4 DEF Part
<1>9. Enumerates(e, n, S)
  BY <1>7, <1>8 DEF Enumerates
<1>10. n = m /\ e = id
  BY <1>6, <1>9, EnumerationsAgree
<1>11. ASSUME NEW i \in DOMAIN R PROVE i \in DOMAIN F /\ R[i] = F[i]
  <2>1. e[i] = i /\ i \in DOMAIN F
    BY <1>1, <1>2, <1>3, <1>5, <1>10
  <2>2. SameAtom(R[i], F[i], D)
    BY <2>1 DEF Part
  <2>3. R[i] \in Atoms /\ F[i] \in Atoms
    BY <1>1, <2>1
  <2>4. F[i].gone \cap D = F[i].gone
    BY <2>1
  <2>5. /\ R[i].label = F[i].label /\ R[i].by = F[i].by
        /\ R[i].dead = F[i].dead /\ R[i].gone = F[i].gone
    BY <2>2, <2>4 DEF SameAtom
  <2>6. QED
    BY <2>1, <2>3, <2>5, AtomsAgree
<1>12. QED
  BY <1>1, <1>2, <1>3, <1>10, <1>11

\* A part of a part.
LEMMA PartOfPart ==
  ASSUME NEW A, NEW B, NEW C, NEW D, NEW E, D \subseteq E,
         NEW d, Part(A, B, D, d), NEW e, Part(B, C, E, e)
  PROVE  \E f : Part(A, C, D, f)
<1>1. PICK f : f = [i \in DOMAIN A |-> e[d[i]]]
  OBVIOUS
<1>2. \A i \in DOMAIN A : d[i] \in DOMAIN B
  BY PartFacts
<1>3. A \in Seq(Atoms) /\ C \in Seq(Atoms) /\ f \in [DOMAIN A -> DOMAIN C]
  BY <1>1, <1>2 DEF Part
<1>4. ASSUME NEW i \in DOMAIN A, NEW j \in DOMAIN A, i < j PROVE f[i] < f[j]
  <2>1. d[i] < d[j]
    BY <1>4 DEF Part
  <2>2. e[d[i]] < e[d[j]]
    BY <1>2, <2>1 DEF Part
  <2>3. QED
    BY <1>1, <2>2
<1>5. ASSUME NEW i \in DOMAIN A
      PROVE  SameAtom(A[i], C[f[i]], D) /\ A[i].by \in D \cup {Base}
  <2>1. SameAtom(A[i], B[d[i]], D) /\ A[i].by \in D \cup {Base}
    BY DEF Part
  <2>2. SameAtom(B[d[i]], C[e[d[i]]], E)
    BY <1>2 DEF Part
  <2>3. QED
    BY <1>1, <2>1, <2>2 DEF SameAtom
<1>6. ASSUME NEW p \in DOMAIN C, C[p].by \in D \cup {Base}
      PROVE  \E i \in DOMAIN A : f[i] = p
  <2>1. PICK j \in DOMAIN B : e[j] = p
    BY <1>6 DEF Part
  <2>2. B[j].by \in D \cup {Base}
    BY <1>6, <2>1 DEF Part, SameAtom
  <2>3. PICK i \in DOMAIN A : d[i] = j
    BY <2>2 DEF Part
  <2>4. QED
    BY <1>1, <2>1, <2>3
<1>7. Part(A, C, D, f)
  BY <1>3, <1>4, <1>5, <1>6 DEF Part
<1>8. QED
  BY <1>7

\* The atoms of an insert stand in F, at b.
InPlace(F, op, b) ==
    /\ b \in [1..Len(op.text) -> DOMAIN F]
    /\ \A i, j \in 1..Len(op.text) : i < j => b[i] < b[j]
    /\ \A k \in 1..Len(op.text) :
           F[b[k]].by = op /\ F[b[k]].label = op.text[k] /\ ~F[b[k]].dead
    /\ \A p \in DOMAIN F : F[p].by = op => \E k \in 1..Len(op.text) : b[k] = p

\* An insert, put into a sequence of atoms.
PutIn(atoms, op, at) ==
    SubSeq(atoms, 1, at) \o Inserted(op) \o SubSeq(atoms, at + 1, Len(atoms))

\* It puts w atoms behind the first at.
PutsIn(R, op, at, w, new) ==
    /\ w \in Nat /\ Len(R) \in Nat /\ at \in 0..Len(R)
    /\ new \in Seq(Atoms) /\ Len(new) = Len(R) + w
    /\ DOMAIN new = 1..(Len(R) + w) /\ DOMAIN R = 1..Len(R)
    /\ \A i \in 1..at : new[i] = R[i]
    /\ \A i \in 1..w : /\ new[at + i].by = op /\ new[at + i].label = op.text[i]
                       /\ ~new[at + i].dead /\ new[at + i].gone = {}
    /\ \A i \in 1..(Len(R) - at) : new[at + w + i] = R[at + i]

LEMMA PutInFacts ==
  ASSUME NEW R \in Seq(Atoms), NEW op \in Operations, NEW at \in 0..Len(R)
  PROVE  PutsIn(R, op, at, Len(op.text), PutIn(R, op, at))
<1>1. PICK new : new = PutIn(R, op, at)
  OBVIOUS
<1>2. PICK w : w = Len(op.text)
  OBVIOUS
<1>3. Inserted(op) \in Seq(Atoms) /\ Len(Inserted(op)) = w
  BY <1>2, InsertedProps
<1>4. Splices(R, Inserted(op), at, w, new)
  BY <1>1, <1>3, SpliceFacts DEF PutIn
<1>5. w \in Nat /\ DOMAIN op.text = 1..w
  BY <1>2, OperationFacts DEF Texts
<1>6. \A i \in 1..w : /\ Inserted(op)[i].by = op /\ Inserted(op)[i].label = op.text[i]
                      /\ ~Inserted(op)[i].dead /\ Inserted(op)[i].gone = {}
  BY <1>5 DEF Inserted
<1>7. /\ new \in Seq(Atoms) /\ Len(new) = Len(R) + w
      /\ \A i \in 1..at : new[i] = R[i]
      /\ \A i \in 1..w : new[at + i] = Inserted(op)[i]
      /\ \A i \in 1..(Len(R) - at) : new[at + w + i] = R[at + i]
  BY <1>4 DEF Splices
<1>8. DOMAIN R = 1..Len(R) /\ Len(R) \in Nat /\ DOMAIN new = 1..Len(new)
  BY <1>7
<1>9. PutsIn(R, op, at, w, new)
  BY <1>5, <1>6, <1>7, <1>8 DEF PutsIn
<1>10. QED
  BY <1>1, <1>2, <1>9
\* Putting an insert where it stands in F.
LEMMA PartInsert ==
  ASSUME NEW R, NEW F, NEW D, NEW e, Part(R, F, D, e), NEW op \in Operations,
         NEW b, InPlace(F, op, b), NEW at \in 0..Len(R),
         \A i \in DOMAIN R : \A k \in 1..Len(op.text) :
             (i <= at => e[i] < b[k]) /\ (at < i => b[k] < e[i]),
         \A k \in 1..Len(op.text) : F[b[k]].gone \cap (D \cup {op}) = {},
         \A p \in DOMAIN F : op \notin F[p].gone
  PROVE  \E f : Part(PutIn(R, op, at), F, D \cup {op}, f)
<1>1. PICK w : w = Len(op.text)
  OBVIOUS
<1>2. PICK new : new = PutIn(R, op, at)
  OBVIOUS
<1>3. PICK N : N = Len(R)
  OBVIOUS
<1>4. R \in Seq(Atoms) /\ F \in Seq(Atoms) /\ DOMAIN F = 1..Len(F) /\ Len(F) \in Nat
      /\ \A i \in DOMAIN R : e[i] \in DOMAIN F /\ e[i] \in Nat
  BY PartFacts
<1>18. R \in Seq(Atoms)
  BY <1>4
<1>19. PutsIn(R, op, at, w, new)
  BY <1>1, <1>2, <1>18, PutInFacts
<1>5. /\ w \in Nat /\ N \in Nat /\ at \in 0..N /\ at \in Nat
      /\ new \in Seq(Atoms) /\ DOMAIN new = 1..(N + w) /\ DOMAIN R = 1..N
  BY <1>3, <1>19 DEF PutsIn
<1>6. /\ \A i \in 1..at : new[i] = R[i]
      /\ \A i \in 1..w : /\ new[at + i].by = op /\ new[at + i].label = op.text[i]
                         /\ ~new[at + i].dead /\ new[at + i].gone = {}
      /\ \A i \in 1..(N - at) : new[at + w + i] = R[at + i]
  BY <1>3, <1>19 DEF PutsIn
<1>7. PICK f : f = [i \in 1..(N + w) |-> IF i <= at THEN e[i]
                                         ELSE IF i <= at + w THEN b[i - at]
                                         ELSE e[i - w]]
  OBVIOUS
\* The three stretches.
<1>8. ASSUME NEW i \in 1..(N + w)
      PROVE  \/ i \in DOMAIN R /\ i <= at /\ f[i] = e[i] /\ new[i] = R[i]
             \/ /\ at < i /\ i <= at + w /\ i - at \in 1..w /\ f[i] = b[i - at]
                /\ new[i].by = op /\ new[i].label = op.text[i - at]
                /\ ~new[i].dead /\ new[i].gone = {}
             \/ /\ at + w < i /\ i - w \in DOMAIN R /\ at < i - w
                /\ f[i] = e[i - w] /\ new[i] = R[i - w]
  <2>1. CASE i <= at
    BY <1>5, <1>6, <1>7, <2>1
  <2>2. CASE at < i /\ i <= at + w
    <3>1. PICK k \in 1..w : i = at + k
      <4>1. i - at \in 1..w /\ i = at + (i - at)
        BY <1>5, <2>2
      <4>2. QED
        BY <4>1
    <3>2. i - at = k /\ ~(i <= at)
      BY <1>5, <2>2, <3>1
    <3>3. f[i] = b[k]
      BY <1>7, <2>2, <3>2
    <3>4. QED
      BY <1>6, <2>2, <3>1, <3>2, <3>3
  <2>3. CASE at + w < i
    <3>1. PICK k \in 1..(N - at) : i = at + w + k
      <4>1. i - (at + w) \in 1..(N - at) /\ i = at + w + (i - (at + w))
        BY <1>5, <2>3
      <4>2. QED
        BY <4>1
    <3>2. i - w = at + k /\ ~(i <= at) /\ ~(i <= at + w) /\ at + k \in 1..N /\ at < at + k
      BY <1>5, <2>3, <3>1
    <3>3. f[i] = e[i - w]
      BY <1>7, <3>2
    <3>4. new[i] = R[at + k]
      BY <1>6, <3>1
    <3>5. QED
      BY <1>5, <2>3, <3>2, <3>3, <3>4
  <2>4. QED
    BY <1>5, <2>1, <2>2, <2>3
<1>15. b \in [1..w -> DOMAIN F]
  BY <1>1 DEF InPlace
<1>16. \A k \in 1..w : b[k] \in DOMAIN F /\ b[k] \in Nat
  BY <1>4, <1>15
<1>9. /\ \A k \in 1..w : b[k] \in DOMAIN F /\ b[k] \in Nat
      /\ \A i, j \in 1..w : i < j => b[i] < b[j]
      /\ \A k \in 1..w : F[b[k]].by = op /\ F[b[k]].label = op.text[k] /\ ~F[b[k]].dead
      /\ \A p \in DOMAIN F : F[p].by = op => \E k \in 1..w : b[k] = p
  BY <1>1, <1>16 DEF InPlace
<1>10. ASSUME NEW i \in 1..(N + w)
       PROVE  f[i] \in DOMAIN F /\ SameAtom(new[i], F[f[i]], D \cup {op})
              /\ new[i].by \in (D \cup {op}) \cup {Base}
  <2>1. ASSUME NEW j \in DOMAIN R, f[i] = e[j], new[i] = R[j]
        PROVE  f[i] \in DOMAIN F /\ SameAtom(new[i], F[f[i]], D \cup {op})
               /\ new[i].by \in (D \cup {op}) \cup {Base}
    <3>1. SameAtom(R[j], F[e[j]], D) /\ R[j].by \in D \cup {Base} /\ e[j] \in DOMAIN F
      BY <1>4 DEF Part
    <3>2. op \notin F[e[j]].gone
      BY <3>1
    <3>3. F[e[j]].gone \cap D = F[e[j]].gone \cap (D \cup {op})
      BY <3>2
    <3>4. QED
      BY <2>1, <3>1, <3>3 DEF SameAtom
  <2>2. ASSUME i - at \in 1..w, f[i] = b[i - at],
               new[i].by = op, new[i].label = op.text[i - at],
               ~new[i].dead, new[i].gone = {}
        PROVE  f[i] \in DOMAIN F /\ SameAtom(new[i], F[f[i]], D \cup {op})
               /\ new[i].by \in (D \cup {op}) \cup {Base}
    <3>1. PICK k \in 1..w : k = i - at
      BY <2>2
    <3>2. f[i] = b[k] /\ F[b[k]].by = op /\ F[b[k]].label = op.text[k] /\ ~F[b[k]].dead
          /\ b[k] \in DOMAIN F
      BY <1>9, <2>2, <3>1
    <3>3. F[b[k]].gone \cap (D \cup {op}) = {}
      BY <1>1, <3>1
    <3>4. new[i] \in Atoms /\ F[b[k]] \in Atoms
      BY <1>4, <1>5, <3>2
    <3>5. new[i].dead = F[b[k]].dead
      BY <2>2, <3>2, <3>4 DEF Atoms
    <3>6. QED
      BY <2>2, <3>1, <3>2, <3>3, <3>5 DEF SameAtom
  <2>3. QED
    BY <1>8, <2>1, <2>2
<1>11. ASSUME NEW i \in 1..(N + w), NEW j \in 1..(N + w), i < j
       PROVE  f[i] < f[j]
  <2>1. \A x \in DOMAIN R, y \in DOMAIN R : x < y => e[x] < e[y]
    BY DEF Part
  <2>2. \A x \in DOMAIN R : \A k \in 1..w :
            (x <= at => e[x] < b[k]) /\ (at < x => b[k] < e[x])
    BY <1>1
  <2>3. CASE i <= at
    <3>1. i \in DOMAIN R /\ f[i] = e[i]
      BY <1>5, <1>8, <2>3
    <3>2. CASE j <= at
      BY <1>5, <1>8, <1>11, <2>1, <3>1, <3>2
    <3>3. CASE at < j /\ j <= at + w
      <4>1. j - at \in 1..w /\ f[j] = b[j - at]
        BY <1>5, <1>8, <3>3
      <4>2. QED
        BY <2>2, <2>3, <3>1, <4>1
    <3>4. CASE at + w < j
      <4>1. j - w \in DOMAIN R /\ f[j] = e[j - w] /\ i < j - w
        BY <1>5, <1>8, <2>3, <3>4
      <4>2. QED
        BY <2>1, <3>1, <4>1
    <3>5. QED
      BY <1>5, <3>2, <3>3, <3>4
  <2>4. CASE at < i /\ i <= at + w
    <3>1. i - at \in 1..w /\ f[i] = b[i - at]
      BY <1>5, <1>8, <2>4
    <3>2. CASE j <= at + w
      <4>1. j - at \in 1..w /\ f[j] = b[j - at] /\ i - at < j - at
        BY <1>5, <1>8, <1>11, <2>4, <3>2
      <4>2. QED
        BY <1>9, <3>1, <4>1
    <3>3. CASE at + w < j
      <4>1. j - w \in DOMAIN R /\ f[j] = e[j - w] /\ at < j - w
        BY <1>5, <1>8, <3>3
      <4>2. QED
        BY <2>2, <3>1, <4>1
    <3>4. QED
      BY <1>5, <3>2, <3>3
  <2>5. CASE at + w < i
    <3>1. i - w \in DOMAIN R /\ f[i] = e[i - w]
      BY <1>5, <1>8, <2>5
    <3>2. j - w \in DOMAIN R /\ f[j] = e[j - w]
      BY <1>5, <1>8, <1>11, <2>5
    <3>3. i - w < j - w
      BY <1>5, <1>11
    <3>4. QED
      BY <2>1, <3>1, <3>2, <3>3
  <2>6. QED
    BY <1>5, <2>3, <2>4, <2>5
<1>12. ASSUME NEW p \in DOMAIN F, F[p].by \in (D \cup {op}) \cup {Base}
       PROVE  \E i \in DOMAIN new : f[i] = p
  <2>1. CASE F[p].by = op
    <3>1. PICK k \in 1..w : b[k] = p
      BY <1>9, <2>1
    <3>2. at + k \in 1..(N + w) /\ ~(at + k <= at) /\ at + k <= at + w /\ (at + k) - at = k
      BY <1>5
    <3>3. f[at + k] = b[k]
      BY <1>7, <3>2
    <3>4. QED
      BY <1>5, <3>1, <3>2, <3>3
  <2>2. CASE F[p].by \in D \cup {Base}
    <3>1. PICK i \in DOMAIN R : e[i] = p
      BY <2>2 DEF Part
    <3>2. CASE i <= at
      <4>1. i \in 1..(N + w) /\ f[i] = e[i]
        BY <1>5, <1>7, <3>2
      <4>2. QED
        BY <1>5, <3>1, <4>1
    <3>3. CASE at < i
      <4>1. i + w \in 1..(N + w) /\ ~(i + w <= at) /\ ~(i + w <= at + w) /\ (i + w) - w = i
        BY <1>5, <3>3
      <4>2. f[i + w] = e[i]
        BY <1>7, <4>1
      <4>3. QED
        BY <1>5, <3>1, <4>1, <4>2
    <3>4. QED
      BY <1>5, <3>2, <3>3
  <2>3. QED
    BY <1>12, <2>1, <2>2
<1>13. f \in [DOMAIN new -> DOMAIN F]
  <2>1. f = [i \in 1..(N + w) |-> f[i]]
    BY <1>7
  <2>2. QED
    BY <1>5, <1>10, <2>1
<1>14. Part(new, F, D \cup {op}, f)
  BY <1>4, <1>5, <1>10, <1>11, <1>12, <1>13 DEF Part
<1>17. QED
  BY <1>2, <1>14
-----------------------------------------------------------------------------
(* The text that a merge leaves: where each edit stands in it.             *)

\* An insert stands behind the atom its author saw, and what stands between is
\* its own or ranked after it.
Behind(F, op, rank) == \A p \in DOMAIN F : F[p].by = op =>
    /\ Anchor(F, op) < p
    /\ \A q \in DOMAIN F : Anchor(F, op) < q /\ q < p =>
           F[q].by # Base /\ (F[q].by = op \/ rank[F[q].by] > rank[op])

\* An insert stands in F once and strikes nothing; a delete has struck what its
\* author saw.
Settled(F, op, rank) ==
    IF op.kind = "insert"
    THEN /\ Behind(F, op, rank)
         /\ \E b : InPlace(F, op, b)
         /\ \A p \in DOMAIN F : op \notin F[p].gone
    ELSE \A p \in DOMAIN F :
            F[p].by # op /\ (op \in F[p].gone <=> p \in StruckBy(F, op))

\* F is what the edits E have made.
SettledBy(F, E, rank) ==
    /\ F \in Seq(Atoms) /\ E \subseteq Operations
    /\ \A p \in DOMAIN F : F[p].by \in E \cup {Base} /\ F[p].gone \subseteq E
    /\ \A op \in E : Settled(F, op, rank)

\* Each edit has a rank of its own, above those of what it observes.
RankedBy(E, rank) == \A x, y \in E :
    /\ rank[x] \in Nat /\ rank[y] \in Nat
    /\ x # y => rank[x] # rank[y]
    /\ Observes(x, y) => rank[y] < rank[x]

\* The edits D have all that they, and op, observe; op is to come.
Follows(D, op, E) ==
    /\ D \subseteq E /\ op \in E /\ op \notin D
    /\ \A x \in D \cup {op} : \A y \in E : Observes(x, y) => y \in D

LEMMA FollowsHears ==
  ASSUME NEW F, NEW E, NEW rank, SettledBy(F, E, rank),
         NEW D, NEW op, Follows(D, op, E), NEW x \in D \cup {op}
  PROVE  Hears(F, x, D)
<1>1. ASSUME NEW p \in DOMAIN F
      PROVE  /\ F[p].by # Base /\ Observes(x, F[p].by) => F[p].by \in D
             /\ \A d \in F[p].gone : Observes(x, d) => d \in D
  BY DEF SettledBy, Follows
<1>2. QED
  BY <1>1 DEF Hears

\* Who has put text into F is an insert.
LEMMA AuthorInserts ==
  ASSUME NEW F, NEW E, NEW rank, SettledBy(F, E, rank), NEW p \in DOMAIN F,
         F[p].by \in E
  PROVE  F[p].by.kind = "insert" /\ Behind(F, F[p].by, rank) /\ F[p].by # Base
<1>1. PICK y \in E : y = F[p].by
  OBVIOUS
<1>2. Settled(F, y, rank) /\ y \in Operations
  BY DEF SettledBy
<1>3. y.kind = "insert"
  BY <1>1, <1>2 DEF Settled
<1>4. QED
  BY <1>1, <1>2, <1>3, OperationFacts DEF Settled

\* Fed in as soon as it may come, an insert lands where it stands in F.
LEMMA LandsInPlace ==
  ASSUME NEW F, NEW E, NEW rank, SettledBy(F, E, rank), RankedBy(E, rank),
         NEW D, NEW op, Follows(D, op, E), op.kind = "insert",
         NEW R, NEW e, Part(R, F, D, e), NEW at, LandsBehind(R, op, rank, at),
         NEW q \in DOMAIN F, F[q].by = op
  PROVE  \A i \in DOMAIN R : (i <= at => e[i] < q) /\ (at < i => q < e[i])
<1>1. /\ F \in Seq(Atoms) /\ DOMAIN F = 1..Len(F) /\ Len(F) \in Nat
      /\ R \in Seq(Atoms) /\ DOMAIN R = 1..Len(R) /\ Len(R) \in Nat
      /\ \A i \in DOMAIN R : e[i] \in DOMAIN F /\ i \in Nat /\ e[i] \in Nat /\ e[i] # 0
  BY PartFacts
<1>2. D \subseteq E /\ op \in E /\ op \notin D /\ op \in Operations /\ op # Base
  <2>1. D \subseteq E /\ op \in E /\ op \notin D
    BY DEF Follows
  <2>2. op \in Operations
    BY <2>1 DEF SettledBy
  <2>3. QED
    BY <2>1, <2>2, OperationFacts
<1>3. PICK a : a = Anchor(R, op)
  OBVIOUS
<1>4. a \in 0..Len(R) /\ a \in Nat
  BY <1>1, <1>2, <1>3, AnchorProps
<1>5. /\ at \in 0..Len(R) /\ a <= at /\ at \in Nat
      /\ \A i \in (a + 1)..at : Stepped(R, op, rank, i)
      /\ at < Len(R) => ~Stepped(R, op, rank, at + 1)
  BY <1>1, <1>3 DEF LandsBehind
<1>6. q \in Nat
  BY <1>1
<1>7. PICK A : A = Anchor(F, op)
  OBVIOUS
<1>8. (a = 0 /\ A = 0) \/ (a \in DOMAIN R /\ A = e[a])
  BY <1>2, <1>3, <1>7, FollowsHears, PartAnchor
<1>9. /\ A < q
      /\ \A p \in DOMAIN F : A < p /\ p < q =>
             F[p].by # Base /\ (F[p].by = op \/ rank[F[p].by] > rank[op])
  <2>1. Behind(F, op, rank)
    BY <1>2 DEF SettledBy, Settled
  <2>2. QED
    BY <1>7, <2>1 DEF Behind
<1>10. ASSUME NEW i \in DOMAIN R
       PROVE  F[e[i]].by = R[i].by /\ R[i].by \in D \cup {Base} /\ e[i] # q
  <2>1. F[e[i]].by = R[i].by /\ R[i].by \in D \cup {Base}
    BY DEF Part, SameAtom
  <2>2. QED
    BY <1>2, <2>1
<1>11. \A i \in DOMAIN R : i <= a => e[i] < q
  <2>1. ASSUME NEW i \in DOMAIN R, i <= a PROVE e[i] < q
    <3>1. a \in DOMAIN R /\ A = e[a]
      BY <1>1, <1>8, <2>1
    <3>2. e[i] <= e[a]
      BY <2>1, <3>1, PartOrder
    <3>3. e[a] < q
      BY <1>9, <3>1
    <3>4. QED
      BY <1>1, <1>6, <3>1, <3>2, <3>3
  <2>2. QED
    BY <2>1
<1> DEFINE T == {n \in Nat : \A i \in DOMAIN R : i <= n /\ i <= at => e[i] < q}
<1>12. 0 \in T
  BY <1>1
<1>13. ASSUME NEW n \in Nat, n \in T PROVE n + 1 \in T
  <2>1. SUFFICES ASSUME n + 1 \in DOMAIN R, n + 1 <= at PROVE e[n + 1] < q
    BY <1>1, <1>13
  <2>2. PICK i \in DOMAIN R : i = n + 1
    BY <2>1
  <2>3. \A j \in DOMAIN R : j < i => e[j] < q
    BY <1>1, <1>5, <1>13, <2>1, <2>2
  <2>4. CASE i <= a
    BY <1>11, <2>2, <2>4
  <2>5. CASE a < i
    <3>1. Stepped(R, op, rank, i)
      <4>1. i \in (a + 1)..at
        BY <1>1, <1>4, <1>5, <2>1, <2>2, <2>5
      <4>2. QED
        BY <1>5, <4>1
    <3>2. PICK y \in D : y = R[i].by
      BY <1>10, <3>1 DEF Stepped
    <3>3. y \in E /\ y \in Operations /\ y # op /\ F[e[i]].by = y /\ rank[y] > rank[op]
      BY <1>2, <1>10, <3>1, <3>2 DEF Stepped, SettledBy
    <3>4. Behind(F, y, rank)
      BY <1>1, <3>3, AuthorInserts
    <3>5. PICK B : B = Anchor(F, y)
      OBVIOUS
    <3>6. /\ B < e[i]
          /\ \A p \in DOMAIN F : B < p /\ p < e[i] =>
                 F[p].by # Base /\ (F[p].by = y \/ rank[F[p].by] > rank[y])
      BY <1>1, <3>3, <3>4, <3>5 DEF Behind
    <3>7. SUFFICES ASSUME q < e[i] PROVE FALSE
      BY <1>1, <1>6, <1>10, <2>2
    <3>8. rank[op] \in Nat /\ rank[y] \in Nat
      BY <1>2, <3>3 DEF RankedBy
    <3>9. ~(B < q)
      BY <3>3, <3>6, <3>7, <3>8
    <3>10. PICK j : j = Anchor(R, y)
      OBVIOUS
    <3>11. Hears(F, y, D)
      BY <3>2, FollowsHears
    <3>12. (j = 0 /\ B = 0) \/ (j \in DOMAIN R /\ B = e[j])
      BY <3>3, <3>5, <3>10, <3>11, PartAnchor
    <3>13. j \in DOMAIN R /\ B = e[j]
      BY <1>1, <1>6, <3>9, <3>12
    <3>14. j < i
      BY <3>6, <3>13, PartOrder
    <3>15. e[j] < q
      BY <2>3, <3>13, <3>14
    <3>16. QED
      BY <3>9, <3>13, <3>15
  <2>6. QED
    BY <1>1, <1>4, <2>2, <2>4, <2>5
<1> HIDE DEF T
<1>14. \A n \in Nat : n \in T
  BY <1>12, <1>13, SetInduction
<1>15. ASSUME NEW i \in DOMAIN R, i <= at PROVE e[i] < q
  <2>1. i \in T /\ i <= i
    BY <1>1, <1>14
  <2>2. QED
    BY <1>15, <2>1 DEF T
<1>16. ASSUME NEW i \in DOMAIN R, at < i PROVE q < e[i]
  <2>1. PICK z \in DOMAIN R : z = at + 1
    BY <1>1, <1>5, <1>16
  <2>2. ~Stepped(R, op, rank, z) /\ a < z
    BY <1>1, <1>4, <1>5, <2>1
  <2>3. q < e[z]
    <3>1. SUFFICES ASSUME e[z] < q PROVE FALSE
      BY <1>1, <1>6, <1>10
    <3>2. A < e[z]
      <4>1. CASE a = 0 /\ A = 0
        BY <1>1, <4>1
      <4>2. CASE a \in DOMAIN R /\ A = e[a]
        BY <2>2, <4>2, PartOrder
      <4>3. QED
        BY <1>8, <4>1, <4>2
    <3>3. F[e[z]].by # Base /\ (F[e[z]].by = op \/ rank[F[e[z]].by] > rank[op])
      BY <1>1, <1>9, <3>1, <3>2
    <3>4. PICK y \in D : y = R[z].by
      BY <1>10, <3>3
    <3>5. rank[y] > rank[op] /\ y \in E /\ R[z].by # Base
      BY <1>2, <1>10, <3>3, <3>4
    <3>6. Observes(op, y)
      BY <2>2, <3>4, <3>5 DEF Stepped
    <3>7. rank[y] < rank[op] /\ rank[y] \in Nat /\ rank[op] \in Nat
      BY <1>2, <3>5, <3>6 DEF RankedBy
    <3>8. QED
      BY <3>5, <3>7
  <2>4. z <= i
    BY <1>1, <1>5, <1>16, <2>1
  <2>5. e[z] <= e[i]
    BY <2>4, PartOrder
  <2>6. QED
    BY <1>1, <1>6, <2>3, <2>5
<1>17. QED
  BY <1>15, <1>16
LEMMA EditedAs ==
  ASSUME NEW atoms, NEW op, NEW rank
  PROVE  /\ op.kind = "insert" =>
                Edited(atoms, op, rank) = PutIn(atoms, op, Landing(atoms, op, rank))
         /\ op.kind # "insert" =>
                Edited(atoms, op, rank) = Struck(atoms, op, StruckBy(atoms, op))
<1>1. PICK struck : struck = StruckBy(atoms, op)
  OBVIOUS
<1>2. op.kind # "insert" => Edited(atoms, op, rank) = Struck(atoms, op, struck)
  BY <1>1 DEF Edited, Struck, StruckBy
<1>3. PICK at : at = Landing(atoms, op, rank)
  OBVIOUS
<1>4. op.kind = "insert" => Edited(atoms, op, rank) = PutIn(atoms, op, at)
  BY <1>3 DEF Edited, PutIn, Inserted
<1>5. QED
  BY <1>1, <1>2, <1>3, <1>4

\* Deleting what F has deleted.
LEMMA PartStrike ==
  ASSUME NEW R, NEW F, NEW D, NEW e, Part(R, F, D, e), NEW op \in Operations,
         Hears(F, op, D),
         \A p \in DOMAIN F : F[p].by # op /\ (op \in F[p].gone <=> p \in StruckBy(F, op))
  PROVE  Part(Struck(R, op, StruckBy(R, op)), F, D \cup {op}, e)
<1>1. PICK struck : struck = StruckBy(R, op)
  OBVIOUS
<1>2. PICK new : new = Struck(R, op, struck)
  OBVIOUS
<1>3. R \in Seq(Atoms) /\ F \in Seq(Atoms) /\ \A i \in DOMAIN R : e[i] \in DOMAIN F
  BY PartFacts
<1>4. new \in Seq(Atoms) /\ DOMAIN new = DOMAIN R
  BY <1>2, <1>3, StruckProps
<1>5. ASSUME NEW i \in DOMAIN R
      PROVE  SameAtom(new[i], F[e[i]], D \cup {op}) /\ new[i].by \in (D \cup {op}) \cup {Base}
  <2>1. PICK x : x = R[i]
    OBVIOUS
  <2>2. PICK y : y = F[e[i]]
    OBVIOUS
  <2>3. x.label = y.label /\ x.by = y.by /\ x.dead = y.dead /\ x.gone = y.gone \cap D
        /\ x.by \in D \cup {Base}
    BY <2>1, <2>2 DEF Part, SameAtom
  <2>4. op \in y.gone <=> i \in struck
    BY <1>1, <1>3, <2>2, PartStruck
  <2>5. x \in Atoms
    BY <1>3, <2>1
  <2>6. PICK z : z = new[i]
    OBVIOUS
  <2>7. z = IF i \in struck THEN [x EXCEPT !.gone = @ \cup {op}] ELSE x
    BY <1>2, <2>1, <2>6 DEF Struck
  <2>8. z.label = x.label /\ z.by = x.by /\ z.dead = x.dead
        /\ z.gone = IF i \in struck THEN x.gone \cup {op} ELSE x.gone
    BY <2>5, <2>7 DEF Atoms
  <2>9. z.gone = y.gone \cap (D \cup {op})
    BY <2>3, <2>4, <2>8
  <2>10. QED
    BY <2>2, <2>3, <2>6, <2>8, <2>9 DEF SameAtom
<1>6. ASSUME NEW p \in DOMAIN F, F[p].by \in (D \cup {op}) \cup {Base}
      PROVE  \E i \in DOMAIN R : e[i] = p
  BY <1>6 DEF Part
<1>7. Part(new, F, D \cup {op}, e)
  <2>1. e \in [DOMAIN new -> DOMAIN F] /\ \A i, j \in DOMAIN new : i < j => e[i] < e[j]
    BY <1>4 DEF Part
  <2>2. QED
    BY <1>3, <1>4, <1>5, <1>6, <2>1 DEF Part
<1>8. QED
  BY <1>1, <1>2, <1>7

\* An edit that is fed in as soon as it may come makes of a part of F the part
\* that has the edit, too.
LEMMA AnyNextEdit ==
  ASSUME NEW F, NEW E, NEW rank, SettledBy(F, E, rank), RankedBy(E, rank),
         NEW D, NEW op, Follows(D, op, E), NEW R, NEW e, Part(R, F, D, e)
  PROVE  \E f : Part(Edited(R, op, rank), F, D \cup {op}, f)
<1>1. D \subseteq E /\ op \in E /\ op \notin D /\ op \in Operations /\ Settled(F, op, rank)
  BY DEF Follows, SettledBy
<1>2. Hears(F, op, D)
  BY FollowsHears
<1>3. R \in Seq(Atoms) /\ F \in Seq(Atoms)
  BY PartFacts
<1>4. CASE op.kind = "insert"
  <2>1. PICK b : InPlace(F, op, b)
    BY <1>1, <1>4 DEF Settled
  <2>2. PICK at : at = Landing(R, op, rank)
    OBVIOUS
  <2>3. LandsBehind(R, op, rank, at)
    BY <1>1, <1>3, <2>2, LandingBehind
  <2>4. at \in 0..Len(R)
    BY <2>3 DEF LandsBehind
  <2>5. \A k \in 1..Len(op.text) : b[k] \in DOMAIN F /\ F[b[k]].by = op
    BY <2>1 DEF InPlace
  <2>6. \A i \in DOMAIN R : \A k \in 1..Len(op.text) :
             (i <= at => e[i] < b[k]) /\ (at < i => b[k] < e[i])
    BY <1>4, <2>3, <2>5, LandsInPlace
  <2>7. \A p \in DOMAIN F : op \notin F[p].gone
    BY <1>1, <1>4 DEF Settled
  <2>8. ASSUME NEW k \in 1..Len(op.text), NEW d \in F[b[k]].gone PROVE d \notin D \cup {op}
    <3>1. d # op
      BY <2>5, <2>7
    <3>2. SUFFICES ASSUME d \in D PROVE FALSE
      BY <3>1
    <3>3. d \in E /\ d \in Operations /\ Settled(F, d, rank)
      BY <1>1, <3>2 DEF SettledBy
    <3>4. b[k] \in StruckBy(F, d)
      BY <2>5, <2>8, <3>3 DEF Settled
    <3>5. b[k] \in Seen(F, d)
      BY <1>3, <3>3, <3>4, AnchorProps
    <3>6. Observes(d, op)
      BY <1>1, <2>5, <3>5, OperationFacts DEF Seen, Sees
    <3>7. QED
      BY <1>1, <3>2, <3>6 DEF Follows
  <2>9. \A k \in 1..Len(op.text) : F[b[k]].gone \cap (D \cup {op}) = {}
    BY <2>8
  <2>10. \E f : Part(PutIn(R, op, at), F, D \cup {op}, f)
    BY <1>1, <2>1, <2>4, <2>6, <2>7, <2>9, PartInsert
  <2>11. QED
    BY <1>4, <2>2, <2>10, EditedAs
<1>5. CASE op.kind # "insert"
  <2>1. Part(Struck(R, op, StruckBy(R, op)), F, D \cup {op}, e)
    BY <1>1, <1>2, <1>5, PartStrike DEF Settled
  <2>2. QED
    BY <1>5, <2>1, EditedAs
<1>6. QED
  BY <1>4, <1>5
-----------------------------------------------------------------------------
(* In the causal order: each edit keeps what is settled, and settles.      *)

\* The three stretches of a text that an insert is put into.
LEMMA Stretches ==
  ASSUME NEW R, NEW op, NEW at, NEW w, NEW new, PutsIn(R, op, at, w, new),
         NEW i \in DOMAIN new
  PROVE  \/ i \in DOMAIN R /\ i <= at /\ new[i] = R[i]
         \/ /\ at < i /\ i <= at + w /\ i - at \in 1..w
            /\ new[i].by = op /\ new[i].label = op.text[i - at]
            /\ ~new[i].dead /\ new[i].gone = {}
         \/ at + w < i /\ i - w \in DOMAIN R /\ at < i - w /\ new[i] = R[i - w]
<1>1. PICK N \in Nat : N = Len(R)
  BY DEF PutsIn
<1>2. /\ w \in Nat /\ at \in 0..N /\ at \in Nat
      /\ DOMAIN new = 1..(N + w) /\ DOMAIN R = 1..N
  BY <1>1 DEF PutsIn
<1>3. /\ \A j \in 1..at : new[j] = R[j]
      /\ \A j \in 1..w : /\ new[at + j].by = op /\ new[at + j].label = op.text[j]
                         /\ ~new[at + j].dead /\ new[at + j].gone = {}
      /\ \A j \in 1..(N - at) : new[at + w + j] = R[at + j]
  BY <1>1 DEF PutsIn
<1>4. CASE i <= at
  BY <1>2, <1>3, <1>4
<1>5. CASE at < i /\ i <= at + w
  <2>1. PICK k \in 1..w : i = at + k
    <3>1. i - at \in 1..w /\ i = at + (i - at)
      BY <1>2, <1>5
    <3>2. QED
      BY <3>1
  <2>2. i - at = k
    BY <1>2, <2>1
  <2>3. QED
    BY <1>3, <1>5, <2>1, <2>2
<1>6. CASE at + w < i
  <2>1. PICK k \in 1..(N - at) : i = at + w + k
    <3>1. i - (at + w) \in 1..(N - at) /\ i = at + w + (i - (at + w))
      BY <1>2, <1>6
    <3>2. QED
      BY <3>1
  <2>2. i - w = at + k /\ at + k \in 1..N /\ at < at + k
    BY <1>2, <2>1
  <2>3. new[i] = R[at + k]
    BY <1>3, <2>1
  <2>4. QED
    BY <1>2, <1>6, <2>2, <2>3
<1>7. QED
  BY <1>2, <1>4, <1>5, <1>6

\* What was there is still there.
LEMMA ShiftedPlace ==
  ASSUME NEW R, NEW op, NEW at, NEW w, NEW new, PutsIn(R, op, at, w, new),
         NEW i \in DOMAIN R
  PROVE  /\ i <= at => i \in DOMAIN new /\ new[i] = R[i]
         /\ ~(i <= at) => i + w \in DOMAIN new /\ new[i + w] = R[i]
<1>1. PICK N \in Nat : N = Len(R)
  BY DEF PutsIn
<1>2. /\ w \in Nat /\ at \in 0..N /\ at \in Nat
      /\ DOMAIN new = 1..(N + w) /\ DOMAIN R = 1..N
  BY <1>1 DEF PutsIn
<1>3. /\ \A j \in 1..at : new[j] = R[j]
      /\ \A j \in 1..(N - at) : new[at + w + j] = R[at + j]
  BY <1>1 DEF PutsIn
<1>4. ASSUME i <= at PROVE i \in DOMAIN new /\ new[i] = R[i]
  BY <1>2, <1>3, <1>4
<1>5. ASSUME ~(i <= at) PROVE i + w \in DOMAIN new /\ new[i + w] = R[i]
  <2>1. i \in 1..N
    BY <1>2
  <2>2. i - at \in 1..(N - at)
    BY <1>2, <1>5, <2>1
  <2>3. i + w = at + w + (i - at) /\ i = at + (i - at) /\ i + w \in 1..(N + w)
    BY <1>2, <2>1
  <2>4. new[at + w + (i - at)] = R[at + (i - at)]
    BY <1>3, <2>2
  <2>5. QED
    BY <1>2, <2>3, <2>4
<1>6. QED
  BY <1>4, <1>5

\* What was there is the part without the insert, which stands in its place.
InsertJoins(R, new, D, op, at, w) ==
    /\ \E e : /\ Part(R, new, D, e)
              /\ \A i \in DOMAIN R : i <= at => e[i] = i
    /\ InPlace(new, op, [k \in 1..w |-> at + k])
    /\ \A p \in DOMAIN new :
           /\ new[p].gone \subseteq D
           /\ new[p].by \in D \cup {Base} \/ (new[p].by = op /\ new[p].gone = {})
           /\ new[p].by = op => at < p /\ p <= at + w

LEMMA InsertParts ==
  ASSUME NEW R, NEW D, NEW op, op # Base, op \notin D,
         R \in Seq(Atoms), op \in Operations,
         \A i \in DOMAIN R : R[i].by \in D \cup {Base} /\ R[i].gone \subseteq D,
         NEW at, NEW w, w = Len(op.text), NEW new, PutsIn(R, op, at, w, new)
  PROVE  InsertJoins(R, new, D, op, at, w)
<1>1. PICK N \in Nat : N = Len(R)
  BY DEF PutsIn
<1>2. /\ w \in Nat /\ at \in 0..N /\ at \in Nat /\ new \in Seq(Atoms)
      /\ DOMAIN new = 1..(N + w) /\ DOMAIN R = 1..N
  BY <1>1 DEF PutsIn
<1>3. /\ \A j \in 1..at : new[j] = R[j]
      /\ \A j \in 1..w : /\ new[at + j].by = op /\ new[at + j].label = op.text[j]
                         /\ ~new[at + j].dead /\ new[at + j].gone = {}
      /\ \A j \in 1..(N - at) : new[at + w + j] = R[at + j]
  BY <1>1 DEF PutsIn
<1>4. PICK e : e = [i \in DOMAIN R |-> IF i <= at THEN i ELSE i + w]
  OBVIOUS
<1>5. ASSUME NEW i \in DOMAIN R PROVE e[i] \in DOMAIN new /\ new[e[i]] = R[i]
  BY <1>4, ShiftedPlace
<1>6. ASSUME NEW i \in DOMAIN R, NEW j \in DOMAIN R, i < j PROVE e[i] < e[j]
  BY <1>2, <1>4, <1>6
<1>7. ASSUME NEW p \in DOMAIN new, new[p].by \in D \cup {Base}
      PROVE  \E i \in DOMAIN R : e[i] = p
  <2>1. new[p].by # op
    BY <1>7
  <2>2. CASE p \in DOMAIN R /\ p <= at
    BY <1>4, <2>2
  <2>3. CASE at + w < p /\ p - w \in DOMAIN R /\ at < p - w
    <3>1. ~(p - w <= at) /\ (p - w) + w = p
      BY <1>2, <2>3
    <3>2. e[p - w] = p
      BY <1>4, <2>3, <3>1
    <3>3. QED
      BY <2>3, <3>2
  <2>4. QED
    BY <2>1, <2>2, <2>3, Stretches
<1>8. Part(R, new, D, e)
  <2>1. e \in [DOMAIN R -> DOMAIN new]
    BY <1>4, <1>5
  <2>2. ASSUME NEW i \in DOMAIN R
        PROVE  SameAtom(R[i], new[e[i]], D) /\ R[i].by \in D \cup {Base}
    BY <1>5 DEF SameAtom
  <2>3. QED
    BY <1>2, <1>6, <1>7, <2>1, <2>2 DEF Part
<1>9. \A i \in DOMAIN R : i <= at => e[i] = i
  BY <1>4
<1>10. ASSUME NEW p \in DOMAIN new
       PROVE  /\ new[p].gone \subseteq D
              /\ new[p].by \in D \cup {Base} \/ (new[p].by = op /\ new[p].gone = {})
              /\ new[p].by = op => at < p /\ p <= at + w
  BY Stretches
<1>11. PICK b : b = [k \in 1..w |-> at + k]
  OBVIOUS
<1>12. \A k \in 1..w : b[k] \in DOMAIN new /\ b[k] = at + k
  BY <1>2, <1>11
<1>13. InPlace(new, op, b)
  <2>1. b \in [1..w -> DOMAIN new]
    BY <1>11, <1>12
  <2>2. \A i, j \in 1..w : i < j => b[i] < b[j]
    BY <1>2, <1>12
  <2>3. \A k \in 1..w : new[b[k]].by = op /\ new[b[k]].label = op.text[k] /\ ~new[b[k]].dead
    BY <1>3, <1>12
  <2>4. ASSUME NEW p \in DOMAIN new, new[p].by = op PROVE \E k \in 1..w : b[k] = p
    <3>1. p - at \in 1..w /\ at + (p - at) = p
      BY <1>2, <1>10, <2>4
    <3>2. QED
      BY <1>12, <3>1
  <2>5. QED
    BY <2>1, <2>2, <2>3, <2>4 DEF InPlace
<1>14. QED
  BY <1>8, <1>9, <1>10, <1>11, <1>13 DEF InsertJoins

\* What is settled stays so when later edits come.
LEMMA SettledKept ==
  ASSUME NEW R, NEW F, NEW D, NEW e, Part(R, F, D, e),
         NEW x \in D, x \in Operations, Hears(F, x, D), NEW rank, Settled(R, x, rank),
         \A p \in DOMAIN F : F[p].by \notin D \cup {Base} =>
             rank[F[p].by] > rank[x] /\ F[p].gone = {}
  PROVE  Settled(F, x, rank)
<1>1. \A i \in DOMAIN R : /\ e[i] \in DOMAIN F /\ R[i].by = F[e[i]].by
                          /\ R[i].label = F[e[i]].label /\ R[i].dead = F[e[i]].dead
                          /\ R[i].gone = F[e[i]].gone \cap D
  BY PartFacts DEF Part, SameAtom
<1>2. ASSUME NEW p \in DOMAIN F
      PROVE  \/ \E i \in DOMAIN R : e[i] = p
             \/ F[p].by \notin D \cup {Base}
  BY DEF Part
<1>3. CASE x.kind = "insert"
  <2>1. ASSUME NEW p \in DOMAIN F, F[p].by = x
        PROVE  /\ Anchor(F, x) < p
               /\ \A q \in DOMAIN F : Anchor(F, x) < q /\ q < p =>
                      F[q].by # Base /\ (F[q].by = x \/ rank[F[q].by] > rank[x])
    <3>1. PICK i \in DOMAIN R : e[i] = p
      BY <1>2, <2>1
    <3>2. PICK a : a = Anchor(R, x)
      OBVIOUS
    <3>3. PICK A : A = Anchor(F, x)
      OBVIOUS
    <3>4. (a = 0 /\ A = 0) \/ (a \in DOMAIN R /\ A = e[a])
      BY <3>2, <3>3, PartAnchor
    <3>5. /\ a < i
          /\ \A j \in DOMAIN R : a < j /\ j < i =>
                 R[j].by # Base /\ (R[j].by = x \/ rank[R[j].by] > rank[x])
      BY <1>1, <1>3, <2>1, <3>1, <3>2 DEF Settled, Behind
    <3>6. ASSUME NEW j \in DOMAIN R PROVE a < j <=> A < e[j]
      <4>1. CASE a = 0 /\ A = 0
        BY <4>1, PartFacts
      <4>2. CASE a \in DOMAIN R /\ A = e[a]
        BY <4>2, PartOrder
      <4>3. QED
        BY <3>4, <4>1, <4>2
    <3>7. A < p
      BY <3>1, <3>5, <3>6
    <3>8. ASSUME NEW q \in DOMAIN F, A < q, q < p
          PROVE  F[q].by # Base /\ (F[q].by = x \/ rank[F[q].by] > rank[x])
      <4>1. CASE F[q].by \notin D \cup {Base}
        BY <4>1
      <4>2. CASE \E j \in DOMAIN R : e[j] = q
        <5>1. PICK j \in DOMAIN R : e[j] = q
          BY <4>2
        <5>2. a < j
          BY <3>6, <3>8, <5>1
        <5>3. j < i
          BY <3>1, <3>8, <5>1, PartOrder
        <5>4. R[j].by # Base /\ (R[j].by = x \/ rank[R[j].by] > rank[x])
          BY <3>5, <5>2, <5>3
        <5>5. QED
          BY <1>1, <5>1, <5>4
      <4>3. QED
        BY <1>2, <4>1, <4>2
    <3>9. QED
      BY <3>3, <3>7, <3>8
  <2>2. Behind(F, x, rank)
    BY <2>1 DEF Behind
  <2>3. PICK w : w = Len(x.text)
    OBVIOUS
  <2>4. PICK b : InPlace(R, x, b)
    BY <1>3 DEF Settled
  <2>5. PICK c : c = [k \in 1..w |-> e[b[k]]]
    OBVIOUS
  <2>6. b \in [1..w -> DOMAIN R] /\ \A i, j \in 1..w : i < j => b[i] < b[j]
    BY <2>3, <2>4 DEF InPlace
  <2>7. \A k \in 1..w : b[k] \in DOMAIN R /\ c[k] = e[b[k]] /\ c[k] \in DOMAIN F
    BY <1>1, <2>5, <2>6
  <2>8. ASSUME NEW i \in 1..w, NEW j \in 1..w, i < j PROVE c[i] < c[j]
    <3>1. b[i] < b[j]
      BY <2>6, <2>8
    <3>2. QED
      BY <2>7, <3>1 DEF Part
  <2>9. ASSUME NEW k \in 1..w
        PROVE  F[c[k]].by = x /\ F[c[k]].label = x.text[k] /\ ~F[c[k]].dead
    <3>1. R[b[k]].by = x /\ R[b[k]].label = x.text[k] /\ ~R[b[k]].dead
      BY <2>3, <2>4 DEF InPlace
    <3>2. QED
      BY <1>1, <2>7, <3>1
  <2>10. ASSUME NEW p \in DOMAIN F, F[p].by = x PROVE \E k \in 1..w : c[k] = p
    <3>1. PICK i \in DOMAIN R : e[i] = p
      BY <1>2, <2>10
    <3>2. PICK k \in 1..w : b[k] = i
      BY <1>1, <2>3, <2>4, <2>10, <3>1 DEF InPlace
    <3>3. QED
      BY <2>7, <3>1, <3>2
  <2>11. c \in [1..w -> DOMAIN F]
    BY <2>5, <2>7
  <2>12. InPlace(F, x, c)
    BY <2>3, <2>8, <2>9, <2>10, <2>11 DEF InPlace
  <2>13. ASSUME NEW p \in DOMAIN F PROVE x \notin F[p].gone
    <3>1. CASE F[p].by \notin D \cup {Base}
      BY <3>1
    <3>2. CASE \E i \in DOMAIN R : e[i] = p
      <4>1. PICK i \in DOMAIN R : e[i] = p
        BY <3>2
      <4>2. x \notin R[i].gone
        BY <1>3 DEF Settled
      <4>3. QED
        BY <1>1, <4>1, <4>2
    <3>3. QED
      BY <1>2, <3>1, <3>2
  <2>14. QED
    BY <1>3, <2>2, <2>12, <2>13 DEF Settled
<1>4. CASE x.kind # "insert"
  <2>1. ASSUME NEW p \in DOMAIN F
        PROVE  F[p].by # x /\ (x \in F[p].gone <=> p \in StruckBy(F, x))
    <3>1. CASE \E i \in DOMAIN R : e[i] = p
      <4>1. PICK i \in DOMAIN R : e[i] = p
        BY <3>1
      <4>2. R[i].by # x /\ (x \in R[i].gone <=> i \in StruckBy(R, x))
        BY <1>4 DEF Settled
      <4>3. i \in StruckBy(R, x) <=> p \in StruckBy(F, x)
        BY <4>1, PartStruck
      <4>4. x \in R[i].gone <=> x \in F[p].gone
        BY <1>1, <4>1
      <4>5. QED
        BY <1>1, <4>1, <4>2, <4>3, <4>4
    <3>2. CASE ~\E i \in DOMAIN R : e[i] = p
      <4>1. F[p].by \notin D \cup {Base} /\ F[p].gone = {}
        BY <1>2, <3>2
      <4>2. p \notin StruckBy(F, x)
        BY <3>2, PartStruck
      <4>3. QED
        BY <4>1, <4>2
    <3>3. QED
      BY <3>1, <3>2
  <2>2. QED
    BY <1>4, <2>1 DEF Settled
<1>5. QED
  BY <1>3, <1>4
\* The next edit in the causal order settles, and keeps what is settled.
LEMMA NextInOrder ==
  ASSUME NEW R, NEW D, NEW rank, SettledBy(R, D, rank), NEW op \in Operations, op \notin D,
         \A x \in D : ~Observes(x, op) /\ rank[op] > rank[x] /\ ~(rank[x] > rank[op])
  PROVE  LET new == Edited(R, op, rank)
         IN  SettledBy(new, D \cup {op}, rank) /\ \E e : Part(R, new, D, e)
<1>1. PICK new : new = Edited(R, op, rank)
  OBVIOUS
<1>2. /\ R \in Seq(Atoms) /\ D \subseteq Operations
      /\ \A p \in DOMAIN R : R[p].by \in D \cup {Base} /\ R[p].gone \subseteq D
      /\ \A x \in D : Settled(R, x, rank)
  BY DEF SettledBy
<1>3. op # Base /\ ~Observes(op, op)
  BY OperationFacts DEF Observes
\* What is known of the new text whatever the edit is.
<1>4. ASSUME \A p \in DOMAIN new :
                 /\ new[p].gone \subseteq D \cup {op}
                 /\ new[p].by \in D \cup {Base} \/ (new[p].by = op /\ new[p].gone = {}),
             new \in Seq(Atoms), NEW e, Part(R, new, D, e),
             Hears(new, op, D) => Settled(new, op, rank)
      PROVE  SettledBy(new, D \cup {op}, rank) /\ \E f : Part(R, new, D, f)
  <2>1. ASSUME NEW x \in D \cup {op} PROVE Hears(new, x, D)
    <3>1. ~Observes(x, op)
      BY <1>3
    <3>2. ASSUME NEW p \in DOMAIN new
          PROVE  /\ new[p].by # Base /\ Observes(x, new[p].by) => new[p].by \in D
                 /\ \A d \in new[p].gone : Observes(x, d) => d \in D
      BY <1>4, <3>1
    <3>3. QED
      BY <3>2 DEF Hears
  <2>2. ASSUME NEW x \in D PROVE Settled(new, x, rank)
    <3>1. x \in Operations /\ Settled(R, x, rank) /\ Hears(new, x, D)
      BY <1>2, <2>1
    <3>2. ASSUME NEW p \in DOMAIN new, new[p].by \notin D \cup {Base}
          PROVE  rank[new[p].by] > rank[x] /\ new[p].gone = {}
      BY <1>4, <3>2
    <3>3. QED
      BY <1>4, <3>1, <3>2, SettledKept
  <2>3. Settled(new, op, rank)
    BY <1>4, <2>1
  <2>4. SettledBy(new, D \cup {op}, rank)
    BY <1>2, <1>4, <2>2, <2>3 DEF SettledBy
  <2>5. QED
    BY <1>4, <2>4
<1>5. CASE op.kind = "insert"
  <2>1. PICK at : at = Landing(R, op, rank)
    OBVIOUS
  <2>2. LandsBehind(R, op, rank, at)
    BY <1>2, <2>1, LandingBehind
  <2>3. PICK a : a = Anchor(R, op)
    OBVIOUS
  <2>4. at \in 0..Len(R) /\ a \in 0..Len(R) /\ a <= at /\ a \in Nat /\ Len(R) \in Nat
        /\ DOMAIN R = 1..Len(R)
    BY <1>2, <2>2, <2>3, AnchorProps DEF LandsBehind
  <2>5. ASSUME at # a PROVE FALSE
    <3>1. a + 1 \in (a + 1)..at /\ a + 1 \in DOMAIN R
      BY <2>4, <2>5
    <3>2. Stepped(R, op, rank, a + 1)
      BY <2>2, <2>3, <3>1 DEF LandsBehind
    <3>3. QED
      BY <1>2, <3>1, <3>2 DEF Stepped
  <2>6. new = PutIn(R, op, at)
    BY <1>1, <1>5, <2>1, EditedAs
  <2>7. PICK w : w = Len(op.text)
    OBVIOUS
  <2>8. PutsIn(R, op, at, w, new)
    BY <1>2, <2>4, <2>6, <2>7, PutInFacts
  <2>9. new \in Seq(Atoms)
    BY <2>8 DEF PutsIn
  <2>10. /\ \E e : /\ Part(R, new, D, e)
                   /\ \A i \in DOMAIN R : i <= at => e[i] = i
         /\ InPlace(new, op, [k \in 1..w |-> at + k])
         /\ \A p \in DOMAIN new :
                /\ new[p].gone \subseteq D
                /\ new[p].by \in D \cup {Base} \/ (new[p].by = op /\ new[p].gone = {})
                /\ new[p].by = op => at < p /\ p <= at + w
    <3>1. InsertJoins(R, new, D, op, at, w)
      BY <1>2, <1>3, <2>7, <2>8, InsertParts
    <3>2. QED
      BY <3>1 DEF InsertJoins
  <2>11. PICK e : Part(R, new, D, e) /\ \A i \in DOMAIN R : i <= at => e[i] = i
    BY <2>10
  <2>12. ASSUME Hears(new, op, D) PROVE Settled(new, op, rank)
    <3>1. PICK A : A = Anchor(new, op)
      OBVIOUS
    <3>2. (a = 0 /\ A = 0) \/ (a \in DOMAIN R /\ A = e[a])
      BY <2>3, <2>11, <2>12, <3>1, PartAnchor
    <3>3. A = at
      BY <2>4, <2>5, <2>11, <3>2
    <3>4. ASSUME NEW p \in DOMAIN new, new[p].by = op
          PROVE  /\ A < p
                 /\ \A q \in DOMAIN new : A < q /\ q < p =>
                        new[q].by # Base /\ (new[q].by = op \/ rank[new[q].by] > rank[op])
      <4>1. at < p /\ p <= at + w
        BY <2>10, <3>4
      <4>2. ASSUME NEW q \in DOMAIN new, at < q, q < p PROVE new[q].by = op
        <5>1. q \in Nat /\ p \in Nat /\ w \in Nat /\ at \in Nat
          BY <2>4, <2>8, <2>9 DEF PutsIn
        <5>2. ~(q <= at) /\ ~(at + w < q)
          BY <4>1, <4>2, <5>1
        <5>3. QED
          BY <2>8, <5>2, Stretches
      <4>3. QED
        BY <1>3, <3>3, <4>1, <4>2
    <3>5. Behind(new, op, rank)
      BY <3>1, <3>4 DEF Behind
    <3>6. \A p \in DOMAIN new : op \notin new[p].gone
      BY <2>10
    <3>7. \E b : InPlace(new, op, b)
      BY <2>10
    <3>8. QED
      BY <1>5, <3>5, <3>6, <3>7 DEF Settled
  <2>13. \A p \in DOMAIN new :
             /\ new[p].gone \subseteq D \cup {op}
             /\ new[p].by \in D \cup {Base} \/ (new[p].by = op /\ new[p].gone = {})
    BY <2>10
  <2>14. QED
    BY <1>1, <1>4, <2>9, <2>11, <2>12, <2>13
<1>6. CASE op.kind # "insert"
  <2>1. PICK struck : struck = StruckBy(R, op)
    OBVIOUS
  <2>2. new = Struck(R, op, struck)
    BY <1>1, <1>6, <2>1, EditedAs
  <2>3. new \in Seq(Atoms) /\ DOMAIN new = DOMAIN R
    BY <1>2, <2>2, StruckProps
  <2>4. ASSUME NEW i \in DOMAIN R
        PROVE  /\ new[i].by = R[i].by /\ new[i].label = R[i].label /\ new[i].dead = R[i].dead
               /\ new[i].gone = IF i \in struck THEN R[i].gone \cup {op} ELSE R[i].gone
    <3>1. PICK x \in Atoms : x = R[i]
      BY <1>2
    <3>2. new[i] = IF i \in struck THEN [x EXCEPT !.gone = @ \cup {op}] ELSE x
      BY <2>2, <3>1 DEF Struck
    <3>3. QED
      BY <3>1, <3>2 DEF Atoms
  <2>5. ASSUME NEW i \in DOMAIN R
        PROVE  /\ R[i].gone = new[i].gone \cap D /\ op \notin R[i].gone
               /\ new[i].gone \subseteq D \cup {op}
    BY <1>2, <2>4
  <2>6. PICK e : e = [i \in DOMAIN R |-> i]
    OBVIOUS
  <2>7. Part(R, new, D, e)
    <3>1. e \in [DOMAIN R -> DOMAIN new] /\ \A i \in DOMAIN R : e[i] = i
      BY <2>3, <2>6
    <3>2. ASSUME NEW i \in DOMAIN R
          PROVE  SameAtom(R[i], new[e[i]], D) /\ R[i].by \in D \cup {Base}
      BY <1>2, <2>4, <2>5, <3>1 DEF SameAtom
    <3>3. \A p \in DOMAIN new : \E i \in DOMAIN R : e[i] = p
      BY <2>3, <3>1
    <3>4. QED
      BY <1>2, <2>3, <3>1, <3>2, <3>3 DEF Part
  <2>8. ASSUME Hears(new, op, D) PROVE Settled(new, op, rank)
    <3>1. ASSUME NEW p \in DOMAIN new
          PROVE  new[p].by # op /\ (op \in new[p].gone <=> p \in StruckBy(new, op))
      <4>1. p \in DOMAIN R /\ e[p] = p
        BY <2>3, <2>6
      <4>2. p \in struck <=> p \in StruckBy(new, op)
        BY <2>1, <2>7, <2>8, <4>1, PartStruck
      <4>3. op \in new[p].gone <=> p \in struck
        BY <2>4, <2>5, <4>1
      <4>4. new[p].by # op
        BY <1>2, <1>3, <2>4, <4>1
      <4>5. QED
        BY <4>2, <4>3, <4>4
    <3>2. QED
      BY <1>6, <3>1 DEF Settled
  <2>9. \A p \in DOMAIN new :
             /\ new[p].gone \subseteq D \cup {op}
             /\ new[p].by \in D \cup {Base} \/ (new[p].by = op /\ new[p].gone = {})
    BY <1>2, <2>3, <2>4, <2>5
  <2>10. QED
    BY <1>1, <1>4, <2>3, <2>7, <2>8, <2>9
<1>7. QED
  BY <1>5, <1>6
-----------------------------------------------------------------------------
(* Whole merges.                                                           *)

\* The first n members of a sequence.
Firsts(s, n) == {s[i] : i \in 1..n}

LEMMA FirstsProps ==
  ASSUME NEW s, NEW n \in Nat
  PROVE  Firsts(s, 0) = {} /\ Firsts(s, n + 1) = Firsts(s, n) \cup {s[n + 1]}
<1>1. Firsts(s, 0) = {}
  BY DEF Firsts
<1>2. 1..(n + 1) = (1..n) \cup {n + 1}
  OBVIOUS
<1>3. QED
  BY <1>1, <1>2 DEF Firsts

\* Where a merge starts, nothing is anybody's.
LEMMA FreshSettled ==
  ASSUME NEW text \in Texts, NEW rank
  PROVE  SettledBy(Fresh(text), {}, rank) /\ \E e : Part(Fresh(text), Fresh(text), {}, e)
<1>1. PICK F : F = Fresh(text)
  OBVIOUS
<1>2. F \in Seq(Atoms)
  BY <1>1, FreshProps DEF Placed
<1>3. \A p \in DOMAIN F : F[p].by = Base /\ F[p].gone = {}
  BY <1>1 DEF Fresh
<1>4. SettledBy(F, {}, rank)
  BY <1>2, <1>3 DEF SettledBy
<1>5. PICK e : e = [i \in DOMAIN F |-> i]
  OBVIOUS
<1>6. e \in [DOMAIN F -> DOMAIN F] /\ \A i \in DOMAIN F : e[i] = i
  BY <1>5
<1>7. \A i \in DOMAIN F : SameAtom(F[i], F[e[i]], {}) /\ F[i].by \in {} \cup {Base}
  BY <1>3, <1>6 DEF SameAtom
<1>8. \A p \in DOMAIN F : \E i \in DOMAIN F : e[i] = p
  BY <1>6
<1>9. Part(F, F, {}, e)
  BY <1>2, <1>6, <1>7, <1>8 DEF Part
<1>10. QED
  BY <1>1, <1>4, <1>9

\* In the causal order all edits settle, and where the merge started is a part.
LEMMA MergeSettles ==
  ASSUME NEW edits, NEW M \in Nat, \A i \in 1..M : edits[i] \in Operations,
         NEW rank,
         \A i, j \in 1..M : j < i =>
             /\ ~Observes(edits[j], edits[i])
             /\ rank[edits[i]] > rank[edits[j]] /\ ~(rank[edits[j]] > rank[edits[i]])
             /\ edits[j] # edits[i],
         NEW start, SettledBy(start, {}, rank), \E e : Part(start, start, {}, e),
         NEW f, Iterated(f, M, start, edits, rank)
  PROVE  SettledBy(f[M], Firsts(edits, M), rank) /\ \E e : Part(start, f[M], {}, e)
<1> DEFINE P(n) == SettledBy(f[n], Firsts(edits, n), rank) /\ \E e : Part(start, f[n], {}, e)
           T == {n \in Nat : n <= M => P(n)}
<1>1. 0 \in T
  <2>1. f[0] = start
    BY DEF Iterated
  <2>2. QED
    BY <2>1, FirstsProps
<1>2. ASSUME NEW n \in Nat, n \in T PROVE n + 1 \in T
  <2>1. SUFFICES ASSUME n + 1 <= M PROVE P(n + 1)
    OBVIOUS
  <2>2. PICK m : m = n + 1
    OBVIOUS
  <2>3. m \in 0..M /\ m \in 1..M /\ m # 0 /\ m - 1 = n /\ n <= M
    BY <2>1, <2>2
  <2>4. PICK D : D = Firsts(edits, n)
    OBVIOUS
  <2>5. PICK R : R = f[n]
    OBVIOUS
  <2>6. PICK op \in Operations : op = edits[m]
    BY <2>3
  <2>7. SettledBy(R, D, rank) /\ \E e : Part(start, R, {}, e)
    BY <1>2, <2>3, <2>4, <2>5
  <2>8. f[m] = Edited(R, op, rank)
    BY <2>3, <2>5, <2>6 DEF Iterated
  <2>9. \A x \in D : /\ ~Observes(x, op) /\ x # op
                     /\ rank[op] > rank[x] /\ ~(rank[x] > rank[op])
    <3>1. \A j \in 1..n : j < m /\ j \in 1..M
      BY <2>2, <2>3
    <3>2. QED
      BY <2>3, <2>4, <2>6, <3>1 DEF Firsts
  <2>10. PICK new : new = Edited(R, op, rank)
    OBVIOUS
  <2>11. SettledBy(new, D \cup {op}, rank) /\ \E e : Part(R, new, D, e)
    BY <2>7, <2>9, <2>10, NextInOrder
  <2>12. \E e : Part(start, new, {}, e)
    BY <2>7, <2>11, PartOfPart
  <2>13. Firsts(edits, m) = D \cup {op}
    BY <2>2, <2>4, <2>6, FirstsProps
  <2>14. QED
    BY <2>2, <2>8, <2>10, <2>11, <2>12, <2>13
<1> HIDE DEF T, P
<1>3. \A n \in Nat : n \in T
  BY <1>1, <1>2, SetInduction
<1>4. M \in T /\ M <= M
  BY <1>3
<1>5. P(M)
  BY <1>4 DEF T
<1>6. QED
  BY <1>5 DEF P

\* In any order they may come in, the edits build the same text.
LEMMA AnyOrderBuilds ==
  ASSUME NEW F, NEW E, NEW rank, SettledBy(F, E, rank), RankedBy(E, rank),
         NEW other, NEW N \in Nat, Firsts(other, N) = E,
         \A i, j \in 1..N : other[i] = other[j] => i = j,
         \A i, j \in 1..N : Observes(other[i], other[j]) => j < i,
         NEW start, \E e : Part(start, F, {}, e),
         NEW g, Iterated(g, N, start, other, rank)
  PROVE  g[N] = F
<1> DEFINE P(n) == \E e : Part(g[n], F, Firsts(other, n), e)
           T == {n \in Nat : n <= N => P(n)}
<1>1. 0 \in T
  <2>1. g[0] = start
    BY DEF Iterated
  <2>2. QED
    BY <2>1, FirstsProps
<1>2. ASSUME NEW n \in Nat, n \in T PROVE n + 1 \in T
  <2>1. SUFFICES ASSUME n + 1 <= N PROVE P(n + 1)
    OBVIOUS
  <2>2. PICK m : m = n + 1
    OBVIOUS
  <2>3. m \in 0..N /\ m \in 1..N /\ m # 0 /\ m - 1 = n /\ n <= N
    BY <2>1, <2>2
  <2>4. PICK D : D = Firsts(other, n)
    OBVIOUS
  <2>5. PICK R : R = g[n]
    OBVIOUS
  <2>6. PICK op : op = other[m]
    OBVIOUS
  <2>7. PICK e : Part(R, F, D, e)
    BY <1>2, <2>3, <2>4, <2>5
  <2>8. g[m] = Edited(R, op, rank)
    BY <2>3, <2>5, <2>6 DEF Iterated
  <2>9. \A j \in 1..n : j < m /\ j \in 1..N /\ j # m
    BY <2>2, <2>3
  <2>10. \A x : x \in D <=> \E j \in 1..n : x = other[j]
    BY <2>4 DEF Firsts
  <2>11. \A y \in E : \E j \in 1..N : y = other[j]
    BY DEF Firsts
  <2>12. D \subseteq E /\ op \in E /\ op \notin D
    <3>1. \A j \in 1..N : other[j] \in E
      BY DEF Firsts
    <3>2. QED
      BY <2>3, <2>6, <2>9, <2>10, <3>1
  <2>13. ASSUME NEW x \in D \cup {op}, NEW y \in E, Observes(x, y) PROVE y \in D
    <3>1. PICK i \in 1..m : x = other[i] /\ i \in 1..N
      BY <2>2, <2>3, <2>6, <2>9, <2>10
    <3>2. PICK j \in 1..N : y = other[j]
      BY <2>11
    <3>3. j < i
      BY <2>13, <3>1, <3>2
    <3>4. j \in 1..n
      BY <2>2, <3>1, <3>2, <3>3
    <3>5. QED
      BY <2>10, <3>2, <3>4
  <2>14. Follows(D, op, E)
    BY <2>12, <2>13 DEF Follows
  <2>15. \E f : Part(Edited(R, op, rank), F, D \cup {op}, f)
    BY <2>7, <2>14, AnyNextEdit
  <2>16. Firsts(other, m) = D \cup {op}
    BY <2>2, <2>4, <2>6, FirstsProps
  <2>17. QED
    BY <2>2, <2>8, <2>15, <2>16
<1> HIDE DEF T, P
<1>3. \A n \in Nat : n \in T
  BY <1>1, <1>2, SetInduction
<1>4. N \in T /\ N <= N
  BY <1>3
<1>5. PICK e : Part(g[N], F, E, e)
  BY <1>4 DEF T, P
<1>6. QED
  BY <1>5, WholePart DEF SettledBy

\* A sequence of a set's members, each once, has them all.
LEMMA EachOnce ==
  ASSUME NEW S, IsFiniteSet(S), NEW s \in SetToSeqs(S)
  PROVE  /\ Cardinality(S) \in Nat /\ s \in [1..Cardinality(S) -> S]
         /\ Firsts(s, Cardinality(S)) = S
         /\ \A i, j \in 1..Cardinality(S) : s[i] = s[j] => i = j
<1>1. PICK n \in Nat : n = Cardinality(S)
  BY FS_CardinalityType
<1>2. s \in [1..n -> S] /\ \A i, j \in 1..n : s[i] = s[j] => i = j
  BY <1>1 DEF SetToSeqs
<1>3. s \in Injection(1..n, S)
  BY <1>2 DEF Injection, IsInjective
<1>4. Cardinality(1..n) = n
  BY FS_Interval
<1>5. s \in Surjection(1..n, S)
  BY <1>1, <1>3, <1>4, FS_Injection
<1>6. \A x \in S : \E i \in 1..n : s[i] = x
  BY <1>5 DEF Surjection
<1>7. Firsts(s, n) = S
  BY <1>2, <1>6 DEF Firsts
<1>8. QED
  BY <1>1, <1>2, <1>7
\* Resolving a sequence of edits, one after the other.
LEMMA ResolvedAs ==
  ASSUME NEW start, NEW edits, NEW N \in Nat, Len(edits) = N, NEW rank
  PROVE  \E f : Iterated(f, N, start, edits, rank) /\ Resolved(start, edits, rank) = f[N]
<1>1. PICK f : f = CHOOSE g : Iterated(g, N, start, edits, rank)
  OBVIOUS
<1>2. Iterated(f, N, start, edits, rank)
  BY <1>1, EditingIsDefined
<1>3. Resolved(start, edits, rank) = f[N]
  BY <1>1 DEF Resolved, Iterated
<1>4. QED
  BY <1>2, <1>3

\* Whatever order the edits of a merge are fed in, none before what it observed,
\* they make the text of the merge.
LEMMA OrdersConverge ==
  ASSUME NEW set, Orderable(set), NEW text \in Texts,
         NEW order, order = CausalOrder(set),
         NEW start, start = StartOf(Fresh(text), order),
         NEW edits, edits = EditsAfter(order),
         NEW other \in SetToSeqs(Range(edits)), Linear(other)
  PROVE  Resolved(start, other, RankIn(order)) = Merge(Fresh(text), set)
<1>1. Linearizes(order, set) /\ set \subseteq Operations /\ IsFiniteSet(set)
  BY CausalOrderProps DEF Orderable
<1>2. /\ order \in Seq(set) /\ DOMAIN order = 1..Len(order) /\ Len(order) \in Nat
      /\ \A i \in DOMAIN order : order[i] \in set
      /\ \A i, j \in DOMAIN order : order[i] = order[j] => i = j
      /\ \A i, j \in DOMAIN order : Observes(order[i], order[j]) => j < i
  BY <1>1, SequenceFacts DEF Linearizes, Linear
<1>3. PICK r \in 0..Len(order) : r = ResetIn(order)
  BY <1>1, ResetProps
<1>4. PICK M \in Nat : r + M = Len(order)
  <2>1. Len(order) - r \in Nat /\ r + (Len(order) - r) = Len(order)
    BY <1>2, <1>3
  <2>2. QED
    BY <2>1
<1>5. /\ edits = SubSeq(order, r + 1, Len(order)) /\ order \in Seq(Operations) /\ r \in Nat
  BY <1>1, <1>2, <1>3 DEF EditsAfter
<1>6. Len(edits) = M /\ \A i \in 1..M : r + i \in DOMAIN order /\ edits[i] = order[r + i]
  <2>1. PICK s : s = SubSeq(order, r + 1, Len(order))
    OBVIOUS
  <2>2. Len(s) = M /\ \A i \in 1..M : r + i \in DOMAIN order /\ s[i] = order[r + i]
    BY <1>4, <1>5, <2>1, SuffixFacts
  <2>3. edits = s
    BY <1>5, <2>1
  <2>4. QED
    BY <2>2, <2>3
<1>7. PICK rank : rank = RankIn(order)
  OBVIOUS
<1>8. ASSUME NEW i \in 1..M
      PROVE  edits[i] \in Operations /\ edits[i] \in set /\ rank[edits[i]] = r + i /\ r + i \in Nat
  <2>1. r + i \in DOMAIN order /\ edits[i] = order[r + i]
    BY <1>6
  <2>2. rank[order[r + i]] = r + i /\ r + i \in Nat
    BY <1>1, <1>7, <2>1, RankProps
  <2>3. QED
    BY <1>1, <1>2, <2>1, <2>2
<1>9. ASSUME NEW i \in 1..M, NEW j \in 1..M
      PROVE  /\ Observes(edits[i], edits[j]) => j < i
             /\ edits[i] = edits[j] => i = j
  <2>1. PICK x \in DOMAIN order : x = r + i /\ edits[i] = order[x]
    BY <1>6
  <2>2. PICK y \in DOMAIN order : y = r + j /\ edits[j] = order[y]
    BY <1>6
  <2>3. (y < x => j < i) /\ (x = y => i = j)
    BY <1>5, <2>1, <2>2
  <2>4. Observes(order[x], order[y]) => y < x
    BY <1>2
  <2>5. order[x] = order[y] => x = y
    BY <1>2
  <2>6. QED
    BY <2>1, <2>2, <2>3, <2>4, <2>5
<1>10. PICK E : E = Firsts(edits, M)
  OBVIOUS
<1>11. \A y \in E : \E i \in 1..M : y = edits[i]
  BY <1>10 DEF Firsts
<1>12. RankedBy(E, rank)
  <2>1. ASSUME NEW x \in E, NEW y \in E
        PROVE  /\ rank[x] \in Nat /\ rank[y] \in Nat
               /\ x # y => rank[x] # rank[y]
               /\ Observes(x, y) => rank[y] < rank[x]
    <3>1. PICK i \in 1..M : x = edits[i]
      BY <1>11
    <3>2. PICK j \in 1..M : y = edits[j]
      BY <1>11
    <3>3. rank[x] = r + i /\ r + i \in Nat /\ rank[y] = r + j /\ r + j \in Nat
      BY <1>8, <3>1, <3>2
    <3>4. Observes(x, y) => j < i
      BY <1>9, <3>1, <3>2
    <3>5. (j < i => r + j < r + i) /\ (r + i = r + j => i = j)
      BY <1>5
    <3>6. QED
      BY <3>1, <3>2, <3>3, <3>4, <3>5
  <2>2. QED
    BY <2>1 DEF RankedBy
<1>13. \E t \in Texts : start = Fresh(t)
  <2>1. CASE r = 0
    BY <1>3, <2>1 DEF StartOf
  <2>2. CASE r # 0
    <3>1. r \in DOMAIN order
      BY <1>2, <1>3, <2>2
    <3>2. order[r].text \in Texts
      BY <1>1, <1>2, <3>1, OperationFacts
    <3>3. QED
      BY <1>3, <2>2, <3>2 DEF StartOf
  <2>3. QED
    BY <2>1, <2>2
<1>14. SettledBy(start, {}, rank) /\ \E e : Part(start, start, {}, e)
  BY <1>13, FreshSettled
<1>15. PICK f : Iterated(f, M, start, edits, rank) /\ Resolved(start, edits, rank) = f[M]
  BY <1>6, ResolvedAs
<1>16. PICK F : F = f[M]
  OBVIOUS
<1>17. Merge(Fresh(text), set) = F
  BY <1>7, <1>15, <1>16 DEF Merge
<1>18. SettledBy(F, E, rank) /\ \E e : Part(start, F, {}, e)
  <2>1. ASSUME NEW i \in 1..M, NEW j \in 1..M, j < i
        PROVE  /\ ~Observes(edits[j], edits[i])
               /\ rank[edits[i]] > rank[edits[j]] /\ ~(rank[edits[j]] > rank[edits[i]])
               /\ edits[j] # edits[i]
    <3>1. rank[edits[i]] = r + i /\ rank[edits[j]] = r + j
      BY <1>8
    <3>2. r + i > r + j /\ ~(r + j > r + i) /\ ~(i < j) /\ i # j
      BY <1>5, <2>1
    <3>3. QED
      BY <1>9, <3>1, <3>2
  <2>2. \A i \in 1..M : edits[i] \in Operations
    BY <1>8
  <2>3. QED
    BY <1>10, <1>14, <1>15, <1>16, <2>1, <2>2, MergeSettles
<1>19. PICK N : N = Cardinality(E)
  OBVIOUS
<1>20. Range(edits) = E
  <2>1. DOMAIN edits = 1..M
    <3>1. edits \in Seq(Operations)
      BY <1>5
    <3>2. QED
      BY <1>6, <3>1
  <2>2. QED
    BY <1>10, <2>1 DEF Range, Firsts
<1>21. IsFiniteSet(E)
  <2>1. E \subseteq set
    BY <1>8, <1>11
  <2>2. QED
    BY <1>1, <2>1, FS_Subset
<1>22. /\ N \in Nat /\ other \in [1..N -> E] /\ Firsts(other, N) = E
       /\ \A i, j \in 1..N : other[i] = other[j] => i = j
  BY <1>19, <1>20, <1>21, EachOnce
<1>23. Len(other) = N /\ DOMAIN other = 1..N
  BY <1>22
<1>24. \A i, j \in 1..N : Observes(other[i], other[j]) => j < i
  BY <1>23 DEF Linear
<1>25. PICK g : Iterated(g, N, start, other, rank) /\ Resolved(start, other, rank) = g[N]
  BY <1>22, <1>23, ResolvedAs
<1>26. g[N] = F
  BY <1>12, <1>18, <1>22, <1>24, <1>25, AnyOrderBuilds
<1>27. QED
  BY <1>7, <1>17, <1>25, <1>26

\* The text does not depend on the order in which the edits of a merge are fed
\* in, as long as none comes before what it observed (resolve_run).
THEOREM EveryOrderConverges == Spec => []AnyOrderConverges
<1>1. ASSUME IInv PROVE AnyOrderConverges
  <2>1. Orderable(ops)
    BY <1>1 DEF IInv, CausalOK
  <2>2. PICK set : set = ops
    OBVIOUS
  <2>3. PICK order : order = CausalOrder(set)
    OBVIOUS
  <2>4. PICK start : start = StartOf(Fresh(BaseText), order)
    OBVIOUS
  <2>5. PICK edits : edits = EditsAfter(order)
    OBVIOUS
  <2>6. ASSUME NEW other \in SetToSeqs(Range(edits)), Linear(other)
        PROVE  Resolved(start, other, RankIn(order)) = Merged(set)
    BY <2>1, <2>2, <2>3, <2>4, <2>5, <2>6, OrdersConverge, BaseTextType DEF Merged
  <2>7. QED
    BY <2>2, <2>3, <2>4, <2>5, <2>6 DEF AnyOrderConverges
<1>2. QED
  BY <1>1, Inductive, PTL
=============================================================================
