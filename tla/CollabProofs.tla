---------------------------- MODULE CollabProofs ----------------------------
(***************************************************************************)
(* Proofs about Collab: type correctness and the soundness of the log, for *)
(* any tabs and actors; and, when every tab has an actor of its own, that  *)
(* nothing typed is lost, watermarks are honest, a joined connection       *)
(* misses no commit, and only a failing store refuses.  Two tabs of one    *)
(* actor can mint one id twice: the run two_tabs shows what is lost then.  *)
(***************************************************************************)
EXTENDS Collab, FiniteSetTheorems, FunctionTheorems, SequenceTheorems,
        WellFoundedInduction, TLAPS

----------------------------------------------------------------------------
(***************************************************************************)
(* The inductive invariant                                                 *)
(***************************************************************************)

\* Operations of one actor, each numbered once and none left out.
Dense(S) ==
    /\ \A p, q \in S : p.seq = q.seq => p = q
    /\ \E n \in Nat : {op.seq : op \in S} = 1..n

\* At every commit the log has every actor's operations without a gap.
LogIsDense ==
    \A n \in 0..Len(commits), a \in Actors : Dense(Of(a, LoggedAt(n)))

\* A frame names one of n commits, and finitely many operations.
FrameOK(frame, n) ==
    /\ frame.kind = "welcome" => frame.commit \in 0..n
    /\ frame.kind = "committed" => frame.commit \in 1..n
    /\ frame.kind = "accepted" =>
           frame.commit \in 0..n /\ IsFiniteSet(frame.ids)

\* A batch is of one author, its operations in order and one after another.
Run(batch) ==
    /\ batch # <<>>
    /\ \A i \in 1..Len(batch) :
           /\ batch[i].actor = batch[1].actor
           /\ batch[i].seq = batch[1].seq + i - 1

Sent(t) == Range(up[t]) \cup Range(old[t])

TabOK(t) ==
    /\ IsFiniteSet(driver[t].replica)
    /\ driver[t].commit_seq <= Len(commits)
    /\ \A i \in 1..Len(down[t]) : FrameOK(down[t][i], Len(commits))
    /\ \A batch \in Sent(t) : Run(batch)

\* What holds whoever shares an actor.
IInv ==
    /\ TypeOK
    /\ LogIsDense
    /\ LogIsSound
    /\ \A t \in Tabs : TabOK(t)

\* How many operations of an actor the service has.
LoggedOf(a) == Cardinality(Of(a, Logged))

----------------------------------------------------------------------------
(***************************************************************************)
(* Numbers and finite sets                                                 *)
(***************************************************************************)

\* A bounded set of numbers has a greatest one.
LEMMA Greatest ==
  ASSUME NEW S \in SUBSET Nat, S # {}, NEW n \in Nat, \A s \in S : s <= n
  PROVE  \E m \in S : \A s \in S : s <= m
<1> DEFINE From(m) == {s \in S : s >= m}
           Froms == {From(m) : m \in S}
<1>1. IsFiniteSet(S)
  BY FS_BoundedSetOfNaturals
<1>2. Froms \subseteq FiniteSubsetsOf(S)
  BY <1>1, FS_FiniteSubsetsOfFinite
<1>3. Froms # {}
  OBVIOUS
<1>4. PICK A \in Froms : \A B \in Froms : ~(<<B, A>> \in StrictSubsetOrdering(S))
  BY <1>2, <1>3, FS_StrictSubsetOrderingWellFounded, WFMin
<1>5. PICK m \in S : A = From(m)
  OBVIOUS
<1>6. ASSUME NEW s \in S, s > m PROVE FALSE
  <2>1. From(s) \in Froms
    OBVIOUS
  <2>2. \A i \in S : i \in Nat
    OBVIOUS
  <2>3. ASSUME NEW i \in From(s) PROVE i \in From(m)
    <3>1. i \in S /\ i >= s
      OBVIOUS
    <3>2. i >= m
      BY <3>1, <2>2, <1>6
    <3>3. QED
      BY <3>1, <3>2
  <2>4. m \in From(m) /\ m \notin From(s)
    BY <1>6, <2>2, SMT
  <2>5. <<From(s), A>> \in StrictSubsetOrdering(S)
    BY <2>3, <2>4, <1>5 DEF StrictSubsetOrdering
  <2>6. QED
    BY <2>1, <2>5, <1>4
<1>7. \A s \in S : s <= m
  BY <1>6
<1>8. QED
  BY <1>7

\* A finite set of numbers is bounded.
LEMMA FiniteIsBounded ==
  ASSUME NEW S \in SUBSET Nat, IsFiniteSet(S)
  PROVE  \E n \in Nat : \A s \in S : s <= n
<1> DEFINE Below(T) == \E n \in Nat : \A s \in T : s <= n
           Loose == {T \in SUBSET S : ~Below(T)}
<1>1. SUFFICES ASSUME ~Below(S) PROVE FALSE
  OBVIOUS
<1>2. Loose \subseteq FiniteSubsetsOf(S) /\ Loose # {}
  BY <1>1, FS_FiniteSubsetsOfFinite
<1>3. PICK A \in Loose : \A B \in Loose : ~(<<B, A>> \in StrictSubsetOrdering(S))
  BY <1>2, FS_StrictSubsetOrderingWellFounded, WFMin
<1>4. PICK x \in A : TRUE
  BY <1>3
<1>5. A \ {x} \notin Loose
  BY <1>3, <1>4 DEF StrictSubsetOrdering
<1>6. PICK n \in Nat : \A s \in A \ {x} : s <= n
  BY <1>5, <1>3
<1>7. x \in Nat /\ \A s \in A : s \in Nat
  BY <1>3, <1>4
<1>8. \A s \in A : s <= n + x
  BY <1>6, <1>7
<1>9. n + x \in Nat
  BY <1>7
<1>10. QED
  BY <1>8, <1>9, <1>3

\* What Max is for.
LEMMA MaxProps ==
  ASSUME NEW S \in SUBSET Nat, IsFiniteSet(S), S # {}
  PROVE  Max(S) \in S /\ Max(S) \in Nat /\ \A s \in S : s <= Max(S)
<1>1. PICK n \in Nat : \A s \in S : s <= n
  BY FiniteIsBounded
<1>2. PICK m \in S : \A s \in S : s <= m
  BY <1>1, Greatest
<1>3. m \in S /\ \A y \in S : m >= y
  BY <1>2
<1>4. Max(S) \in S /\ \A y \in S : Max(S) >= y
  BY <1>3 DEF Max
<1>5. QED
  BY <1>4

\* The greater of two numbers.
LEMMA MaxOfTwo ==
  ASSUME NEW m \in Nat, NEW n \in Nat
  PROVE  /\ Max({m, n}) \in Nat /\ m <= Max({m, n}) /\ n <= Max({m, n})
         /\ Max({m, n}) = m \/ Max({m, n}) = n
<1>1. IsFiniteSet({m, n})
  <2>1. {m, n} = {m} \cup {n}
    OBVIOUS
  <2>2. IsFiniteSet({m})
    BY FS_Singleton
  <2>3. QED
    BY <2>1, <2>2, FS_AddElement
<1>2. {m, n} \in SUBSET Nat
  OBVIOUS
<1>3. Max({m, n}) \in {m, n} /\ \A s \in {m, n} : s <= Max({m, n})
  BY <1>1, <1>2, MaxProps
<1>4. QED
  BY <1>3

\* What is least of a finite set.
LEMMA MinOfTwo ==
  ASSUME NEW m \in Nat, NEW n \in Nat
  PROVE  Min({m, n}) \in Nat /\ Min({m, n}) <= m /\ Min({m, n}) <= n
<1>1. \E x \in {m, n} : \A y \in {m, n} : x =< y
  <2>1. CASE m <= n
    BY <2>1
  <2>2. CASE n <= m
    BY <2>2
  <2>3. QED
    BY <2>1, <2>2
<1>2. Min({m, n}) \in {m, n} /\ \A y \in {m, n} : Min({m, n}) =< y
  BY <1>1 DEF Min
<1>3. QED
  BY <1>2

\* A sequence has finitely many elements.
LEMMA RangeFinite ==
  ASSUME NEW S, NEW s \in Seq(S)
  PROVE  IsFiniteSet(Range(s))
<1>1. s \in Surjection(1..Len(s), Range(s))
  BY RangeEquality, LenProperties DEF Surjection
<1>2. Len(s) \in Int /\ 1 \in Int
  OBVIOUS
<1>3. IsFiniteSet(1..Len(s))
  BY <1>2, FS_Interval
<1>4. QED
  BY <1>1, <1>3, FS_Surjection

\* The sequence numbers of some operations.
Seqs(S) == {op.seq : op \in S}

\* Finitely many operations have finitely many numbers, as many as there are
\* operations when each has its own.
LEMMA SeqsProps ==
  ASSUME NEW S \in SUBSET Ops, IsFiniteSet(S)
  PROVE  /\ Seqs(S) \in SUBSET Nat /\ IsFiniteSet(Seqs(S))
         /\ Cardinality(Seqs(S)) = Cardinality(S) <=>
                \A p, q \in S : p.seq = q.seq => p = q
<1> DEFINE f == [op \in S |-> op.seq]
<1>1. f \in Surjection(S, Seqs(S))
  BY DEF Surjection, Seqs
<1>2. /\ IsFiniteSet(Seqs(S))
      /\ Cardinality(Seqs(S)) = Cardinality(S) <=> f \in Injection(S, Seqs(S))
  BY <1>1, FS_Surjection
<1>3. f \in Injection(S, Seqs(S)) <=> \A p, q \in S : p.seq = q.seq => p = q
  BY DEF Injection, IsInjective, Seqs
<1>4. Seqs(S) \in SUBSET Nat
  BY DEF Seqs, Ops
<1>5. QED
  BY <1>2, <1>3, <1>4

\* Operations numbered m + 1 to n, each once, are n - m.
LEMMA Numbered ==
  ASSUME NEW S \in SUBSET Ops, NEW m \in Nat, NEW n \in Nat, m <= n,
         \A p, q \in S : p.seq = q.seq => p = q,
         Seqs(S) = m + 1 .. n
  PROVE  IsFiniteSet(S) /\ Cardinality(S) = n - m
<1> DEFINE f == [op \in S |-> op.seq]
<1>1. f \in Injection(S, m + 1 .. n)
  <2>1. f \in [S -> m + 1 .. n]
    BY DEF Seqs
  <2>2. QED
    BY <2>1 DEF Injection, IsInjective
<1>2. f \in Surjection(S, m + 1 .. n)
  BY DEF Surjection, Seqs
<1>3. IsFiniteSet(m + 1 .. n) /\ Cardinality(m + 1 .. n) = n - m
  <2>1. m + 1 \in Int /\ n \in Int
    OBVIOUS
  <2>2. /\ IsFiniteSet(m + 1 .. n)
        /\ Cardinality(m + 1 .. n) = IF m + 1 > n THEN 0 ELSE n - (m + 1) + 1
    BY <2>1, FS_Interval
  <2>3. QED
    BY <2>2
<1> HIDE DEF f
<1>4. IsFiniteSet(S) /\ Cardinality(S) = Cardinality(m + 1 .. n)
  BY <1>1, <1>2, <1>3, FS_Injection
<1>5. QED
  BY <1>3, <1>4

----------------------------------------------------------------------------
(***************************************************************************)
(* Dense operations, and the highest of an actor's                         *)
(***************************************************************************)

\* Dense operations are finitely many, numbered 1 to their number.
LEMMA DenseProps ==
  ASSUME NEW S \in SUBSET Ops, Dense(S)
  PROVE  /\ IsFiniteSet(S) /\ Cardinality(S) \in Nat
         /\ \A p, q \in S : p.seq = q.seq => p = q
         /\ \A op \in S : op.seq \in 1..Cardinality(S)
         /\ \A k \in 1..Cardinality(S) : \E op \in S : op.seq = k
<1>1. PICK n \in Nat : Seqs(S) = 1..n
  BY DEF Dense, Seqs
<1>2. \A p, q \in S : p.seq = q.seq => p = q
  BY DEF Dense
<1>3. IsFiniteSet(S) /\ Cardinality(S) = n
  <2>1. Seqs(S) = 0 + 1 .. n /\ 0 \in Nat /\ 0 <= n
    BY <1>1
  <2>2. IsFiniteSet(S) /\ Cardinality(S) = n - 0
    BY <2>1, <1>2, Numbered
  <2>3. QED
    BY <2>2
<1>4. Seqs(S) = 1..Cardinality(S)
  BY <1>1, <1>3
<1>5. /\ \A op \in S : op.seq \in 1..Cardinality(S)
      /\ \A k \in 1..Cardinality(S) : \E op \in S : op.seq = k
  BY <1>4 DEF Seqs
<1>6. QED
  BY <1>2, <1>3, <1>5

\* They stay dense when the next one joins them.
LEMMA DenseAdd ==
  ASSUME NEW S \in SUBSET Ops, Dense(S), NEW op \in Ops,
         op.seq = Cardinality(S) + 1
  PROVE  Dense(S \cup {op}) /\ Cardinality(S \cup {op}) = Cardinality(S) + 1
<1>1. /\ IsFiniteSet(S) /\ Cardinality(S) \in Nat
      /\ \A p, q \in S : p.seq = q.seq => p = q
      /\ \A p \in S : p.seq \in 1..Cardinality(S)
      /\ \A k \in 1..Cardinality(S) : \E p \in S : p.seq = k
  BY DenseProps
<1>2. \A p \in S : p.seq # op.seq
  BY <1>1
<1>3. Cardinality(S \cup {op}) = Cardinality(S) + 1
  BY <1>1, <1>2, FS_AddElement
<1>4. \A p, q \in S \cup {op} : p.seq = q.seq => p = q
  BY <1>1, <1>2
<1>5. {p.seq : p \in S \cup {op}} = 1..(Cardinality(S) + 1)
  <2>1. ASSUME NEW p \in S \cup {op} PROVE p.seq \in 1..(Cardinality(S) + 1)
    BY <1>1
  <2>2. ASSUME NEW k \in 1..(Cardinality(S) + 1)
        PROVE  \E p \in S \cup {op} : p.seq = k
    <3>1. CASE k = Cardinality(S) + 1
      BY <3>1
    <3>2. CASE k # Cardinality(S) + 1
      <4>1. k \in 1..Cardinality(S)
        BY <3>2, <1>1
      <4>2. QED
        BY <4>1, <1>1
    <3>3. QED
      BY <3>1, <3>2
  <2>3. QED
    BY <2>1, <2>2
<1>6. QED
  BY <1>1, <1>3, <1>4, <1>5 DEF Dense

\* Dense operations among dense ones are the first of them.
LEMMA DenseWithin ==
  ASSUME NEW S \in SUBSET Ops, NEW T \in SUBSET Ops, Dense(S), Dense(T),
         S \subseteq T
  PROVE  /\ Cardinality(S) <= Cardinality(T)
         /\ \A op \in T : op.seq <= Cardinality(S) => op \in S
<1>1. /\ Cardinality(S) \in Nat
      /\ \A k \in 1..Cardinality(S) : \E op \in S : op.seq = k
  BY DenseProps
<1>2. /\ IsFiniteSet(T)
      /\ \A p, q \in T : p.seq = q.seq => p = q
      /\ \A op \in T : op.seq >= 1 /\ op.seq \in Nat
  <2>1. /\ IsFiniteSet(T) /\ Cardinality(T) \in Nat
        /\ \A p, q \in T : p.seq = q.seq => p = q
        /\ \A op \in T : op.seq \in 1..Cardinality(T)
    BY DenseProps
  <2>2. QED
    BY <2>1
<1>3. Cardinality(S) <= Cardinality(T)
  BY <1>2, FS_Subset
<1>4. ASSUME NEW op \in T, op.seq <= Cardinality(S) PROVE op \in S
  <2>1. op.seq \in 1..Cardinality(S)
    BY <1>4, <1>1, <1>2
  <2>2. PICK p \in S : p.seq = op.seq
    BY <2>1, <1>1
  <2>3. QED
    BY <2>2, <1>2
<1>5. QED
  BY <1>3, <1>4

\* The operations of one actor among some.
LEMMA OfProps ==
  ASSUME NEW a, NEW ops
  PROVE  /\ Of(a, ops) \subseteq ops
         /\ \A op : op \in Of(a, ops) <=> op \in ops /\ op.actor = a
         /\ IsFiniteSet(ops) => IsFiniteSet(Of(a, ops))
<1>1. Of(a, ops) \subseteq ops /\ \A op : op \in Of(a, ops) <=> op \in ops /\ op.actor = a
  BY DEF Of
<1>2. QED
  BY <1>1, FS_Subset

\* The highest sequence number is of an operation, unless there is none.
LEMMA HighestProps ==
  ASSUME NEW a, NEW ops \in SUBSET Ops, IsFiniteSet(Of(a, ops))
  PROVE  /\ Highest(a, ops) \in Nat
         /\ \A op \in Of(a, ops) : op.seq <= Highest(a, ops)
         /\ Highest(a, ops) = 0 \/ \E op \in Of(a, ops) : op.seq = Highest(a, ops)
<1> DEFINE M == {0} \cup Seqs(Of(a, ops))
<1>1. Of(a, ops) \in SUBSET Ops
  BY DEF Of
<1>2. Seqs(Of(a, ops)) \in SUBSET Nat /\ IsFiniteSet(Seqs(Of(a, ops)))
  BY <1>1, SeqsProps
<1>3. M \in SUBSET Nat /\ M # {} /\ IsFiniteSet(M)
  <2>1. IsFiniteSet(Seqs(Of(a, ops)) \cup {0})
    BY <1>2, FS_AddElement
  <2>2. M = Seqs(Of(a, ops)) \cup {0}
    OBVIOUS
  <2>3. QED
    BY <2>1, <2>2, <1>2
<1>4. Max(M) \in M /\ Max(M) \in Nat /\ \A s \in M : s <= Max(M)
  BY <1>3, MaxProps
<1>5. Highest(a, ops) = Max(M)
  BY DEF Highest, Seqs
<1>6. \A op \in Of(a, ops) : op.seq \in M
  BY DEF Seqs
<1>7. Max(M) = 0 \/ \E op \in Of(a, ops) : op.seq = Max(M)
  BY <1>4 DEF Seqs
<1>8. QED
  BY <1>4, <1>5, <1>6, <1>7

\* Of dense operations the highest is numbered as they are many.
LEMMA HighestOfDense ==
  ASSUME NEW a, NEW ops \in SUBSET Ops, Dense(Of(a, ops))
  PROVE  Highest(a, ops) = Cardinality(Of(a, ops))
<1>1. Of(a, ops) \in SUBSET Ops
  BY DEF Of
<1>2. /\ IsFiniteSet(Of(a, ops)) /\ Cardinality(Of(a, ops)) \in Nat
      /\ \A op \in Of(a, ops) : op.seq \in 1..Cardinality(Of(a, ops))
      /\ \A k \in 1..Cardinality(Of(a, ops)) : \E op \in Of(a, ops) : op.seq = k
  BY <1>1, DenseProps
<1>3. /\ Highest(a, ops) \in Nat
      /\ \A op \in Of(a, ops) : op.seq <= Highest(a, ops)
      /\ Highest(a, ops) = 0 \/ \E op \in Of(a, ops) : op.seq = Highest(a, ops)
  BY <1>2, HighestProps
<1>4. Highest(a, ops) <= Cardinality(Of(a, ops))
  BY <1>2, <1>3
<1>5. CASE Cardinality(Of(a, ops)) = 0
  BY <1>3, <1>4, <1>5
<1>6. CASE Cardinality(Of(a, ops)) > 0
  <2>1. Cardinality(Of(a, ops)) \in 1..Cardinality(Of(a, ops))
    BY <1>2, <1>6
  <2>2. PICK op \in Of(a, ops) : op.seq = Cardinality(Of(a, ops))
    BY <2>1, <1>2
  <2>3. QED
    BY <2>2, <1>2, <1>3, <1>4
<1>7. QED
  BY <1>2, <1>5, <1>6

----------------------------------------------------------------------------
(***************************************************************************)
(* The log                                                                 *)
(***************************************************************************)

\* What is logged at a commit.
LEMMA LoggedIs ==
  ASSUME commits \in Seq(Seq(Ops)), NEW n \in 0..Len(commits)
  PROVE  /\ LoggedAt(n) \in SUBSET Ops
         /\ \A op : op \in LoggedAt(n) <=>
                \E i \in 1..n : \E k \in 1..Len(commits[i]) : op = commits[i][k]
         /\ \A i \in 1..n : Range(commits[i]) \subseteq LoggedAt(n)
<1>1. Len(commits) \in Nat /\ \A i \in 1..n : i \in 1..Len(commits)
  OBVIOUS
<1>2. \A i \in 1..n : commits[i] \in Seq(Ops)
  BY <1>1
<1>3. ASSUME NEW i \in 1..n
      PROVE  /\ Range(commits[i]) \in SUBSET Ops
             /\ Range(commits[i]) = {commits[i][k] : k \in 1..Len(commits[i])}
  BY <1>2, RangeOfSeq, RangeEquality
<1>4. \A op : op \in LoggedAt(n) <=> \E i \in 1..n : op \in Range(commits[i])
  BY DEF LoggedAt
<1>5. \A op : op \in LoggedAt(n) => op \in Ops
  BY <1>3, <1>4
<1>6. ASSUME NEW op
      PROVE  op \in LoggedAt(n) <=>
                 \E i \in 1..n : \E k \in 1..Len(commits[i]) : op = commits[i][k]
  <2>1. \A i \in 1..n : op \in Range(commits[i]) <=>
                             \E k \in 1..Len(commits[i]) : op = commits[i][k]
    BY <1>3
  <2>2. QED
    BY <2>1, <1>4
<1>7. \A i \in 1..n : Range(commits[i]) \subseteq LoggedAt(n)
  BY <1>4
<1>8. QED
  BY <1>5, <1>6, <1>7

\* The log of a commit is part of the log of a later one.
LEMMA LoggedOrder ==
  ASSUME commits \in Seq(Seq(Ops)), NEW n \in 0..Len(commits), NEW m \in 0..n
  PROVE  LoggedAt(m) \subseteq LoggedAt(n)
BY DEF LoggedAt

\* The log is finite at every commit.
LEMMA LoggedFinite ==
  ASSUME commits \in Seq(Seq(Ops)), NEW n \in 0..Len(commits)
  PROVE  IsFiniteSet(LoggedAt(n))
<1> DEFINE Parts == {Range(commits[i]) : i \in 1..n}
           part == [i \in 1..n |-> Range(commits[i])]
<1>1. IsFiniteSet(Parts)
  <2>1. part \in Surjection(1..n, Parts)
    BY DEF Surjection
  <2>2. IsFiniteSet(1..n)
    BY FS_Interval
  <2>3. QED
    BY <2>1, <2>2, FS_Surjection
<1>2. ASSUME NEW i \in 1..n PROVE IsFiniteSet(Range(commits[i]))
  <2>1. commits[i] \in Seq(Ops)
    OBVIOUS
  <2>2. QED
    BY <2>1, RangeFinite
<1>3. IsFiniteSet(UNION Parts)
  BY <1>1, <1>2, FS_UNION
<1>4. QED
  BY <1>3 DEF LoggedAt

\* A commit adds its operations to the log and changes nothing before it.
LEMMA LogGrows ==
  ASSUME commits \in Seq(Seq(Ops)), NEW fresh \in Seq(Ops),
         commits' = Append(commits, fresh)
  PROVE  /\ commits' \in Seq(Seq(Ops)) /\ Len(commits') = Len(commits) + 1
         /\ \A i \in 1..Len(commits) : commits'[i] = commits[i]
         /\ commits'[Len(commits) + 1] = fresh
         /\ \A n \in 0..Len(commits) : LoggedAt(n)' = LoggedAt(n)
         /\ Logged' = Logged \cup Range(fresh)
<1>1. /\ commits' \in Seq(Seq(Ops)) /\ Len(commits') = Len(commits) + 1
      /\ \A i \in 1..Len(commits) : commits'[i] = commits[i]
      /\ commits'[Len(commits) + 1] = fresh
      /\ Len(commits) \in Nat
  BY AppendProperties
<1>2. ASSUME NEW n \in 0..Len(commits) PROVE LoggedAt(n)' = LoggedAt(n)
  BY <1>1 DEF LoggedAt
<1>3. Logged' = Logged \cup Range(fresh)
  <2>1. Logged' = UNION {Range(commits'[i]) : i \in 1..(Len(commits) + 1)}
    BY <1>1 DEF Logged, LoggedAt
  <2>2. ASSUME NEW op PROVE op \in Logged' <=> op \in Logged \cup Range(fresh)
    <3>1. op \in Logged' <=> \E i \in 1..(Len(commits) + 1) : op \in Range(commits'[i])
      BY <2>1
    <3>2. op \in Logged <=> \E i \in 1..Len(commits) : op \in Range(commits[i])
      BY DEF Logged, LoggedAt
    <3>3. \A i : i \in 1..(Len(commits) + 1) <=> i \in 1..Len(commits) \/ i = Len(commits) + 1
      BY <1>1
    <3>4. QED
      BY <3>1, <3>2, <3>3, <1>1
  <2>3. QED
    BY <2>2
<1>4. QED
  BY <1>1, <1>2, <1>3

----------------------------------------------------------------------------
(***************************************************************************)
(* Enumerating indices, and what validate_batch keeps                      *)
(***************************************************************************)

\* How many of some indices come before one.
Rank(K, i) == Cardinality({j \in K : j < i})

\* The index of a given rank.
Ranked(K, n) == CHOOSE i \in K : Rank(K, i) = n - 1

\* Ranks number finitely many indices from 0.
LEMMA Ranks ==
  ASSUME NEW K \in SUBSET Nat, IsFiniteSet(K)
  PROVE  /\ Cardinality(K) \in Nat
         /\ \A i \in K : Rank(K, i) \in 0..(Cardinality(K) - 1)
         /\ \A n \in 1..Cardinality(K) :
                Ranked(K, n) \in K /\ Rank(K, Ranked(K, n)) = n - 1
         /\ \A i \in K : Ranked(K, Rank(K, i) + 1) = i
<1> DEFINE c == Cardinality(K)
           Before(i) == {j \in K : j < i}
           rank == [i \in K |-> Rank(K, i)]
<1>1. c \in Nat
  BY FS_CardinalityType
<1>2. \A i \in K : i \in Nat
  OBVIOUS
<1>3. \A i, j \in K : i \notin Before(i) /\ (i < j => i \in Before(j))
                      /\ (i < j => Before(i) \subseteq Before(j))
  <2>1. ASSUME NEW i \in K, NEW j \in K
        PROVE  i \notin Before(i) /\ (i < j => i \in Before(j))
    BY <1>2
  <2>2. ASSUME NEW i \in K, NEW j \in K, i < j, NEW k \in Before(i)
        PROVE  k \in Before(j)
    <3>1. k \in K /\ k < i /\ k \in Nat /\ i \in Nat /\ j \in Nat
      BY <1>2
    <3>2. k < j
      BY <3>1, <2>2
    <3>3. QED
      BY <3>1, <3>2
  <2>3. QED
    BY <2>1, <2>2
<1>4. \A i : Rank(K, i) = Cardinality(Before(i)) /\ Before(i) \subseteq K
  BY DEF Rank
<1> HIDE DEF c, Before
<1>5. ASSUME NEW i \in K
      PROVE  IsFiniteSet(Before(i)) /\ Rank(K, i) \in Nat /\ Rank(K, i) < c
  <2>1. Before(i) \in SUBSET K /\ i \notin Before(i)
    BY <1>3, <1>4
  <2>2. /\ IsFiniteSet(Before(i)) /\ Cardinality(Before(i)) <= c
        /\ c = Cardinality(Before(i)) => K = Before(i)
    BY <2>1, FS_Subset DEF c
  <2>3. Cardinality(Before(i)) \in Nat
    BY <2>2, FS_CardinalityType
  <2>4. QED
    BY <2>1, <2>2, <2>3, <1>1, <1>4
<1>6. \A i \in K : Rank(K, i) \in Nat /\ Rank(K, i) < c
  BY <1>5
<1>7. ASSUME NEW i \in K, NEW j \in K, i < j
      PROVE  Rank(K, i) < Rank(K, j)
  <2>1. Before(i) \in SUBSET Before(j) /\ i \in Before(j) /\ i \notin Before(i)
    BY <1>3, <1>7
  <2>2. /\ Cardinality(Before(i)) <= Cardinality(Before(j))
        /\ Cardinality(Before(j)) = Cardinality(Before(i)) => Before(j) = Before(i)
    BY <2>1, <1>5, FS_Subset
  <2>3. Rank(K, i) # Rank(K, j) /\ Rank(K, i) <= Rank(K, j)
    BY <2>1, <2>2, <1>4
  <2>4. QED
    BY <2>3, <1>6
<1>8. \A i, j \in K : Rank(K, i) = Rank(K, j) => i = j
  <2>1. SUFFICES ASSUME NEW i \in K, NEW j \in K, Rank(K, i) = Rank(K, j), i # j
                 PROVE  FALSE
    OBVIOUS
  <2>2. i \in Nat /\ j \in Nat /\ Rank(K, i) \in Nat /\ Rank(K, j) \in Nat
    BY <1>2, <1>6
  <2>3. CASE i < j
    BY <2>1, <2>2, <2>3, <1>7
  <2>4. CASE j < i
    <3>1. Rank(K, j) < Rank(K, i)
      BY <2>4, <1>7
    <3>2. QED
      BY <2>1, <2>2, <3>1
  <2>5. QED
    BY <2>1, <2>2, <2>3, <2>4
<1>9. \A i \in K : Rank(K, i) \in 0..(c - 1)
  BY <1>1, <1>6
<1>10. \A n \in 1..c : \E i \in K : Rank(K, i) = n - 1
  <2>1. rank \in Injection(K, 0..(c - 1))
    <3>1. rank \in [K -> 0..(c - 1)]
      BY <1>9
    <3>2. QED
      BY <3>1, <1>8 DEF Injection, IsInjective
  <2>2. IsFiniteSet(0..(c - 1)) /\ Cardinality(0..(c - 1)) = c
    <3>1. c - 1 \in Int /\ 0 \in Int
      BY <1>1
    <3>2. /\ IsFiniteSet(0..(c - 1))
          /\ Cardinality(0..(c - 1)) = IF 0 > c - 1 THEN 0 ELSE (c - 1) - 0 + 1
      BY <3>1, FS_Interval
    <3>3. QED
      BY <3>2, <1>1
  <2>3. rank \in Surjection(K, 0..(c - 1))
    BY <2>1, <2>2, FS_Injection DEF c
  <2>4. \A m \in 0..(c - 1) : \E i \in K : Rank(K, i) = m
    BY <2>3 DEF Surjection
  <2>5. \A n \in 1..c : n - 1 \in 0..(c - 1)
    BY <1>1
  <2>6. QED
    BY <2>4, <2>5
<1>11. \A n \in 1..c : Ranked(K, n) \in K /\ Rank(K, Ranked(K, n)) = n - 1
  BY <1>10 DEF Ranked
<1>12. ASSUME NEW i \in K
       PROVE  Ranked(K, Rank(K, i) + 1) = i
  <2>1. Rank(K, i) \in Nat /\ Rank(K, i) < c
    BY <1>6
  <2> DEFINE n == Rank(K, i) + 1
  <2>2. n \in 1..c /\ n - 1 = Rank(K, i)
    BY <2>1, <1>1
  <2> HIDE DEF n
  <2>3. Ranked(K, n) \in K /\ Rank(K, Ranked(K, n)) = n - 1
    BY <2>2, <1>11
  <2>4. Ranked(K, n) = i
    BY <2>2, <2>3, <1>8
  <2>5. QED
    BY <2>4 DEF n
<1>13. QED
  BY <1>1, <1>9, <1>11, <1>12 DEF c

\* The indices of a batch that validate_batch keeps.
Kept(batch) == {i \in 1..Len(batch) : batch[i] \notin Logged}

\* What it keeps is enumerated in order.
LEMMA FreshIs ==
  ASSUME NEW batch \in Seq(Ops)
  PROVE  /\ Kept(batch) \in SUBSET Nat /\ IsFiniteSet(Kept(batch))
         /\ Fresh(batch) \in Seq(Ops)
         /\ Len(Fresh(batch)) = Cardinality(Kept(batch))
         /\ \A n \in 1..Len(Fresh(batch)) :
                Fresh(batch)[n] = batch[Ranked(Kept(batch), n)]
         /\ \A n \in 1..Len(Fresh(batch)) : \E i \in 1..Len(batch) :
                Fresh(batch)[n] = batch[i] /\ batch[i] \notin Logged
         /\ Range(Fresh(batch)) = Range(batch) \ Logged
<1> DEFINE K == Kept(batch)
           F == Fresh(batch)
<1>1. Len(batch) \in Nat /\ DOMAIN batch = 1..Len(batch)
      /\ \A i \in 1..Len(batch) : batch[i] \in Ops
  OBVIOUS
<1>2. K \in SUBSET Nat /\ IsFiniteSet(K)
  <2>1. Len(batch) \in Int /\ 1 \in Int
    BY <1>1
  <2>2. IsFiniteSet(1..Len(batch))
    BY <2>1, FS_Interval
  <2>3. K \in SUBSET (1..Len(batch))
    BY DEF Kept
  <2>4. QED
    BY <2>2, <2>3, FS_Subset
<1>3. /\ Cardinality(K) \in Nat
      /\ \A i \in K : Rank(K, i) \in 0..(Cardinality(K) - 1)
      /\ \A n \in 1..Cardinality(K) : Ranked(K, n) \in K
      /\ \A i \in K : Ranked(K, Rank(K, i) + 1) = i
  BY <1>2, Ranks
<1>4. F = [n \in 1..Cardinality(K) |-> batch[Ranked(K, n)]]
  BY <1>1 DEF Fresh, Kept, Ranked, Rank
<1>5. \A i \in K : i \in 1..Len(batch) /\ batch[i] \notin Logged
  BY DEF Kept
<1> HIDE DEF K, F
<1>6. \A n \in 1..Cardinality(K) : batch[Ranked(K, n)] \in Ops
  BY <1>1, <1>3, <1>5
<1>7. F \in Seq(Ops) /\ Len(F) = Cardinality(K)
  BY <1>3, <1>4, <1>6
<1>8. \A n \in 1..Len(F) : F[n] = batch[Ranked(K, n)]
  BY <1>4, <1>7
<1>9. \A n \in 1..Len(F) : \E i \in 1..Len(batch) :
          F[n] = batch[i] /\ batch[i] \notin Logged
  BY <1>3, <1>5, <1>7, <1>8
<1>10. Range(F) = Range(batch) \ Logged
  <2>1. Range(F) = {F[n] : n \in 1..Len(F)}
    BY <1>7, RangeEquality
  <2>2. Range(batch) = {batch[i] : i \in 1..Len(batch)}
    BY RangeEquality
  <2>3. Range(F) \subseteq Range(batch) \ Logged
    BY <2>1, <2>2, <1>9
  <2>4. ASSUME NEW i \in 1..Len(batch), batch[i] \notin Logged
        PROVE  batch[i] \in Range(F)
    <3>1. i \in K
      BY <2>4 DEF K, Kept
    <3>2. Rank(K, i) + 1 \in 1..Len(F)
      BY <3>1, <1>3, <1>7
    <3>3. F[Rank(K, i) + 1] = batch[i]
      BY <3>1, <3>2, <1>3, <1>8
    <3>4. QED
      BY <2>1, <3>2, <3>3
  <2>5. QED
    BY <2>2, <2>3, <2>4
<1>11. QED
  BY <1>2, <1>7, <1>8, <1>9, <1>10 DEF K, F

----------------------------------------------------------------------------
(***************************************************************************)
(* The frames of one tick                                                  *)
(***************************************************************************)

\* Of operations numbered m + 1 to n, those before one are as many as the
\* numbers between.
LEMMA CountBefore ==
  ASSUME NEW S \in SUBSET Ops, NEW m \in Nat, NEW n \in Nat, m <= n,
         \A p, q \in S : p.seq = q.seq => p = q,
         Seqs(S) = m + 1 .. n,
         NEW op \in S
  PROVE  Cardinality({p \in S : p.seq < op.seq}) = op.seq - m - 1
<1> DEFINE B == {p \in S : p.seq < op.seq}
           b == op.seq - 1
<1>1. op.seq \in m + 1 .. n /\ \A p \in S : p.seq \in m + 1 .. n
  BY DEF Seqs
<1>2. b \in Nat /\ m <= b /\ b + 1 = op.seq
  BY <1>1
<1>3. B \in SUBSET Ops /\ \A p, q \in B : p.seq = q.seq => p = q
  OBVIOUS
<1>4. Seqs(B) = m + 1 .. b
  <2>1. ASSUME NEW k \in m + 1 .. b PROVE \E p \in B : p.seq = k
    <3>1. k \in m + 1 .. n /\ k < op.seq
      BY <1>1, <1>2
    <3>2. PICK p \in S : p.seq = k
      BY <3>1 DEF Seqs
    <3>3. QED
      BY <3>1, <3>2
  <2>2. ASSUME NEW p \in B PROVE p.seq \in m + 1 .. b
    BY <1>1, <1>2
  <2>3. QED
    BY <2>1, <2>2 DEF Seqs
<1> HIDE DEF B, b
<1>5. Cardinality(B) = b - m
  BY <1>2, <1>3, <1>4, Numbered
<1>6. QED
  BY <1>1, <1>5 DEF B, b

\* InOrder puts such operations in the order of their numbers.
LEMMA InOrderProps ==
  ASSUME NEW S \in SUBSET Ops, NEW m \in Nat, NEW n \in Nat, m <= n,
         \A p, q \in S : p.seq = q.seq => p = q,
         Seqs(S) = m + 1 .. n
  PROVE  /\ InOrder(S) \in Seq(Ops) /\ Len(InOrder(S)) = n - m
         /\ \A k \in 1..(n - m) : InOrder(S)[k] \in S /\ InOrder(S)[k].seq = m + k
<1> DEFINE at(i) == CHOOSE op \in S : Cardinality({p \in S : p.seq < op.seq}) = i - 1
<1>1. Cardinality(S) = n - m
  BY Numbered
<1>2. ASSUME NEW i \in 1..(n - m)
      PROVE  at(i) \in S /\ at(i).seq = m + i
  <2>1. \A op \in S : Cardinality({p \in S : p.seq < op.seq}) = op.seq - m - 1
    BY CountBefore
  <2>2. m + i \in m + 1 .. n
    OBVIOUS
  <2>3. PICK op \in S : op.seq = m + i
    BY <2>2 DEF Seqs
  <2>4. Cardinality({p \in S : p.seq < op.seq}) = i - 1
    BY <2>1, <2>3
  <2>5. at(i) \in S /\ Cardinality({p \in S : p.seq < at(i).seq}) = i - 1
    BY <2>4
  <2>6. at(i).seq \in Nat
    BY <2>5 DEF Ops
  <2> HIDE DEF at
  <2>7. Cardinality({p \in S : p.seq < at(i).seq}) = at(i).seq - m - 1
    BY <2>1, <2>5
  <2>8. QED
    BY <2>5, <2>6, <2>7
<1>3. InOrder(S) = [i \in 1..(n - m) |-> at(i)]
  BY <1>1 DEF InOrder
<1> HIDE DEF at
<1>4. n - m \in Nat
  OBVIOUS
<1>5. \A i \in 1..(n - m) : at(i) \in Ops
  BY <1>2
<1>6. InOrder(S) \in Seq(Ops) /\ Len(InOrder(S)) = n - m
  BY <1>3, <1>4, <1>5
<1>7. QED
  BY <1>2, <1>3, <1>6

\* What division leaves of a number.
LEMMA Division ==
  ASSUME NEW m \in Nat, NEW n \in Nat \ {0}
  PROVE  m \div n \in Nat /\ n * (m \div n) <= m
OBVIOUS

\* Every frame is a run of those operations; the first frame starts with the
\* next number and each other continues the one before it.
LEMMA ChunksProps ==
  ASSUME NEW ops \in SUBSET Ops, IsFiniteSet(ops), NEW from \in Nat,
         Seqs(ops) = from + 1 .. from + Cardinality(ops)
  PROVE  /\ Chunks(ops) \in Seq(Seq(Ops))
         /\ \A i \in 1..Len(Chunks(ops)) :
                /\ Chunks(ops)[i] # <<>>
                /\ \A k \in 1..Len(Chunks(ops)[i]) :
                       /\ Chunks(ops)[i][k] \in ops
                       /\ Chunks(ops)[i][k].seq = Chunks(ops)[i][1].seq + k - 1
                /\ i = 1 => Chunks(ops)[i][1].seq = from + 1
                /\ i > 1 => \E op \in Range(Chunks(ops)[i - 1]) :
                                op.seq + 1 = Chunks(ops)[i][1].seq
<1> DEFINE c == Cardinality(ops)
           L == SubmitLimit
           before(op) == Cardinality({p \in ops : p.seq < op.seq})
           part(i) == {op \in ops : \E k \in 1..L : before(op) = (i - 1) * L + k - 1}
           needed == (c + L - 1) \div L
           sent == Min({needed, FramesPerTick})
           start(i) == from + (i - 1) * L
           end(i) == IF (i - 1) * L + L <= c THEN from + (i - 1) * L + L ELSE from + c
<1>1. c \in Nat /\ L \in Nat \ {0} /\ FramesPerTick \in Nat
  BY FS_CardinalityType, CollabAssumption
<1>2. \A p, q \in ops : p.seq = q.seq => p = q
  <2>1. from + 1 \in Int /\ from + c \in Int
    BY <1>1
  <2>2. Cardinality(from + 1 .. from + c) = IF from + 1 > from + c THEN 0
                                            ELSE (from + c) - (from + 1) + 1
    BY <2>1, FS_Interval
  <2>3. Cardinality(Seqs(ops)) = c
    BY <2>2, <1>1
  <2>4. QED
    BY <2>3, SeqsProps
<1>3. ASSUME NEW op \in ops PROVE before(op) = op.seq - from - 1 /\ op.seq \in from + 1 .. from + c
  <2>1. from + c \in Nat /\ from <= from + c
    BY <1>1
  <2>2. before(op) = op.seq - from - 1
    BY <2>1, <1>2, CountBefore
  <2>3. QED
    BY <2>2 DEF Seqs
<1>4. needed \in Nat /\ L * needed <= c + L - 1
  <2>1. c + L - 1 \in Nat
    BY <1>1
  <2>2. QED
    BY <2>1, <1>1, Division
<1>5. sent \in Nat /\ sent <= needed
  BY <1>1, <1>4, MinOfTwo
<1>6. Chunks(ops) = [i \in 1..sent |-> InOrder(part(i))]
  BY DEF Chunks
<1> HIDE DEF before, needed, sent, c, L
<1>7. ASSUME NEW i \in 1..sent
      PROVE  /\ start(i) \in Nat /\ end(i) \in Nat /\ start(i) < end(i) /\ end(i) <= from + c
             /\ i < sent => end(i) = start(i + 1)
  <2>1. i \in Nat \ {0} /\ i <= needed /\ i - 1 \in Nat
    BY <1>4, <1>5
  <2>2. (i - 1) * L \in Nat /\ i * L = (i - 1) * L + L
    BY <2>1, <1>1
  <2>3. L * (i - 1) + L <= L * needed
    BY <2>1, <1>1, <1>4, SMT
  <2>4. (i - 1) * L = L * (i - 1)
    BY <2>1, <1>1
  <2> DEFINE s == (i - 1) * L
  <2>5. s \in Nat /\ s < c
    <3>1. s \in Nat /\ s + L <= L * needed
      BY <2>2, <2>3, <2>4
    <3>2. L * needed \in Nat
      BY <1>1, <1>4
    <3> HIDE DEF s
    <3>3. QED
      BY <3>1, <3>2, <1>1, <1>4
  <2>6. i < sent => s + L < c
    <3>1. SUFFICES ASSUME i < sent PROVE s + L < c
      OBVIOUS
    <3>2. i + 1 \in Nat \ {0} /\ i + 1 <= needed
      BY <3>1, <2>1, <1>4, <1>5
    <3>3. L * i + L <= L * needed
      BY <3>2, <2>1, <1>1, <1>4, SMT
    <3>4. L * i = i * L
      BY <2>1, <1>1
    <3>5. L * needed \in Nat /\ s + L + L <= L * needed
      BY <3>3, <3>4, <2>2, <1>1, <1>4
    <3> HIDE DEF s
    <3>6. QED
      BY <3>5, <2>5, <1>1, <1>4
  <2>7. start(i) = from + s /\ end(i) = (IF s + L <= c THEN from + s + L ELSE from + c)
        /\ start(i + 1) = from + s + L
    <3>1. i + 1 - 1 = i
      BY <2>1
    <3>2. start(i + 1) = from + i * L
      BY <3>1
    <3>3. i * L = s + L
      BY <2>2
    <3>4. start(i) = from + s /\ end(i) = (IF s + L <= c THEN from + s + L ELSE from + c)
      OBVIOUS
    <3> HIDE DEF s, start, end
    <3>5. QED
      BY <3>2, <3>3, <3>4, <2>5, <1>1
  <2> HIDE DEF s, start, end
  <2>8. QED
    BY <2>5, <2>6, <2>7, <1>1
<1>8. ASSUME NEW i \in 1..sent
      PROVE  /\ part(i) \in SUBSET ops
             /\ Seqs(part(i)) = start(i) + 1 .. end(i)
  <2> DEFINE s == (i - 1) * L
  <2>1. s \in Nat
    <3>1. i - 1 \in Nat
      BY <1>5
    <3>2. QED
      BY <3>1, <1>1
  <2>2. start(i) = from + s /\ end(i) = (IF s + L <= c THEN from + s + L ELSE from + c)
    OBVIOUS
  <2>3. \A op : op \in part(i) <=> op \in ops /\ \E k \in 1..L : before(op) = s + k - 1
    OBVIOUS
  <2> HIDE DEF s, start, end, part
  <2>4. ASSUME NEW op \in part(i) PROVE op.seq \in start(i) + 1 .. end(i)
    <3>1. PICK k \in 1..L : before(op) = s + k - 1
      BY <2>3
    <3>2. before(op) = op.seq - from - 1 /\ op.seq \in from + 1 .. from + c
      BY <2>3, <1>3
    <3>3. op.seq = from + s + k
      BY <3>1, <3>2, <2>1, <1>1
    <3>4. QED
      BY <3>1, <3>2, <3>3, <2>1, <2>2, <1>1
  <2>5. ASSUME NEW k \in start(i) + 1 .. end(i) PROVE \E op \in part(i) : op.seq = k
    <3>1. k \in from + 1 .. from + c /\ k - from - s \in 1..L
      BY <2>1, <2>2, <1>1, <1>7
    <3>2. PICK op \in ops : op.seq = k
      BY <3>1 DEF Seqs, c
    <3>3. before(op) = k - from - 1
      BY <3>2, <1>3
    <3> DEFINE j == k - from - s
    <3>4. j \in 1..L /\ k \in Nat
      BY <3>1, <2>1
    <3>5. before(op) = s + j - 1
      BY <3>3, <2>1, <3>4
    <3> HIDE DEF j
    <3>6. op \in part(i)
      BY <3>2, <3>4, <3>5, <2>3
    <3>7. QED
      BY <3>2, <3>6
  <2>6. QED
    BY <2>3, <2>4, <2>5 DEF Seqs
<1>9. ASSUME NEW i \in 1..sent
      PROVE  /\ InOrder(part(i)) \in Seq(Ops)
             /\ Len(InOrder(part(i))) = end(i) - start(i)
             /\ \A k \in 1..(end(i) - start(i)) :
                    /\ InOrder(part(i))[k] \in ops
                    /\ InOrder(part(i))[k].seq = start(i) + k
  <2>1. part(i) \in SUBSET ops /\ Seqs(part(i)) = start(i) + 1 .. end(i)
    BY <1>8
  <2>2. start(i) \in Nat /\ end(i) \in Nat /\ start(i) <= end(i)
    BY <1>7
  <2> HIDE DEF part, start, end
  <2>3. part(i) \in SUBSET Ops /\ \A p, q \in part(i) : p.seq = q.seq => p = q
    BY <2>1, <1>2
  <2>4. /\ InOrder(part(i)) \in Seq(Ops)
        /\ Len(InOrder(part(i))) = end(i) - start(i)
        /\ \A k \in 1..(end(i) - start(i)) :
               InOrder(part(i))[k] \in part(i) /\ InOrder(part(i))[k].seq = start(i) + k
    BY <2>1, <2>2, <2>3, InOrderProps
  <2>5. QED
    BY <2>1, <2>4
<1>10. start(1) = from
  BY <1>1
<1> HIDE DEF part, start, end
<1>11. Chunks(ops) \in Seq(Seq(Ops)) /\ Len(Chunks(ops)) = sent
       /\ \A i \in 1..sent : Chunks(ops)[i] = InOrder(part(i))
  <2>1. \A i \in 1..sent : InOrder(part(i)) \in Seq(Ops)
    BY <1>9
  <2>2. QED
    BY <2>1, <1>5, <1>6
<1>12. ASSUME NEW i \in 1..sent
       PROVE  /\ Chunks(ops)[i] \in Seq(Ops)
              /\ Len(Chunks(ops)[i]) = end(i) - start(i) /\ Len(Chunks(ops)[i]) >= 1
              /\ start(i) \in Nat /\ end(i) \in Nat
              /\ \A k \in 1..Len(Chunks(ops)[i]) :
                     /\ Chunks(ops)[i][k] \in ops
                     /\ Chunks(ops)[i][k].seq = start(i) + k
  BY <1>7, <1>9, <1>11
<1>13. ASSUME NEW i \in 1..sent
       PROVE  /\ Chunks(ops)[i] # <<>>
              /\ Chunks(ops)[i][1].seq = start(i) + 1
              /\ \A k \in 1..Len(Chunks(ops)[i]) :
                     /\ Chunks(ops)[i][k] \in ops
                     /\ Chunks(ops)[i][k].seq = Chunks(ops)[i][1].seq + k - 1
              /\ i = 1 => Chunks(ops)[i][1].seq = from + 1
              /\ i > 1 => \E op \in Range(Chunks(ops)[i - 1]) :
                              op.seq + 1 = Chunks(ops)[i][1].seq
  <2>1. 1 \in 1..Len(Chunks(ops)[i]) /\ Chunks(ops)[i] # <<>>
    BY <1>12
  <2>2. Chunks(ops)[i][1].seq = start(i) + 1
    BY <2>1, <1>12
  <2>3. \A k \in 1..Len(Chunks(ops)[i]) :
            /\ Chunks(ops)[i][k] \in ops
            /\ Chunks(ops)[i][k].seq = Chunks(ops)[i][1].seq + k - 1
    <3>1. ASSUME NEW k \in 1..Len(Chunks(ops)[i])
          PROVE  /\ Chunks(ops)[i][k] \in ops
                 /\ Chunks(ops)[i][k].seq = start(i) + k /\ k \in Nat /\ start(i) \in Nat
      BY <1>12
    <3>2. QED
      BY <3>1, <2>2
  <2>4. ASSUME i > 1
        PROVE  \E op \in Range(Chunks(ops)[i - 1]) : op.seq + 1 = Chunks(ops)[i][1].seq
    <3> DEFINE h == i - 1
    <3>1. h \in 1..sent /\ h < sent /\ h + 1 = i
      BY <2>4, <1>5
    <3> HIDE DEF h
    <3> DEFINE n == Len(Chunks(ops)[h])
    <3>2. end(h) = start(i)
      BY <3>1, <1>7
    <3>3. n \in Nat /\ n >= 1 /\ n = end(h) - start(h)
      BY <3>1, <1>12
    <3>4. Chunks(ops)[h][n].seq = end(h)
      <4>1. n \in 1..n
        BY <3>3
      <4>2. Chunks(ops)[h][n].seq = start(h) + n /\ start(h) \in Nat /\ end(h) \in Nat
        BY <4>1, <3>1, <1>12
      <4>3. QED
        BY <4>2, <3>3
    <3>5. Chunks(ops)[h] \in Seq(Ops) /\ n \in 1..Len(Chunks(ops)[h])
      BY <3>1, <3>3, <1>12
    <3>6. Chunks(ops)[h][n] \in Range(Chunks(ops)[h])
      BY <3>5, RangeEquality
    <3>7. QED
      BY <3>2, <3>4, <3>6, <2>2 DEF h
  <2>5. QED
    BY <2>1, <2>2, <2>3, <2>4, <1>10
<1>14. QED
  BY <1>11, <1>13

----------------------------------------------------------------------------
(***************************************************************************)
(* What the variables are made of                                          *)
(***************************************************************************)

\* The types of a tab's part of the state.
LEMMA Typed ==
  ASSUME TypeOK
  PROVE  /\ commits \in Seq(Seq(Ops)) /\ Len(commits) \in Nat
         /\ \A t \in Tabs :
                /\ ActorOf[t] \in Actors
                /\ conn[t] \in {"none", "opening", "joined", "dead"}
                /\ up[t] \in Seq(Seq(Ops)) /\ old[t] \in Seq(Seq(Ops))
                /\ down[t] \in Seq(Frames)
                /\ driver[t] \in Drivers
                /\ authored[t] \in SUBSET Ops
<1>1. commits \in Seq(Seq(Ops)) /\ Len(commits) \in Nat
  BY DEF TypeOK
<1>2. ASSUME NEW t \in Tabs
      PROVE  /\ ActorOf[t] \in Actors
             /\ conn[t] \in {"none", "opening", "joined", "dead"}
             /\ up[t] \in Seq(Seq(Ops)) /\ old[t] \in Seq(Seq(Ops))
             /\ down[t] \in Seq(Frames)
             /\ driver[t] \in Drivers
             /\ authored[t] \in SUBSET Ops
  BY CollabAssumption DEF TypeOK
<1>3. QED
  BY <1>1, <1>2

\* A driver's fields.
LEMMA DriverIs ==
  ASSUME NEW d \in Drivers
  PROVE  /\ d.phase \in {"idle", "connecting", "live", "reconnecting", "closed"}
         /\ d.joined \in BOOLEAN /\ d.replica \in SUBSET Ops
         /\ d.acknowledged_seq \in Nat /\ d.submitted_through \in Nat
         /\ d.awaiting \in BOOLEAN
         /\ d.blocked \in {"no", "refused", "not-applied", "rewritten", "gap"}
         /\ d.refusals \in Nat /\ d.reconnect \in BOOLEAN /\ d.commit_seq \in Nat
BY DEF Drivers

\* An operation's fields.
LEMMA OpIs ==
  ASSUME NEW op \in Ops
  PROVE  /\ op.actor \in Actors /\ op.seq \in Nat /\ op.seq >= 1
         /\ op.by \in Tabs /\ op.seen \in [Actors -> Nat]
BY DEF Ops

\* The frames that answer for a commit.
CommittedAs(n) == [kind |-> "committed", commit |-> n]
AcceptedAs(n, ids) == [kind |-> "accepted", commit |-> n, ids |-> ids]
WelcomeAs(n) == [kind |-> "welcome", commit |-> n]

\* The frames there are.
LEMMA FrameIs ==
  ASSUME NEW f \in Frames
  PROVE  /\ f.kind \in {"welcome", "committed", "accepted", "rejected"}
         /\ f.kind # "rejected" => f.commit \in Nat
         /\ f.kind = "accepted" => f.ids \in SUBSET Nat
         /\ f.kind = "rejected" => f \in {Rejected("conflict"), Rejected("storage")}
BY DEF Frames, Rejected

\* How they are made.
LEMMA FrameMade ==
  ASSUME NEW n \in Nat, NEW ids \in SUBSET Nat
  PROVE  /\ CommittedAs(n) \in Frames /\ CommittedAs(n).kind = "committed"
         /\ CommittedAs(n).commit = n
         /\ AcceptedAs(n, ids) \in Frames /\ AcceptedAs(n, ids).kind = "accepted"
         /\ AcceptedAs(n, ids).commit = n /\ AcceptedAs(n, ids).ids = ids
         /\ WelcomeAs(n) \in Frames /\ WelcomeAs(n).kind = "welcome"
         /\ WelcomeAs(n).commit = n
         /\ \A code \in {"conflict", "storage"} :
                Rejected(code) \in Frames /\ Rejected(code).kind = "rejected"
         /\ Rejected("conflict") # Rejected("storage")
BY DEF Frames, Rejected, CommittedAs, AcceptedAs, WelcomeAs

\* A frame that was right stays right.
LEMMA FrameStays ==
  ASSUME NEW f, NEW m \in Nat, NEW n \in Nat, m <= n, FrameOK(f, m)
  PROVE  FrameOK(f, n)
BY DEF FrameOK

\* What the soundness of the log says of an operation and those before it.
Sound(op, before) ==
    /\ op.seq = Cardinality(Of(op.actor, before)) + 1
    /\ \A a \in Actors : op.seen[a] <= Highest(a, before)

\* The operations logged before the i-th of the n-th commit.
Earlier(n, i) == LoggedAt(n - 1) \cup {commits[n][k] : k \in 1..(i - 1)}

\* The log is sound when every operation in it is.
LEMMA SoundIs ==
  /\ LogIsSound <=> \A n \in 1..Len(commits) : \A i \in 1..Len(commits[n]) :
         Sound(commits[n][i], Earlier(n, i))
  /\ LogIsSound' <=> \A n \in 1..Len(commits') : \A i \in 1..Len(commits'[n]) :
         Sound(commits'[n][i], Earlier(n, i)')
BY DEF LogIsSound, Sound, Earlier

\* With the same commits the log is the same.
LEMMA SameLog ==
  ASSUME commits' = commits
  PROVE  /\ \A n : LoggedAt(n)' = LoggedAt(n)
         /\ Logged' = Logged
         /\ LogIsDense => LogIsDense'
         /\ LogIsSound => LogIsSound'
<1>1. \A n : LoggedAt(n)' = LoggedAt(n)
  BY DEF LoggedAt
<1>2. Logged' = Logged
  BY DEF Logged, LoggedAt
<1>3. LogIsDense => LogIsDense'
  BY <1>1 DEF LogIsDense
<1>4. LogIsSound => LogIsSound'
  <2>1. \A n, i : Earlier(n, i)' = Earlier(n, i)
    BY DEF Earlier, LoggedAt
  <2>2. QED
    BY <2>1, SoundIs
<1>5. QED
  BY <1>1, <1>2, <1>3, <1>4

\* The whole log is dense, as it is at each commit.
LEMMA LoggedDense ==
  ASSUME TypeOK, LogIsDense, NEW a \in Actors
  PROVE  /\ Logged \in SUBSET Ops /\ IsFiniteSet(Logged)
         /\ Of(a, Logged) \in SUBSET Ops /\ Dense(Of(a, Logged))
         /\ LoggedOf(a) = Cardinality(Of(a, Logged)) /\ LoggedOf(a) \in Nat
         /\ IsFiniteSet(Of(a, Logged))
         /\ \A op \in Of(a, Logged) : op.seq \in 1..LoggedOf(a)
         /\ \A k \in 1..LoggedOf(a) : \E op \in Of(a, Logged) : op.seq = k
<1>1. commits \in Seq(Seq(Ops)) /\ Len(commits) \in 0..Len(commits)
  BY DEF TypeOK
<1>2. Logged \in SUBSET Ops /\ IsFiniteSet(Logged)
  BY <1>1, LoggedIs, LoggedFinite DEF Logged
<1>3. Of(a, Logged) \in SUBSET Ops
  BY <1>2, OfProps
<1>4. Dense(Of(a, Logged))
  BY <1>1 DEF LogIsDense, Logged
<1>5. QED
  BY <1>2, <1>3, <1>4, DenseProps DEF LoggedOf

----------------------------------------------------------------------------
(***************************************************************************)
(* The document thread: what serving a batch does                          *)
(***************************************************************************)

\* What is kept of a valid batch continues its author's operations.
LEMMA FreshFollows ==
  ASSUME TypeOK, LogIsDense, NEW batch \in Seq(Ops), Run(batch), Valid(batch),
         NEW j \in 0..Len(Fresh(batch)), NEW a \in Actors
  PROVE  LET T == Logged \cup {Fresh(batch)[k] : k \in 1..j}
         IN  /\ T \in SUBSET Ops /\ Dense(Of(a, T))
             /\ Cardinality(Of(a, T)) =
                    LoggedOf(a) + (IF a = batch[1].actor THEN j ELSE 0)
<1> DEFINE F == Fresh(batch)
           T == Logged \cup {F[k] : k \in 1..j}
           L == LoggedOf(a)
<1>1. /\ F \in Seq(Ops) /\ Len(F) \in Nat
      /\ \A n \in 1..Len(F) : \E i \in 1..Len(batch) : F[n] = batch[i]
  BY FreshIs
<1>2. \A n \in 1..Len(F) : F[n] \in Ops /\ F[n].actor = batch[1].actor
  BY <1>1 DEF Run
<1>3. /\ Logged \in SUBSET Ops /\ Of(a, Logged) \in SUBSET Ops
      /\ Dense(Of(a, Logged)) /\ L = Cardinality(Of(a, Logged)) /\ L \in Nat
      /\ \A op \in Of(a, Logged) : op.seq \in 1..L
      /\ \A k \in 1..L : \E op \in Of(a, Logged) : op.seq = k
  BY LoggedDense
<1>4. \A n \in 1..Len(F) :
          F[n].seq = Cardinality(Of(F[n].actor, Logged)) + n
  BY DEF Valid
<1> HIDE DEF F
<1>5. \A k \in 1..j : k \in 1..Len(F)
  BY <1>1 DEF F
<1>6. T \in SUBSET Ops
  BY <1>2, <1>3, <1>5
<1>7. CASE a # batch[1].actor
  <2>1. Of(a, T) = Of(a, Logged)
    BY <1>2, <1>5, <1>7 DEF Of
  <2>2. QED
    BY <2>1, <1>3, <1>6, <1>7 DEF F
<1>8. CASE a = batch[1].actor
  <2>1. Of(a, T) = Of(a, Logged) \cup {F[k] : k \in 1..j}
    BY <1>2, <1>5, <1>8 DEF Of
  <2>2. \A k \in 1..j : F[k].seq = L + k /\ k \in 1..j
    BY <1>2, <1>3, <1>4, <1>5, <1>8
  <2>3. \A p, q \in Of(a, Logged) : p.seq = q.seq => p = q
    BY <1>3 DEF Dense
  <2>4. \A p, q \in Of(a, T) : p.seq = q.seq => p = q
    <3>1. SUFFICES ASSUME NEW p \in Of(a, T), NEW q \in Of(a, T), p.seq = q.seq
                   PROVE  p = q
      OBVIOUS
    <3>2. CASE p \in Of(a, Logged) /\ q \in Of(a, Logged)
      BY <3>1, <3>2, <2>3
    <3>3. CASE p \in Of(a, Logged) /\ q \notin Of(a, Logged)
      <4>1. PICK k \in 1..j : q = F[k]
        BY <3>3, <2>1
      <4>2. q.seq = L + k /\ k \in Nat /\ k >= 1 /\ p.seq <= L /\ p.seq \in Nat
        BY <4>1, <2>2, <1>3, <3>3
      <4>3. QED
        BY <4>2, <3>1, <1>3
    <3>4. CASE p \notin Of(a, Logged) /\ q \in Of(a, Logged)
      <4>1. PICK k \in 1..j : p = F[k]
        BY <3>4, <2>1
      <4>2. p.seq = L + k /\ k \in Nat /\ k >= 1 /\ q.seq <= L /\ q.seq \in Nat
        BY <4>1, <2>2, <1>3, <3>4
      <4>3. QED
        BY <4>2, <3>1, <1>3
    <3>5. CASE p \notin Of(a, Logged) /\ q \notin Of(a, Logged)
      <4>1. PICK k \in 1..j : p = F[k]
        BY <3>5, <2>1
      <4>2. PICK m \in 1..j : q = F[m]
        BY <3>5, <2>1
      <4>3. L + k = L + m
        BY <4>1, <4>2, <2>2, <3>1
      <4>4. k = m
        BY <4>3, <1>3
      <4>5. QED
        BY <4>1, <4>2, <4>4
    <3>6. QED
      BY <3>2, <3>3, <3>4, <3>5
  <2>5. Seqs(Of(a, T)) = 1..(L + j)
    <3>1. ASSUME NEW p \in Of(a, T) PROVE p.seq \in 1..(L + j)
      <4>1. CASE p \in Of(a, Logged)
        BY <4>1, <1>3
      <4>2. CASE p \notin Of(a, Logged)
        <5>1. PICK k \in 1..j : p = F[k]
          BY <4>2, <2>1
        <5>2. QED
          BY <5>1, <2>2, <1>3
      <4>3. QED
        BY <4>1, <4>2
    <3>2. ASSUME NEW k \in 1..(L + j) PROVE \E p \in Of(a, T) : p.seq = k
      <4>1. CASE k <= L
        <5>1. k \in 1..L
          BY <4>1, <1>3
        <5>2. PICK p \in Of(a, Logged) : p.seq = k
          BY <5>1, <1>3
        <5>3. QED
          BY <5>2, <2>1
      <4>2. CASE k > L
        <5> DEFINE m == k - L
        <5>1. m \in 1..j /\ L + m = k
          BY <4>2, <1>3
        <5> HIDE DEF m
        <5>2. F[m].seq = k /\ F[m] \in Of(a, T)
          BY <5>1, <2>1, <2>2
        <5>3. QED
          BY <5>2
      <4>3. QED
        BY <4>1, <4>2, <1>3
    <3>3. QED
      BY <3>1, <3>2 DEF Seqs
  <2>6. j \in Nat /\ L + j \in Nat
    BY <1>1, <1>3
  <2>7. Cardinality(Of(a, T)) = L + j
    <3>1. Of(a, T) \in SUBSET Ops
      BY <1>6, OfProps
    <3>2. Seqs(Of(a, T)) = 0 + 1 .. L + j /\ 0 \in Nat /\ 0 <= L + j
      BY <2>5, <2>6
    <3> HIDE DEF T, L
    <3>3. Cardinality(Of(a, T)) = L + j - 0
      BY <3>1, <3>2, <2>4, <2>6, Numbered
    <3>4. QED
      BY <3>3, <2>6
  <2>8. Dense(Of(a, T))
    BY <2>4, <2>5, <2>6 DEF Dense, Seqs
  <2>9. QED
    BY <2>7, <2>8, <1>6, <1>8 DEF F
<1>9. QED
  BY <1>7, <1>8

\* A commit of a valid batch keeps the log dense and sound.
LEMMA CommitIsSound ==
  ASSUME TypeOK, LogIsDense, LogIsSound, NEW batch \in Seq(Ops), Run(batch),
         Valid(batch), commits' = Append(commits, Fresh(batch))
  PROVE  LogIsDense' /\ LogIsSound'
<1> DEFINE F == Fresh(batch)
           T(j) == Logged \cup {F[k] : k \in 1..j}
<1>1. F \in Seq(Ops) /\ Len(F) \in Nat
  BY FreshIs
<1>2. commits \in Seq(Seq(Ops)) /\ Len(commits) \in Nat
  BY Typed
<1>3. /\ Len(commits') = Len(commits) + 1
      /\ \A i \in 1..Len(commits) : commits'[i] = commits[i]
      /\ commits'[Len(commits) + 1] = F
      /\ \A n \in 0..Len(commits) : LoggedAt(n)' = LoggedAt(n)
      /\ Logged' = Logged \cup Range(F)
  BY <1>1, <1>2, LogGrows
<1>4. \A j \in 0..Len(F) : \A a \in Actors :
          /\ T(j) \in SUBSET Ops /\ Dense(Of(a, T(j)))
          /\ Cardinality(Of(a, T(j))) = LoggedOf(a) + (IF a = batch[1].actor THEN j ELSE 0)
  BY FreshFollows
<1>5. Range(F) = {F[k] : k \in 1..Len(F)}
  BY <1>1, RangeEquality
<1>6. LogIsDense'
  <2>1. SUFFICES ASSUME NEW n \in 0..(Len(commits) + 1), NEW a \in Actors
                 PROVE  Dense(Of(a, LoggedAt(n)'))
    BY <1>3 DEF LogIsDense, Dense, Of
  <2>2. CASE n \in 0..Len(commits)
    BY <2>2, <1>3 DEF LogIsDense
  <2>3. CASE n = Len(commits) + 1
    <3>1. LoggedAt(n)' = Logged'
      BY <2>3, <1>3 DEF Logged
    <3>2. LoggedAt(n)' = T(Len(F)) /\ Len(F) \in 0..Len(F)
      BY <3>1, <1>1, <1>3, <1>5
    <3>3. QED
      BY <3>2, <1>4
  <2>4. QED
    BY <2>2, <2>3, <1>2
<1>7. LogIsSound'
  <2>1. SUFFICES ASSUME NEW n \in 1..(Len(commits) + 1), NEW i \in 1..Len(commits'[n])
                 PROVE  Sound(commits'[n][i], Earlier(n, i)')
    BY <1>3, SoundIs
  <2>2. CASE n \in 1..Len(commits)
    <3>1. n - 1 \in 0..Len(commits) /\ commits'[n] = commits[n] /\ i \in 1..Len(commits[n])
      BY <2>2, <1>3
    <3>2. LoggedAt(n - 1)' = LoggedAt(n - 1)
      BY <3>1, <1>3
    <3>3. Earlier(n, i)' = Earlier(n, i)
      BY <3>1, <3>2 DEF Earlier
    <3>4. QED
      BY <3>1, <3>3, <2>2, SoundIs
  <2>3. CASE n = Len(commits) + 1
    <3>1. /\ i \in 1..Len(F) /\ commits'[n] = F /\ n - 1 = Len(commits)
          /\ i - 1 \in 0..Len(F)
      BY <2>3, <1>1, <1>2, <1>3
    <3>2. LoggedAt(n - 1)' = Logged
      BY <3>1, <1>2, <1>3 DEF Logged
    <3> DEFINE op == F[i]
               before == T(i - 1)
    <3>3. op = commits'[n][i] /\ before = Earlier(n, i)'
      BY <3>1, <3>2 DEF Earlier
    <3>4. op \in Ops /\ op.actor = batch[1].actor /\ op.actor \in Actors
      <4>1. \E h \in 1..Len(batch) : op = batch[h]
        BY <3>1, FreshIs
      <4>2. QED
        BY <4>1, OpIs DEF Run
    <3>5. /\ op.seq = LoggedOf(op.actor) + i
          /\ \A b \in Actors : op.seen[b] <= LoggedOf(b) + (IF op.actor = b THEN i - 1 ELSE 0)
      BY <3>1 DEF Valid, LoggedOf
    <3>6. \A a \in Actors :
              /\ before \in SUBSET Ops /\ Dense(Of(a, before))
              /\ Cardinality(Of(a, before))
                     = LoggedOf(a) + (IF a = op.actor THEN i - 1 ELSE 0)
      BY <3>1, <3>4, <1>4
    <3>7. \A a \in Actors : LoggedOf(a) \in Nat
      BY LoggedDense
    <3> HIDE DEF op, before
    <3>8. op.seq = Cardinality(Of(op.actor, before)) + 1
      <4>1. Cardinality(Of(op.actor, before)) = LoggedOf(op.actor) + (i - 1)
        BY <3>4, <3>6
      <4>2. op.seq = LoggedOf(op.actor) + i /\ LoggedOf(op.actor) \in Nat /\ i \in Nat
        BY <3>1, <3>4, <3>5, <3>7
      <4>3. QED
        BY <4>1, <4>2
    <3>9. ASSUME NEW a \in Actors PROVE op.seen[a] <= Highest(a, before)
      <4>1. Highest(a, before) = Cardinality(Of(a, before))
        BY <3>6, HighestOfDense
      <4>2. QED
        BY <4>1, <3>5, <3>6
    <3>10. QED
      BY <3>3, <3>8, <3>9 DEF Sound
  <2>4. QED
    BY <2>2, <2>3, <1>2
<1>8. QED
  BY <1>6, <1>7

\* A batch is committed: what every connection is sent.
LEMMA CommitDoes ==
  ASSUME TypeOK, NEW t \in Tabs, NEW current \in BOOLEAN, NEW batch \in Seq(Ops),
         Commit(t, current, batch)
  PROVE  /\ Fresh(batch) \in Seq(Ops) /\ Valid(batch)
         /\ commits' = Append(commits, Fresh(batch)) /\ faults' = faults
         /\ down' \in [Tabs -> Seq(Frames)]
         /\ \A u \in Tabs : conn[u] # "joined" => down'[u] = down[u]
         /\ \A u \in Tabs : conn[u] = "joined" =>
                /\ Len(down'[u]) = Len(down[u]) + (IF u = t /\ current THEN 2 ELSE 1)
                /\ \A i \in 1..Len(down[u]) : down'[u][i] = down[u][i]
                /\ down'[u][Len(down'[u])] = CommittedAs(Len(commits) + 1)
                /\ u = t /\ current => down'[u][Len(down[u]) + 1]
                       = AcceptedAs(Len(commits) + 1, Seqs(Range(Fresh(batch))))
<1> DEFINE F == Fresh(batch)
           n == Len(commits) + 1
           first == AcceptedAs(n, Seqs(Range(F)))
           last == CommittedAs(n)
           answer(u) == IF u = t /\ current THEN <<first>> ELSE <<>>
<1>1. F \in Seq(Ops) /\ Valid(batch) /\ commits' = Append(commits, F) /\ faults' = faults
  BY FreshIs DEF Commit
<1>2. commits \in Seq(Seq(Ops)) /\ Len(commits) \in Nat /\ \A u \in Tabs : down[u] \in Seq(Frames)
  BY Typed
<1>3. Len(commits') = n /\ n \in Nat
  BY <1>1, <1>2, AppendProperties
<1>4. first \in Frames /\ last \in Frames
  <2>1. Range(F) \in SUBSET Ops
    BY <1>1, RangeOfSeq
  <2>2. Seqs(Range(F)) \in SUBSET Nat
    BY <2>1 DEF Seqs, Ops
  <2>3. QED
    BY <2>2, <1>3, FrameMade
<1>5. Accepted(F) = first /\ Committed = last
  BY <1>3 DEF Accepted, Committed, AcceptedAs, CommittedAs, Seqs
<1>6. down' = [u \in Tabs |-> IF conn[u] = "joined"
                              THEN down[u] \o answer(u) \o <<last>> ELSE down[u]]
  BY <1>5 DEF Commit
<1> HIDE DEF F, n, first, last
<1>7. ASSUME NEW u \in Tabs
      PROVE  /\ down[u] \o answer(u) \o <<last>> \in Seq(Frames)
             /\ Len(down[u] \o answer(u) \o <<last>>)
                    = Len(down[u]) + (IF u = t /\ current THEN 2 ELSE 1)
             /\ \A i \in 1..Len(down[u]) :
                    (down[u] \o answer(u) \o <<last>>)[i] = down[u][i]
             /\ (down[u] \o answer(u) \o <<last>>)[Len(down[u] \o answer(u) \o <<last>>)] = last
             /\ u = t /\ current =>
                    (down[u] \o answer(u) \o <<last>>)[Len(down[u]) + 1] = first
  <2> DEFINE d == down[u]
             a == answer(u)
             l == <<last>>
  <2>1. d \in Seq(Frames) /\ a \in Seq(Frames) /\ l \in Seq(Frames)
        /\ Len(d) \in Nat /\ Len(l) = 1 /\ l[1] = last
        /\ Len(a) = (IF u = t /\ current THEN 1 ELSE 0)
        /\ (u = t /\ current => a[1] = first)
    BY <1>2, <1>4
  <2> HIDE DEF d, a, l
  <2>2. /\ d \o a \in Seq(Frames) /\ Len(d \o a) = Len(d) + Len(a)
        /\ \A i \in 1..(Len(d) + Len(a)) :
               (d \o a)[i] = IF i <= Len(d) THEN d[i] ELSE a[i - Len(d)]
    BY <2>1, ConcatProperties
  <2> DEFINE e == d \o a
  <2>3. e \in Seq(Frames) /\ Len(e) = Len(d) + Len(a)
    BY <2>2
  <2>4. \A i \in 1..Len(d) : e[i] = d[i]
    BY <2>1, <2>2
  <2>5. u = t /\ current => e[Len(d) + 1] = first
    BY <2>1, <2>2
  <2> HIDE DEF e
  <2>6. /\ e \o l \in Seq(Frames) /\ Len(e \o l) = Len(e) + Len(l)
        /\ \A i \in 1..(Len(e) + Len(l)) :
               (e \o l)[i] = IF i <= Len(e) THEN e[i] ELSE l[i - Len(e)]
    <3>1. e \in Seq(Frames) /\ l \in Seq(Frames)
      BY <2>1, <2>3
    <3>2. QED
      BY ONLY <3>1, ConcatProperties
  <2>7. Len(e \o l) = Len(d) + (IF u = t /\ current THEN 2 ELSE 1)
    BY <2>1, <2>3, <2>6
  <2>8. \A i \in 1..Len(d) : (e \o l)[i] = d[i]
    BY <2>1, <2>3, <2>4, <2>6
  <2>9. (e \o l)[Len(e \o l)] = last
    BY <2>1, <2>3, <2>6
  <2>10. u = t /\ current => (e \o l)[Len(d) + 1] = first
    BY <2>1, <2>3, <2>5, <2>6
  <2>11. QED
    BY <2>6, <2>7, <2>8, <2>9, <2>10 DEF d, a, l, e
<1>8. \A u \in Tabs : down'[u] = IF conn[u] = "joined"
                                 THEN down[u] \o answer(u) \o <<last>> ELSE down[u]
  BY <1>6
<1> HIDE DEF answer
<1>9. down' \in [Tabs -> Seq(Frames)]
  BY <1>2, <1>6, <1>7
<1>10. QED
  BY <1>1, <1>7, <1>8, <1>9 DEF F, n, first, last

\* One frame in answer, and only if the connection is the current one.
LEMMA ReplyDoes ==
  ASSUME TypeOK, NEW t \in Tabs, NEW current \in BOOLEAN, NEW f \in Frames,
         down' = IF current THEN [down EXCEPT ![t] = Append(@, f)] ELSE down
  PROVE  /\ down' \in [Tabs -> Seq(Frames)]
         /\ \A u \in Tabs : u # t \/ ~current => down'[u] = down[u]
         /\ current =>
                /\ Len(down'[t]) = Len(down[t]) + 1
                /\ \A i \in 1..Len(down[t]) : down'[t][i] = down[t][i]
                /\ down'[t][Len(down[t]) + 1] = f
<1>1. down \in [Tabs -> Seq(Frames)]
  BY DEF TypeOK
<1>2. CASE ~current
  BY <1>1, <1>2
<1>3. CASE current
  <2>1. /\ Append(down[t], f) \in Seq(Frames)
        /\ Len(Append(down[t], f)) = Len(down[t]) + 1
        /\ \A i \in 1..Len(down[t]) : Append(down[t], f)[i] = down[t][i]
        /\ Append(down[t], f)[Len(down[t]) + 1] = f
    BY <1>1, AppendProperties
  <2>2. down' = [down EXCEPT ![t] = Append(down[t], f)]
    BY <1>3
  <2>3. down'[t] = Append(down[t], f) /\ \A u \in Tabs \ {t} : down'[u] = down[u]
    BY <2>2, <1>1
  <2>4. QED
    BY <1>1, <1>3, <2>1, <2>2, <2>3
<1>4. QED
  BY <1>2, <1>3

\* The answers that commit nothing.
LEMMA AnswerDoes ==
  ASSUME TypeOK, NEW t \in Tabs, NEW current \in BOOLEAN, NEW batch \in Seq(Ops),
         \/ Replay(t, current, batch)
         \/ Refuse(t, current, batch)
         \/ StoreFailure(t, current, batch)
  PROVE  /\ commits' = commits
         /\ faults' \in [drops : 0..MaxDrops, store : 0..MaxStoreFailures]
         /\ \E f \in {AcceptedAs(Len(commits), {}), Rejected("conflict"), Rejected("storage")} :
                /\ f \in Frames
                /\ down' = IF current THEN [down EXCEPT ![t] = Append(@, f)] ELSE down
                /\ f.kind = "accepted" => Replay(t, current, batch) /\ faults' = faults
                /\ f = Rejected("conflict") => Refuse(t, current, batch) /\ faults' = faults
                /\ f = Rejected("storage") =>
                       faults'.store = faults.store + 1 /\ faults'.drops = faults.drops
<1>1. Len(commits) \in Nat /\ faults \in [drops : 0..MaxDrops, store : 0..MaxStoreFailures]
  BY DEF TypeOK
<1>2. /\ AcceptedAs(Len(commits), {}) \in Frames
      /\ AcceptedAs(Len(commits), {}).kind = "accepted"
      /\ \A code \in {"conflict", "storage"} :
             Rejected(code) \in Frames /\ Rejected(code).kind = "rejected"
      /\ Rejected("conflict") # Rejected("storage")
  <2>1. {} \in SUBSET Nat
    OBVIOUS
  <2>2. QED
    BY <2>1, <1>1, FrameMade
<1>3. CASE Replay(t, current, batch)
  <2>1. commits' = commits /\ faults' = faults
    BY <1>3 DEF Replay
  <2>2. Accepted(<<>>) = AcceptedAs(Len(commits), {})
    <3>1. Range(<<>>) = {}
      BY DEF Range
    <3>2. QED
      BY <2>1, <3>1 DEF Accepted, AcceptedAs
  <2>3. down' = IF current THEN [down EXCEPT ![t] = Append(@, AcceptedAs(Len(commits), {}))]
                ELSE down
    BY <1>3, <2>2 DEF Replay, Reply
  <2>4. AcceptedAs(Len(commits), {}) # Rejected("conflict")
        /\ AcceptedAs(Len(commits), {}) # Rejected("storage")
    BY <1>2
  <2>5. QED
    BY <2>1, <2>3, <2>4, <1>1, <1>2, <1>3
<1>4. CASE Refuse(t, current, batch)
  <2>1. commits' = commits /\ faults' = faults
        /\ down' = IF current THEN [down EXCEPT ![t] = Append(@, Rejected("conflict"))]
                   ELSE down
    BY <1>4 DEF Refuse, Reply
  <2>2. QED
    BY <2>1, <1>1, <1>2, <1>4
<1>5. CASE StoreFailure(t, current, batch)
  <2>1. commits' = commits /\ faults.store < MaxStoreFailures
        /\ faults' = [faults EXCEPT !.store = @ + 1]
        /\ down' = IF current THEN [down EXCEPT ![t] = Append(@, Rejected("storage"))]
                   ELSE down
    BY <1>5 DEF StoreFailure, Reply
  <2>2. faults'.store = faults.store + 1 /\ faults'.drops = faults.drops
    BY <2>1, <1>1
  <2>3. faults' \in [drops : 0..MaxDrops, store : 0..MaxStoreFailures]
    <3>1. faults.store + 1 \in 0..MaxStoreFailures
      BY <2>1, <1>1, CollabAssumption
    <3>2. QED
      BY <2>1, <3>1, <1>1
  <2>4. QED
    BY <2>1, <2>2, <2>3, <1>2
<1>6. QED
  BY <1>3, <1>4, <1>5

\* Serving a batch keeps what the invariant says of the log and the frames.
LEMMA ServeKeeps ==
  ASSUME IInv, NEW t \in Tabs, NEW current \in BOOLEAN, NEW batch \in Seq(Ops),
         Run(batch), Serve(t, current, batch)
  PROVE  /\ commits' \in Seq(Seq(Ops)) /\ Len(commits) <= Len(commits')
         /\ LogIsDense' /\ LogIsSound'
         /\ down' \in [Tabs -> Seq(Frames)]
         /\ \A u \in Tabs : \A i \in 1..Len(down'[u]) : FrameOK(down'[u][i], Len(commits'))
         /\ faults' \in [drops : 0..MaxDrops, store : 0..MaxStoreFailures]
<1>1. TypeOK /\ LogIsDense /\ LogIsSound
      /\ \A u \in Tabs : \A i \in 1..Len(down[u]) : FrameOK(down[u][i], Len(commits))
  BY DEF IInv, TabOK
<1>2. /\ commits \in Seq(Seq(Ops)) /\ Len(commits) \in Nat
      /\ faults \in [drops : 0..MaxDrops, store : 0..MaxStoreFailures]
      /\ \A u \in Tabs : down[u] \in Seq(Frames) /\ Len(down[u]) \in Nat
  BY <1>1, Typed DEF TypeOK
<1>3. CASE Commit(t, current, batch)
  <2>1. /\ Fresh(batch) \in Seq(Ops) /\ Valid(batch)
        /\ commits' = Append(commits, Fresh(batch)) /\ faults' = faults
        /\ down' \in [Tabs -> Seq(Frames)]
        /\ \A u \in Tabs : conn[u] # "joined" => down'[u] = down[u]
        /\ \A u \in Tabs : conn[u] = "joined" =>
               /\ Len(down'[u]) = Len(down[u]) + (IF u = t /\ current THEN 2 ELSE 1)
               /\ \A i \in 1..Len(down[u]) : down'[u][i] = down[u][i]
               /\ down'[u][Len(down'[u])] = CommittedAs(Len(commits) + 1)
               /\ u = t /\ current => down'[u][Len(down[u]) + 1]
                      = AcceptedAs(Len(commits) + 1, Seqs(Range(Fresh(batch))))
    BY <1>1, <1>3, CommitDoes
  <2>2. commits' \in Seq(Seq(Ops)) /\ Len(commits') = Len(commits) + 1
    BY <2>1, <1>2, AppendProperties
  <2>3. LogIsDense' /\ LogIsSound'
    BY <1>1, <2>1, CommitIsSound
  <2>4. FrameOK(CommittedAs(Len(commits) + 1), Len(commits'))
    BY <1>2, <2>2 DEF FrameOK, CommittedAs
  <2>5. FrameOK(AcceptedAs(Len(commits) + 1, Seqs(Range(Fresh(batch)))), Len(commits'))
    <3>1. Range(Fresh(batch)) \in SUBSET Ops
      BY <2>1, RangeOfSeq
    <3>2. IsFiniteSet(Range(Fresh(batch)))
      BY <2>1, RangeFinite
    <3>3. IsFiniteSet(Seqs(Range(Fresh(batch))))
      BY <3>1, <3>2, SeqsProps
    <3>4. QED
      BY <3>3, <1>2, <2>2 DEF FrameOK, AcceptedAs
  <2>6. ASSUME NEW u \in Tabs, NEW i \in 1..Len(down'[u])
        PROVE  FrameOK(down'[u][i], Len(commits'))
    <3>1. \A k \in 1..Len(down[u]) : FrameOK(down[u][k], Len(commits'))
      BY <1>1, <1>2, <2>2, FrameStays
    <3>2. CASE conn[u] # "joined"
      BY <2>1, <3>1, <3>2
    <3>3. CASE conn[u] = "joined"
      <4>1. i \in 1..Len(down[u]) \/ i = Len(down'[u])
            \/ (i = Len(down[u]) + 1 /\ u = t /\ current)
        <5> DEFINE m == Len(down[u])
                   k == Len(down'[u])
        <5>1. i \in 1..k /\ m \in Nat /\ k = m + (IF u = t /\ current THEN 2 ELSE 1)
          BY <2>1, <3>3, <1>2
        <5> HIDE DEF m, k
        <5>2. CASE u = t /\ current
          <6>1. k = m + 2
            BY <5>1, <5>2
          <6>2. i \in 1..m \/ i = k \/ i = m + 1
            BY <5>1, <6>1
          <6>3. QED
            BY <6>2, <5>2 DEF m, k
        <5>3. CASE ~(u = t /\ current)
          <6>1. k = m + 1
            BY <5>1, <5>3
          <6>2. i \in 1..m \/ i = k
            BY <5>1, <6>1
          <6>3. QED
            BY <6>2 DEF m, k
        <5>4. QED
          BY <5>2, <5>3
      <4>2. CASE i \in 1..Len(down[u])
        BY <4>2, <3>1, <3>3, <2>1
      <4>3. CASE i = Len(down'[u])
        BY <4>3, <2>1, <2>4, <3>3
      <4>4. CASE i = Len(down[u]) + 1 /\ u = t /\ current
        BY <4>4, <2>1, <2>5, <3>3
      <4>5. QED
        BY <4>1, <4>2, <4>3, <4>4
    <3>4. QED
      BY <3>2, <3>3
  <2>7. QED
    BY <1>2, <2>1, <2>2, <2>3, <2>6
<1>4. CASE ~Commit(t, current, batch)
  <2>1. \/ Replay(t, current, batch)
        \/ Refuse(t, current, batch)
        \/ StoreFailure(t, current, batch)
    BY <1>4 DEF Serve
  <2>2. /\ commits' = commits
        /\ faults' \in [drops : 0..MaxDrops, store : 0..MaxStoreFailures]
    BY <1>1, <2>1, AnswerDoes
  <2>3. PICK f \in {AcceptedAs(Len(commits), {}), Rejected("conflict"), Rejected("storage")} :
            /\ f \in Frames
            /\ down' = IF current THEN [down EXCEPT ![t] = Append(@, f)] ELSE down
    BY <1>1, <2>1, AnswerDoes
  <2>4. /\ down' \in [Tabs -> Seq(Frames)]
        /\ \A u \in Tabs : u # t \/ ~current => down'[u] = down[u]
        /\ current =>
               /\ Len(down'[t]) = Len(down[t]) + 1
               /\ \A i \in 1..Len(down[t]) : down'[t][i] = down[t][i]
               /\ down'[t][Len(down[t]) + 1] = f
    BY <1>1, <2>3, ReplyDoes
  <2>5. FrameOK(f, Len(commits))
    <3>1. IsFiniteSet({})
      BY FS_EmptySet
    <3>2. Len(commits) \in 0..Len(commits)
      BY <1>2
    <3>3. FrameOK(AcceptedAs(Len(commits), {}), Len(commits))
      BY <3>1, <3>2 DEF FrameOK, AcceptedAs
    <3>4. FrameOK(Rejected("conflict"), Len(commits)) /\ FrameOK(Rejected("storage"), Len(commits))
      BY DEF FrameOK, Rejected
    <3>5. QED
      BY <2>3, <3>3, <3>4
  <2>6. ASSUME NEW u \in Tabs, NEW i \in 1..Len(down'[u])
        PROVE  FrameOK(down'[u][i], Len(commits))
    <3>1. CASE u # t \/ ~current
      BY <3>1, <1>1, <2>4
    <3>2. CASE u = t /\ current
      <4>1. i \in 1..Len(down[t]) \/ i = Len(down[t]) + 1
        BY <3>2, <1>2, <2>4
      <4>2. CASE i \in 1..Len(down[t])
        BY <4>2, <3>2, <1>1, <2>4
      <4>3. CASE i = Len(down[t]) + 1
        BY <4>3, <3>2, <2>4, <2>5
      <4>4. QED
        BY <4>1, <4>2, <4>3
    <3>3. QED
      BY <3>1, <3>2
  <2>7. LogIsDense' /\ LogIsSound'
    BY <1>1, <2>2, SameLog
  <2>8. QED
    BY <1>2, <2>2, <2>4, <2>6, <2>7
<1>5. QED
  BY <1>3, <1>4

----------------------------------------------------------------------------
(***************************************************************************)
(* The client driver: what each action does to its tab                     *)
(***************************************************************************)

\* Nothing of another tab changes.
Alone(t) ==
    \A u \in Tabs \ {t} :
        /\ conn'[u] = conn[u] /\ up'[u] = up[u] /\ old'[u] = old[u]
        /\ down'[u] = down[u] /\ driver'[u] = driver[u] /\ authored'[u] = authored[u]

\* The parts of the invariant about a tab.
LEMMA OfTab ==
  ASSUME IInv, NEW t \in Tabs
  PROVE  /\ TypeOK /\ LogIsDense /\ LogIsSound
         /\ IsFiniteSet(driver[t].replica)
         /\ driver[t].commit_seq \in 0..Len(commits)
         /\ \A i \in 1..Len(down[t]) :
                down[t][i] \in Frames /\ FrameOK(down[t][i], Len(commits))
         /\ \A i \in 1..Len(up[t]) : up[t][i] \in Seq(Ops) /\ Run(up[t][i])
         /\ \A i \in 1..Len(old[t]) : old[t][i] \in Seq(Ops) /\ Run(old[t][i])
<1>1. TypeOK /\ LogIsDense /\ LogIsSound /\ TabOK(t)
  BY DEF IInv
<1>2. /\ down[t] \in Seq(Frames) /\ up[t] \in Seq(Seq(Ops)) /\ old[t] \in Seq(Seq(Ops))
      /\ driver[t].commit_seq \in Nat /\ Len(commits) \in Nat
  BY <1>1, Typed, DriverIs
<1>3. \A batch \in Range(up[t]) \cup Range(old[t]) : Run(batch)
  BY <1>1 DEF TabOK, Sent
<1>4. /\ Range(up[t]) = {up[t][i] : i \in 1..Len(up[t])}
      /\ Range(old[t]) = {old[t][i] : i \in 1..Len(old[t])}
  BY <1>2, RangeEquality
<1>5. \A i \in 1..Len(down[t]) : down[t][i] \in Frames
  BY <1>2
<1>6. \A i \in 1..Len(up[t]) : up[t][i] \in Seq(Ops)
  BY <1>2
<1>7. \A i \in 1..Len(old[t]) : old[t][i] \in Seq(Ops)
  BY <1>2
<1>8. \A i \in 1..Len(up[t]) : Run(up[t][i])
  BY <1>3, <1>4
<1>9. \A i \in 1..Len(old[t]) : Run(old[t][i])
  BY <1>3, <1>4
<1>10. driver[t].commit_seq \in 0..Len(commits)
  BY <1>1, <1>2 DEF TabOK
<1>11. IsFiniteSet(driver[t].replica) /\ \A i \in 1..Len(down[t]) : FrameOK(down[t][i], Len(commits))
  BY <1>1 DEF TabOK
<1>12. QED
  BY <1>1, <1>5, <1>6, <1>7, <1>8, <1>9, <1>10, <1>11

\* A driver that is replaced.
LEMMA DriverSet ==
  ASSUME TypeOK, NEW t \in Tabs, NEW d \in Drivers, driver' = [driver EXCEPT ![t] = d]
  PROVE  /\ driver' \in [Tabs -> Drivers] /\ driver'[t] = d
         /\ \A u \in Tabs \ {t} : driver'[u] = driver[u]
BY DEF TypeOK

\* Typing.
LEMMA AuthorDoes ==
  ASSUME IInv, NEW t \in Tabs, Author(t)
  PROVE  /\ TypeOK' /\ Alone(t) /\ driver[t].joined
         /\ UNCHANGED <<commits, wire, faults>>
         /\ \E op \in Ops :
                /\ op.actor = ActorOf[t]
                /\ op.seq = Highest(ActorOf[t], driver[t].replica) + 1
                /\ op.seen = Observing(driver[t].replica)
                /\ driver'[t] = [driver[t] EXCEPT !.replica = driver[t].replica \cup {op}]
                /\ authored'[t] = authored[t] \cup {op}
<1> DEFINE a == ActorOf[t]
           d == driver[t]
           op == [actor |-> a, seq |-> Highest(a, d.replica) + 1, by |-> t,
                  seen |-> Observing(d.replica)]
<1>1. TypeOK /\ a \in Actors /\ d \in Drivers /\ d.replica \in SUBSET Ops
      /\ IsFiniteSet(d.replica)
  BY OfTab, Typed, DriverIs
<1>2. \A b \in Actors : Highest(b, d.replica) \in Nat
  BY <1>1, OfProps, HighestProps
<1>3. Observing(d.replica) \in [Actors -> Nat]
  BY <1>2 DEF Observing
<1>4. op \in Ops
  <2>1. Highest(a, d.replica) + 1 \in Nat \ {0}
    BY <1>1, <1>2
  <2>2. QED
    BY <1>1, <1>3, <2>1 DEF Ops
<1>5. /\ d.joined
      /\ driver' = [driver EXCEPT ![t].replica = @ \cup {op}]
      /\ authored' = [authored EXCEPT ![t] = @ \cup {op}]
      /\ UNCHANGED <<commits, wire, faults>>
  BY DEF Author
<1>6. op.actor = a /\ op.seq = Highest(a, d.replica) + 1 /\ op.seen = Observing(d.replica)
  OBVIOUS
<1> HIDE DEF op
<1> DEFINE e == [d EXCEPT !.replica = d.replica \cup {op}]
<1>7. driver' = [driver EXCEPT ![t] = e]
  BY <1>5
<1>8. e \in Drivers
  <2>1. d.replica \cup {op} \in SUBSET Ops
    BY <1>1, <1>4
  <2>2. QED
    BY <1>1, <2>1 DEF Drivers
<1> HIDE DEF e
<1>9. driver' \in [Tabs -> Drivers] /\ driver'[t] = e
      /\ \A u \in Tabs \ {t} : driver'[u] = driver[u]
  BY <1>1, <1>7, <1>8, DriverSet
<1>10. authored' \in [Tabs -> SUBSET Ops] /\ authored'[t] = authored[t] \cup {op}
       /\ \A u \in Tabs \ {t} : authored'[u] = authored[u]
  BY <1>1, <1>4, <1>5 DEF TypeOK
<1>11. TypeOK'
  BY <1>1, <1>5, <1>9, <1>10 DEF TypeOK, wire
<1>12. Alone(t)
  BY <1>5, <1>9, <1>10 DEF Alone, wire
<1>13. QED
  BY <1>4, <1>5, <1>6, <1>9, <1>10, <1>11, <1>12 DEF e

\* Opening a socket.
LEMMA BeginDoes ==
  ASSUME IInv, NEW t \in Tabs, Begin(t)
  PROVE  /\ TypeOK' /\ Alone(t)
         /\ UNCHANGED <<commits, up, old, down, authored, faults>>
         /\ conn[t] = "none" /\ conn'[t] = "opening"
         /\ driver'[t].phase \notin {"live", "closed"}
         /\ driver'[t].submitted_through = driver[t].acknowledged_seq
         /\ driver'[t].joined = driver[t].joined
         /\ driver'[t].replica = driver[t].replica
         /\ driver'[t].acknowledged_seq = driver[t].acknowledged_seq
         /\ driver'[t].blocked = driver[t].blocked
         /\ driver'[t].refusals = driver[t].refusals
         /\ driver'[t].commit_seq = driver[t].commit_seq
<1> DEFINE d == driver[t]
           e == [d EXCEPT !.phase = IF d.joined THEN "reconnecting" ELSE "connecting",
                          !.submitted_through = d.acknowledged_seq,
                          !.awaiting = FALSE, !.reconnect = FALSE]
<1>1. TypeOK /\ d \in Drivers
  BY OfTab, Typed
<1>2. driver' = [driver EXCEPT ![t] = e]
  BY DEF Begin
<1>3. /\ e \in Drivers
      /\ e.phase \notin {"live", "closed"} /\ e.submitted_through = d.acknowledged_seq
      /\ e.joined = d.joined /\ e.replica = d.replica
      /\ e.acknowledged_seq = d.acknowledged_seq /\ e.blocked = d.blocked
      /\ e.refusals = d.refusals /\ e.commit_seq = d.commit_seq
  BY <1>1 DEF Drivers
<1> HIDE DEF e
<1>4. driver' \in [Tabs -> Drivers] /\ driver'[t] = e
      /\ \A u \in Tabs \ {t} : driver'[u] = driver[u]
  BY <1>1, <1>2, <1>3, DriverSet
<1>5. /\ conn[t] = "none" /\ conn' = [conn EXCEPT ![t] = "opening"]
      /\ UNCHANGED <<commits, up, old, down, authored, faults>>
  BY DEF Begin
<1>6. conn' \in [Tabs -> {"none", "opening", "joined", "dead"}] /\ conn'[t] = "opening"
      /\ \A u \in Tabs \ {t} : conn'[u] = conn[u]
  BY <1>1, <1>5 DEF TypeOK
<1>7. TypeOK'
  BY <1>1, <1>4, <1>5, <1>6 DEF TypeOK
<1>8. Alone(t)
  BY <1>4, <1>5, <1>6 DEF Alone
<1>9. QED
  BY <1>3, <1>4, <1>5, <1>6, <1>7, <1>8

\* The service registers a connection.
LEMMA JoinDoes ==
  ASSUME IInv, NEW t \in Tabs, Join(t)
  PROVE  /\ TypeOK' /\ Alone(t)
         /\ UNCHANGED <<commits, up, old, driver, authored, faults>>
         /\ conn[t] = "opening" /\ conn'[t] = "joined"
         /\ down'[t] = <<WelcomeAs(Len(commits))>>
<1>1. TypeOK /\ Len(commits) \in Nat
  BY OfTab, Typed
<1>2. WelcomeAs(Len(commits)) \in Frames
  <2>1. {} \in SUBSET Nat
    OBVIOUS
  <2>2. QED
    BY <2>1, <1>1, FrameMade
<1>3. /\ conn[t] = "opening" /\ conn' = [conn EXCEPT ![t] = "joined"]
      /\ down' = [down EXCEPT ![t] = <<WelcomeAs(Len(commits))>>]
      /\ UNCHANGED <<commits, up, old, driver, authored, faults>>
  BY DEF Join, WelcomeAs
<1>4. conn' \in [Tabs -> {"none", "opening", "joined", "dead"}] /\ conn'[t] = "joined"
      /\ \A u \in Tabs \ {t} : conn'[u] = conn[u]
  BY <1>1, <1>3 DEF TypeOK
<1>5. down' \in [Tabs -> Seq(Frames)] /\ down'[t] = <<WelcomeAs(Len(commits))>>
      /\ \A u \in Tabs \ {t} : down'[u] = down[u]
  <2>1. <<WelcomeAs(Len(commits))>> \in Seq(Frames)
    BY <1>2
  <2>2. QED
    BY <2>1, <1>1, <1>3 DEF TypeOK
<1>6. TypeOK'
  BY <1>1, <1>3, <1>4, <1>5 DEF TypeOK
<1>7. Alone(t)
  BY <1>3, <1>4, <1>5 DEF Alone
<1>8. QED
  BY <1>3, <1>4, <1>5, <1>6, <1>7

\* The client lets go of a socket.
LEMMA CloseDoes ==
  ASSUME IInv, NEW t \in Tabs, Close(t)
  PROVE  /\ Alone(t) /\ UNCHANGED <<commits, authored>>
         /\ conn' \in [Tabs -> {"none", "opening", "joined", "dead"}]
         /\ {up, old}' \subseteq [Tabs -> Seq(Seq(Ops))]
         /\ down' \in [Tabs -> Seq(Frames)]
         /\ driver' \in [Tabs -> Drivers]
         /\ conn'[t] = "none" /\ up'[t] = <<>> /\ down'[t] = <<>> /\ old'[t] = up[t]
         /\ driver'[t].phase # "live"
         /\ driver'[t].phase = "closed" => driver[t].phase = "closed"
         /\ driver'[t].submitted_through = driver[t].acknowledged_seq
         /\ driver'[t].joined = driver[t].joined
         /\ driver'[t].replica = driver[t].replica
         /\ driver'[t].acknowledged_seq = driver[t].acknowledged_seq
         /\ driver'[t].blocked = driver[t].blocked
         /\ driver'[t].refusals = driver[t].refusals
         /\ driver'[t].commit_seq = driver[t].commit_seq
<1> DEFINE d == driver[t]
           e == [d EXCEPT !.submitted_through = d.acknowledged_seq,
                          !.awaiting = FALSE, !.reconnect = FALSE,
                          !.phase = IF d.phase = "closed" THEN d.phase ELSE "reconnecting"]
<1>1. TypeOK /\ d \in Drivers /\ up[t] \in Seq(Seq(Ops))
  BY OfTab, Typed
<1>2. driver' = [driver EXCEPT ![t] = e]
  BY DEF Close
<1>3. /\ e \in Drivers
      /\ e.phase # "live" /\ (e.phase = "closed" => d.phase = "closed")
      /\ e.submitted_through = d.acknowledged_seq
      /\ e.joined = d.joined /\ e.replica = d.replica
      /\ e.acknowledged_seq = d.acknowledged_seq /\ e.blocked = d.blocked
      /\ e.refusals = d.refusals /\ e.commit_seq = d.commit_seq
  BY <1>1 DEF Drivers
<1> HIDE DEF e
<1>4. driver' \in [Tabs -> Drivers] /\ driver'[t] = e
      /\ \A u \in Tabs \ {t} : driver'[u] = driver[u]
  BY <1>1, <1>2, <1>3, DriverSet
<1>5. /\ conn' = [conn EXCEPT ![t] = "none"] /\ old' = [old EXCEPT ![t] = up[t]]
      /\ up' = [up EXCEPT ![t] = <<>>] /\ down' = [down EXCEPT ![t] = <<>>]
      /\ UNCHANGED <<commits, authored>>
  BY DEF Close
<1>6. conn' \in [Tabs -> {"none", "opening", "joined", "dead"}] /\ conn'[t] = "none"
      /\ \A u \in Tabs \ {t} : conn'[u] = conn[u]
  BY <1>1, <1>5 DEF TypeOK
<1>7. /\ up' \in [Tabs -> Seq(Seq(Ops))] /\ old' \in [Tabs -> Seq(Seq(Ops))]
      /\ down' \in [Tabs -> Seq(Frames)]
      /\ up'[t] = <<>> /\ down'[t] = <<>> /\ old'[t] = up[t]
      /\ \A u \in Tabs \ {t} : up'[u] = up[u] /\ old'[u] = old[u] /\ down'[u] = down[u]
  <2>1. up \in [Tabs -> Seq(Seq(Ops))] /\ old \in [Tabs -> Seq(Seq(Ops))]
        /\ down \in [Tabs -> Seq(Frames)]
    BY <1>1 DEF TypeOK
  <2>2. <<>> \in Seq(Seq(Ops)) /\ <<>> \in Seq(Frames)
    OBVIOUS
  <2>3. QED
    BY <2>1, <2>2, <1>1, <1>5
<1>8. Alone(t)
  BY <1>4, <1>5, <1>6, <1>7 DEF Alone
<1>9. QED
  BY <1>3, <1>4, <1>5, <1>6, <1>7, <1>8

\* A welcome: the driver adopts the log and puts its unsent tail back.
LEMMA WelcomeDoes ==
  ASSUME IInv, NEW t \in Tabs, NEW n \in 0..Len(commits), Welcome(t, n)
  PROVE  LET acked == Highest(ActorOf[t], LoggedAt(n))
         IN  /\ driver' \in [Tabs -> Drivers]
             /\ \A u \in Tabs \ {t} : driver'[u] = driver[u]
             /\ IsFiniteSet(driver'[t].replica)
             /\ driver'[t].replica = LoggedAt(n) \cup
                    {op \in Of(ActorOf[t], driver[t].replica) :
                         driver[t].joined /\ op.seq > acked}
             /\ driver'[t].phase = "live" /\ driver'[t].joined
             /\ driver'[t].acknowledged_seq = acked
             /\ driver'[t].submitted_through = acked
             /\ driver'[t].blocked = "no"
             /\ driver'[t].refusals = driver[t].refusals
             /\ driver'[t].commit_seq = n
<1> DEFINE a == ActorOf[t]
           d == driver[t]
           L == LoggedAt(n)
           acked == Highest(a, L)
           tail == {op \in Of(a, d.replica) : d.joined /\ op.seq > acked}
           R == L \cup tail
           e == [d EXCEPT !.phase = "live", !.joined = TRUE, !.replica = R,
                          !.acknowledged_seq = acked, !.submitted_through = acked,
                          !.awaiting = FALSE, !.blocked = "no",
                          !.reconnect = FALSE, !.commit_seq = n]
<1>1. /\ TypeOK /\ a \in Actors /\ d \in Drivers /\ d.replica \in SUBSET Ops
      /\ IsFiniteSet(d.replica) /\ commits \in Seq(Seq(Ops)) /\ n \in Nat
  BY OfTab, Typed, DriverIs
<1>2. L \in SUBSET Ops /\ IsFiniteSet(L)
  BY <1>1, LoggedIs, LoggedFinite
<1>3. acked \in Nat
  BY <1>2, OfProps, HighestProps
<1>4. tail \in SUBSET d.replica /\ IsFiniteSet(tail)
  <2>1. tail \in SUBSET d.replica
    BY OfProps
  <2>2. QED
    BY <2>1, <1>1, FS_Subset
<1>5. R \in SUBSET Ops /\ IsFiniteSet(R)
  BY <1>1, <1>2, <1>4, FS_Union
<1>6. {op \in (IF d.joined THEN LocalAfter(t, 0) ELSE {}) : op.seq > acked} = tail
  <2>1. \A op \in Of(a, d.replica) : op.seq > 0
    BY <1>1, OfProps, OpIs
  <2>2. LocalAfter(t, 0) = Of(a, d.replica)
    BY <2>1 DEF LocalAfter
  <2>3. QED
    BY <2>2
<1>7. driver' = [driver EXCEPT ![t] = e]
  BY <1>6 DEF Welcome
<1> HIDE DEF acked, R, L, tail
<1>8. /\ e \in Drivers /\ e.phase = "live" /\ e.joined /\ e.replica = R
      /\ e.acknowledged_seq = acked /\ e.submitted_through = acked
      /\ e.blocked = "no" /\ e.refusals = d.refusals /\ e.commit_seq = n
  BY <1>1, <1>3, <1>5 DEF Drivers
<1> HIDE DEF e
<1>9. driver' \in [Tabs -> Drivers] /\ driver'[t] = e
      /\ \A u \in Tabs \ {t} : driver'[u] = driver[u]
  BY <1>1, <1>7, <1>8, DriverSet
<1>10. QED
  BY <1>5, <1>8, <1>9 DEF R, acked, L, tail

\* An acknowledgement.
LEMMA AcknowledgeDoes ==
  ASSUME IInv, NEW t \in Tabs, NEW f \in Frames, f.kind = "accepted",
         FrameOK(f, Len(commits)), Acknowledge(t, f)
  PROVE  /\ driver' \in [Tabs -> Drivers]
         /\ \A u \in Tabs \ {t} : driver'[u] = driver[u]
         /\ driver'[t].phase = driver[t].phase /\ driver'[t].joined = driver[t].joined
         /\ driver'[t].replica = driver[t].replica
         /\ \/ driver'[t].acknowledged_seq = driver[t].acknowledged_seq
            \/ driver'[t].acknowledged_seq \in f.ids
         /\ driver'[t].submitted_through = driver[t].submitted_through
         /\ driver'[t].blocked = driver[t].blocked
         /\ driver'[t].refusals = 0
         /\ driver'[t].commit_seq \in {driver[t].commit_seq, f.commit}
<1> DEFINE d == driver[t]
           acked == Max({d.acknowledged_seq} \cup f.ids)
           seen == Max({d.commit_seq, f.commit})
           e == [d EXCEPT !.acknowledged_seq = acked,
                          !.awaiting = d.awaiting /\ acked < d.submitted_through,
                          !.refusals = 0, !.commit_seq = seen]
<1>1. /\ TypeOK /\ d \in Drivers /\ d.acknowledged_seq \in Nat /\ d.commit_seq \in Nat
      /\ f.commit \in Nat /\ f.ids \in SUBSET Nat /\ IsFiniteSet(f.ids)
      /\ d.awaiting \in BOOLEAN
  BY OfTab, Typed, DriverIs, FrameIs DEF FrameOK
<1>2. acked \in {d.acknowledged_seq} \cup f.ids /\ acked \in Nat
  <2>1. IsFiniteSet(f.ids \cup {d.acknowledged_seq})
    BY <1>1, FS_AddElement
  <2>2. {d.acknowledged_seq} \cup f.ids = f.ids \cup {d.acknowledged_seq}
    OBVIOUS
  <2>3. QED
    BY <2>1, <2>2, <1>1, MaxProps
<1>3. seen \in Nat /\ (seen = d.commit_seq \/ seen = f.commit)
  BY <1>1, MaxOfTwo
<1>4. driver' = [driver EXCEPT ![t] = e]
  BY DEF Acknowledge
<1> HIDE DEF acked, seen
<1>5. /\ e \in Drivers /\ e.phase = d.phase /\ e.joined = d.joined
      /\ e.replica = d.replica /\ e.acknowledged_seq = acked
      /\ e.submitted_through = d.submitted_through /\ e.blocked = d.blocked
      /\ e.refusals = 0 /\ e.commit_seq = seen
  <2> DEFINE w == d.awaiting /\ acked < d.submitted_through
  <2>1. w \in BOOLEAN
    OBVIOUS
  <2> HIDE DEF w
  <2>2. QED
    BY <2>1, <1>1, <1>2, <1>3 DEF Drivers
<1> HIDE DEF e
<1>6. driver' \in [Tabs -> Drivers] /\ driver'[t] = e
      /\ \A u \in Tabs \ {t} : driver'[u] = driver[u]
  BY <1>1, <1>4, <1>5, DriverSet
<1>7. QED
  BY <1>2, <1>3, <1>5, <1>6

\* A refusal.
LEMMA RefusedDoes ==
  ASSUME IInv, NEW t \in Tabs, Refused(t)
  PROVE  /\ driver' \in [Tabs -> Drivers]
         /\ \A u \in Tabs \ {t} : driver'[u] = driver[u]
         /\ driver'[t].joined = driver[t].joined
         /\ driver'[t].replica = driver[t].replica
         /\ driver'[t].acknowledged_seq = driver[t].acknowledged_seq
         /\ driver'[t].submitted_through = driver[t].submitted_through
         /\ driver'[t].commit_seq = driver[t].commit_seq
         /\ driver'[t].blocked = "refused"
         /\ driver'[t].refusals = IF driver[t].blocked = "no" THEN driver[t].refusals + 1
                                                              ELSE driver[t].refusals
         /\ \/ driver'[t].phase = driver[t].phase
            \/ driver'[t].phase = "closed" /\ driver'[t].refusals >= MaxRefusalRecoveries
<1> DEFINE d == driver[t]
           n == IF d.blocked = "no" THEN d.refusals + 1 ELSE d.refusals
           over == n >= MaxRefusalRecoveries
           w == d.reconnect \/ ~over
           e == [d EXCEPT !.refusals = n, !.blocked = "refused",
                          !.phase = IF over THEN "closed" ELSE d.phase,
                          !.reconnect = w]
<1>1. TypeOK /\ d \in Drivers /\ d.refusals \in Nat
  BY OfTab, Typed, DriverIs
<1>2. n \in Nat /\ w \in BOOLEAN
  BY <1>1, DriverIs
<1>3. driver' = [driver EXCEPT ![t] = e]
  BY DEF Refused
<1> HIDE DEF n, w
<1>4. /\ e \in Drivers /\ e.joined = d.joined /\ e.replica = d.replica
      /\ e.acknowledged_seq = d.acknowledged_seq
      /\ e.submitted_through = d.submitted_through /\ e.commit_seq = d.commit_seq
      /\ e.blocked = "refused" /\ e.refusals = n
      /\ e.phase = (IF over THEN "closed" ELSE d.phase)
  BY <1>1, <1>2 DEF Drivers
<1> HIDE DEF e
<1>5. driver' \in [Tabs -> Drivers] /\ driver'[t] = e
      /\ \A u \in Tabs \ {t} : driver'[u] = driver[u]
  BY <1>1, <1>3, <1>4, DriverSet
<1>6. QED
  BY <1>4, <1>5 DEF n

\* A commit is folded in, unless it cannot be.
LEMMA ApplyDoes ==
  ASSUME IInv, NEW t \in Tabs, NEW n \in 1..Len(commits), Apply(t, n)
  PROVE  /\ driver' \in [Tabs -> Drivers]
         /\ \A u \in Tabs \ {t} : driver'[u] = driver[u]
         /\ IsFiniteSet(driver'[t].replica)
         /\ driver'[t].phase = driver[t].phase /\ driver'[t].joined = driver[t].joined
         /\ driver'[t].acknowledged_seq = driver[t].acknowledged_seq
         /\ driver'[t].submitted_through = driver[t].submitted_through
         /\ driver'[t].refusals = driver[t].refusals
         /\ \/ /\ \E op \in Range(commits[n]), held \in driver[t].replica :
                      SameId(op, held) /\ op # held
               /\ driver'[t].replica = driver[t].replica
               /\ driver'[t].commit_seq = driver[t].commit_seq
               /\ driver'[t].blocked = "not-applied"
            \/ /\ driver'[t].replica = driver[t].replica \cup Range(commits[n])
               /\ driver'[t].commit_seq \in {driver[t].commit_seq, n}
               /\ driver'[t].blocked = driver[t].blocked
<1> DEFINE d == driver[t]
           ops == Range(commits[n])
           clash == \E op \in ops, held \in d.replica : SameId(op, held) /\ op # held
           R == d.replica \cup ops
           seen == Max({d.commit_seq, n})
           e1 == [d EXCEPT !.blocked = "not-applied", !.reconnect = TRUE]
           e2 == [d EXCEPT !.replica = R, !.commit_seq = seen]
<1>1. /\ TypeOK /\ d \in Drivers /\ d.replica \in SUBSET Ops /\ IsFiniteSet(d.replica)
      /\ d.commit_seq \in Nat /\ commits \in Seq(Seq(Ops)) /\ n \in Nat
  BY OfTab, Typed, DriverIs
<1>2. ops \in SUBSET Ops /\ IsFiniteSet(ops)
  <2>1. commits[n] \in Seq(Ops)
    BY <1>1
  <2>2. QED
    BY <2>1, RangeOfSeq, RangeFinite
<1>3. R \in SUBSET Ops /\ IsFiniteSet(R)
  BY <1>1, <1>2, FS_Union
<1>4. seen \in Nat /\ (seen = d.commit_seq \/ seen = n)
  BY <1>1, MaxOfTwo
<1>5. driver' = [driver EXCEPT ![t] = IF clash THEN e1 ELSE e2]
  BY DEF Apply
<1> HIDE DEF clash, R, seen
<1>6. /\ e1 \in Drivers /\ e1.phase = d.phase /\ e1.joined = d.joined
      /\ e1.acknowledged_seq = d.acknowledged_seq
      /\ e1.submitted_through = d.submitted_through /\ e1.refusals = d.refusals
      /\ e1.replica = d.replica /\ e1.commit_seq = d.commit_seq
      /\ e1.blocked = "not-applied"
  BY <1>1 DEF Drivers
<1>7. /\ e2 \in Drivers /\ e2.phase = d.phase /\ e2.joined = d.joined
      /\ e2.acknowledged_seq = d.acknowledged_seq
      /\ e2.submitted_through = d.submitted_through /\ e2.refusals = d.refusals
      /\ e2.replica = R /\ e2.commit_seq = seen /\ e2.blocked = d.blocked
  BY <1>1, <1>3, <1>4 DEF Drivers
<1> HIDE DEF e1, e2
<1>8. CASE clash
  <2>1. driver' \in [Tabs -> Drivers] /\ driver'[t] = e1
        /\ \A u \in Tabs \ {t} : driver'[u] = driver[u]
    BY <1>1, <1>5, <1>6, <1>8, DriverSet
  <2>2. QED
    BY <2>1, <1>1, <1>6, <1>8 DEF clash
<1>9. CASE ~clash
  <2>1. driver' \in [Tabs -> Drivers] /\ driver'[t] = e2
        /\ \A u \in Tabs \ {t} : driver'[u] = driver[u]
    BY <1>1, <1>5, <1>7, <1>9, DriverSet
  <2>2. QED
    BY <2>1, <1>3, <1>4, <1>7 DEF R
<1>10. QED
  BY <1>8, <1>9

\* A frame is taken off the socket, whatever it says.
LEMMA IngestDoes ==
  ASSUME IInv, NEW t \in Tabs, Ingest(t)
  PROVE  /\ conn[t] \in {"joined", "dead"}
         /\ UNCHANGED <<commits, conn, up, old, authored, faults>>
         /\ Len(down[t]) \in Nat \ {0}
         /\ down[t][1] \in Frames /\ FrameOK(down[t][1], Len(commits))
         /\ down' \in [Tabs -> Seq(Frames)]
         /\ \A u \in Tabs \ {t} : down'[u] = down[u]
         /\ Len(down'[t]) = Len(down[t]) - 1
         /\ \A i \in 1..Len(down'[t]) : down'[t][i] = down[t][i + 1]
         /\ \/ down[t][1].kind = "welcome"   /\ Welcome(t, down[t][1].commit)
            \/ down[t][1].kind = "accepted"  /\ Acknowledge(t, down[t][1])
            \/ down[t][1].kind = "rejected"  /\ Refused(t)
            \/ down[t][1].kind = "committed" /\ Apply(t, down[t][1].commit)
<1>1. TypeOK /\ down[t] \in Seq(Frames)
  BY OfTab, Typed
<1>2. /\ down[t] # <<>> /\ down' = [down EXCEPT ![t] = Tail(down[t])]
      /\ conn[t] \in {"joined", "dead"}
      /\ UNCHANGED <<commits, conn, up, old, authored, faults>>
  BY DEF Ingest
<1>3. Len(down[t]) \in Nat \ {0} /\ Head(down[t]) = down[t][1] /\ 1 \in 1..Len(down[t])
  BY <1>1, <1>2
<1>4. down[t][1] \in Frames /\ FrameOK(down[t][1], Len(commits))
  BY <1>3, OfTab
<1>5. /\ Tail(down[t]) \in Seq(Frames) /\ Len(Tail(down[t])) = Len(down[t]) - 1
      /\ \A i \in 1..Len(Tail(down[t])) : Tail(down[t])[i] = down[t][i + 1]
  BY <1>1, <1>2, HeadTailProperties
<1>6. /\ down' \in [Tabs -> Seq(Frames)] /\ down'[t] = Tail(down[t])
      /\ \A u \in Tabs \ {t} : down'[u] = down[u]
  <2>1. down \in [Tabs -> Seq(Frames)]
    BY <1>1 DEF TypeOK
  <2>2. QED
    BY <2>1, <1>2, <1>5
<1>7. \/ down[t][1].kind = "welcome"   /\ Welcome(t, down[t][1].commit)
      \/ down[t][1].kind = "accepted"  /\ Acknowledge(t, down[t][1])
      \/ down[t][1].kind = "rejected"  /\ Refused(t)
      \/ down[t][1].kind = "committed" /\ Apply(t, down[t][1].commit)
  BY <1>3 DEF Ingest
<1>8. QED
  BY <1>2, <1>3, <1>4, <1>5, <1>6, <1>7

\* What a tick may send: runs of the tab's operations past a number, one
\* after another.
LEMMA TickFrames ==
  ASSUME IInv, NEW t \in Tabs, NEW from \in Nat, DenseAfter(t, from)
  PROVE  LET frames == Chunks(LocalAfter(t, from))
         IN  /\ LocalAfter(t, from) \in SUBSET Ops /\ IsFiniteSet(LocalAfter(t, from))
             /\ frames \in Seq(Seq(Ops))
             /\ \A i \in 1..Len(frames) :
                    /\ frames[i] \in Seq(Ops) /\ Run(frames[i])
                    /\ Range(frames[i]) \subseteq LocalAfter(t, from)
                    /\ i = 1 => frames[i][1].seq = from + 1
                    /\ i > 1 => \E op \in Range(frames[i - 1]) :
                                    op.seq + 1 = frames[i][1].seq
<1> DEFINE ops == LocalAfter(t, from)
           frames == Chunks(ops)
<1>1. ops \in SUBSET Ops /\ IsFiniteSet(ops) /\ \A op \in ops : op.actor = ActorOf[t]
  <2>1. driver[t].replica \in SUBSET Ops /\ IsFiniteSet(driver[t].replica)
    BY OfTab, Typed, DriverIs
  <2>2. ops \in SUBSET driver[t].replica /\ \A op \in ops : op.actor = ActorOf[t]
    BY DEF LocalAfter, Of
  <2>3. QED
    BY <2>1, <2>2, FS_Subset
<1>2. Seqs(ops) = from + 1 .. from + Cardinality(ops)
  BY DEF DenseAfter, Seqs
<1> HIDE DEF ops
<1>3. /\ frames \in Seq(Seq(Ops))
      /\ \A i \in 1..Len(frames) :
             /\ frames[i] # <<>>
             /\ \A k \in 1..Len(frames[i]) :
                    /\ frames[i][k] \in ops
                    /\ frames[i][k].seq = frames[i][1].seq + k - 1
             /\ i = 1 => frames[i][1].seq = from + 1
             /\ i > 1 => \E op \in Range(frames[i - 1]) : op.seq + 1 = frames[i][1].seq
  BY <1>1, <1>2, ChunksProps
<1> HIDE DEF frames
<1>4. ASSUME NEW i \in 1..Len(frames)
      PROVE  frames[i] \in Seq(Ops) /\ Run(frames[i]) /\ Range(frames[i]) \subseteq ops
  <2>1. frames[i] \in Seq(Ops)
    BY <1>3
  <2>2. frames[i] # <<>> /\ 1 \in 1..Len(frames[i])
    BY <1>3, <2>1
  <2>3. \A k \in 1..Len(frames[i]) : frames[i][k].actor = frames[i][1].actor
    <3>1. \A k \in 1..Len(frames[i]) : frames[i][k] \in ops
      BY <1>3
    <3>2. QED
      BY <1>1, <2>2, <3>1
  <2>4. Run(frames[i])
    BY <1>3, <2>2, <2>3 DEF Run
  <2>5. Range(frames[i]) \subseteq ops
    BY <1>3, <2>1, RangeEquality
  <2>6. QED
    BY <2>1, <2>4, <2>5
<1>5. QED
  BY <1>1, <1>3, <1>4 DEF frames, ops

\* A tick of the outbox: a cross-check fires, or frames are sent from one of
\* the two watermarks on.
LEMMA OutboxDoes ==
  ASSUME IInv, NEW t \in Tabs, NEW expired \in BOOLEAN, Outbox(t, expired)
  PROVE  /\ TypeOK' /\ Alone(t)
         /\ UNCHANGED <<commits, conn, old, down, authored, faults>>
         /\ driver[t].phase = "live" /\ conn[t] \in {"joined", "dead"}
         /\ driver'[t].phase = driver[t].phase /\ driver'[t].joined = driver[t].joined
         /\ driver'[t].replica = driver[t].replica
         /\ driver'[t].acknowledged_seq = driver[t].acknowledged_seq
         /\ driver'[t].refusals = driver[t].refusals
         /\ driver'[t].commit_seq = driver[t].commit_seq
         /\ \E from \in {driver[t].submitted_through, driver[t].acknowledged_seq} :
             \/ /\ CrossCheck(t, driver[t], from) # "no"
                /\ driver'[t].blocked = CrossCheck(t, driver[t], from)
                /\ driver'[t].submitted_through \in
                       {driver[t].submitted_through, driver[t].acknowledged_seq}
                /\ up'[t] = up[t]
             \/ /\ CrossCheck(t, driver[t], from) = "no"
                /\ driver'[t].blocked = driver[t].blocked
                /\ up'[t] = IF conn[t] = "joined"
                            THEN up[t] \o Chunks(LocalAfter(t, from)) ELSE up[t]
                /\ \/ driver'[t].submitted_through \in
                          {driver[t].submitted_through, driver[t].acknowledged_seq}
                   \/ \E i \in 1..Len(Chunks(LocalAfter(t, from))) :
                      \E op \in Range(Chunks(LocalAfter(t, from))[i]) :
                          op.seq = driver'[t].submitted_through
<1> DEFINE c == driver[t]
           d == IF expired THEN Expire(c) ELSE c
           from == Max({d.submitted_through, d.acknowledged_seq})
           check == CrossCheck(t, d, from)
<1>1. /\ TypeOK /\ c \in Drivers /\ c.submitted_through \in Nat
      /\ c.acknowledged_seq \in Nat /\ up[t] \in Seq(Seq(Ops))
  BY OfTab, Typed, DriverIs
<1>2. /\ d \in Drivers /\ d.phase = c.phase /\ d.joined = c.joined
      /\ d.replica = c.replica /\ d.acknowledged_seq = c.acknowledged_seq
      /\ d.blocked = c.blocked /\ d.refusals = c.refusals
      /\ d.commit_seq = c.commit_seq
      /\ d.submitted_through \in {c.submitted_through, c.acknowledged_seq}
  <2>1. CASE ~expired
    BY <2>1, <1>1
  <2>2. CASE expired
    <3> DEFINE n == IF c.submitted_through > c.acknowledged_seq
                    THEN c.acknowledged_seq ELSE c.submitted_through
    <3>1. d = [c EXCEPT !.awaiting = FALSE, !.submitted_through = n]
      BY <2>2 DEF Expire
    <3>2. n \in Nat /\ n \in {c.submitted_through, c.acknowledged_seq}
      BY <1>1
    <3> HIDE DEF n, d
    <3>3. QED
      BY <3>1, <3>2, <1>1 DEF Drivers
  <2>3. QED
    BY <2>1, <2>2
<1>3. /\ d.phase = "live" /\ conn[t] \in {"joined", "dead"}
      /\ UNCHANGED <<commits, conn, old, down, authored, faults>>
      /\ IF check = "no" THEN Send(t, d, from)
         ELSE driver' = [driver EXCEPT ![t] = [d EXCEPT !.blocked = check]] /\ UNCHANGED up
  BY DEF Outbox
<1> HIDE DEF d
<1>4. from \in Nat /\ from \in {c.submitted_through, c.acknowledged_seq}
  <2>1. d.submitted_through \in Nat /\ d.acknowledged_seq \in Nat
    BY <1>1, <1>2
  <2>2. from \in Nat /\ (from = d.submitted_through \/ from = d.acknowledged_seq)
    BY <2>1, MaxOfTwo
  <2>3. QED
    BY <2>2, <1>2
<1> HIDE DEF from
<1>5. check = CrossCheck(t, c, from) /\ check \in {"no", "refused", "not-applied", "rewritten", "gap"}
  BY <1>1, <1>2, DriverIs DEF CrossCheck
<1>6. CASE check # "no"
  <2> DEFINE e == [d EXCEPT !.blocked = check]
  <2>1. driver' = [driver EXCEPT ![t] = e] /\ up' = up
    BY <1>3, <1>6
  <2> HIDE DEF check
  <2>2. /\ e \in Drivers /\ e.phase = d.phase /\ e.joined = d.joined
        /\ e.replica = d.replica /\ e.acknowledged_seq = d.acknowledged_seq
        /\ e.refusals = d.refusals /\ e.commit_seq = d.commit_seq
        /\ e.blocked = check /\ e.submitted_through = d.submitted_through
    BY <1>2, <1>5 DEF Drivers
  <2> HIDE DEF e
  <2>3. driver' \in [Tabs -> Drivers] /\ driver'[t] = e
        /\ \A u \in Tabs \ {t} : driver'[u] = driver[u]
    BY <1>1, <2>1, <2>2, DriverSet
  <2>4. TypeOK'
    BY <1>1, <1>3, <2>1, <2>3 DEF TypeOK
  <2>5. Alone(t)
    BY <1>3, <2>1, <2>3 DEF Alone
  <2>6. QED
    BY <1>2, <1>3, <1>4, <1>5, <1>6, <2>1, <2>2, <2>3, <2>4, <2>5
<1>7. CASE check = "no"
  <2> DEFINE ops == LocalAfter(t, from)
             frames == Chunks(ops)
             sent == {op.seq : op \in UNION {Range(f) : f \in Range(frames)}}
             last == Max({from} \cup sent)
             e == IF frames = <<>> THEN d
                  ELSE [d EXCEPT !.submitted_through = last, !.awaiting = TRUE]
  <2>1. DenseAfter(t, from)
    BY <1>7 DEF CrossCheck
  <2>2. /\ ops \in SUBSET Ops /\ IsFiniteSet(ops) /\ frames \in Seq(Seq(Ops))
        /\ \A i \in 1..Len(frames) : Range(frames[i]) \subseteq ops
    BY <1>4, <2>1, TickFrames
  <2>3. up' = [up EXCEPT ![t] = IF conn[t] = "joined" THEN up[t] \o frames ELSE up[t]]
        /\ driver' = [driver EXCEPT ![t] = e]
    BY <1>3, <1>7 DEF Send
  <2> HIDE DEF ops, frames, check
  <2>4. Range(frames) = {frames[i] : i \in 1..Len(frames)}
    BY <2>2, RangeEquality
  <2>5. last \in Nat /\ (last = from \/ last \in sent)
    <3>1. sent \in SUBSET Seqs(ops)
      BY <2>2, <2>4 DEF Seqs
    <3>2. Seqs(ops) \in SUBSET Nat /\ IsFiniteSet(Seqs(ops))
      BY <2>2, SeqsProps
    <3>3. sent \in SUBSET Nat /\ IsFiniteSet(sent)
      BY <3>1, <3>2, FS_Subset
    <3> HIDE DEF sent
    <3>4. IsFiniteSet(sent \cup {from})
      BY <3>3, FS_AddElement
    <3>5. {from} \cup sent = sent \cup {from}
      OBVIOUS
    <3>6. {from} \cup sent \in SUBSET Nat /\ {from} \cup sent # {}
      BY <3>3, <1>4
    <3>7. last \in {from} \cup sent /\ last \in Nat
      BY <3>4, <3>5, <3>6, MaxProps
    <3>8. QED
      BY <3>7
  <2>6. last \in sent => \E i \in 1..Len(frames) : \E op \in Range(frames[i]) : op.seq = last
    <3>1. sent = {op.seq : op \in UNION {Range(frames[i]) : i \in 1..Len(frames)}}
      BY <2>4
    <3>2. QED
      BY <3>1
  <2> HIDE DEF last, sent
  <2>7. /\ e \in Drivers /\ e.phase = d.phase /\ e.joined = d.joined
        /\ e.replica = d.replica /\ e.acknowledged_seq = d.acknowledged_seq
        /\ e.refusals = d.refusals /\ e.commit_seq = d.commit_seq
        /\ e.blocked = d.blocked
        /\ e.submitted_through = d.submitted_through \/ e.submitted_through = last
    <3>1. CASE frames = <<>>
      BY <3>1, <1>2
    <3>2. CASE frames # <<>>
      BY <3>2, <1>2, <2>5 DEF Drivers
    <3>3. QED
      BY <3>1, <3>2
  <2> HIDE DEF e
  <2>8. driver' \in [Tabs -> Drivers] /\ driver'[t] = e
        /\ \A u \in Tabs \ {t} : driver'[u] = driver[u]
    BY <1>1, <2>3, <2>7, DriverSet
  <2>9. up' \in [Tabs -> Seq(Seq(Ops))]
        /\ up'[t] = (IF conn[t] = "joined" THEN up[t] \o frames ELSE up[t])
        /\ \A u \in Tabs \ {t} : up'[u] = up[u]
    <3>1. up[t] \o frames \in Seq(Seq(Ops))
      BY <1>1, <2>2, ConcatProperties
    <3>2. up \in [Tabs -> Seq(Seq(Ops))]
      BY <1>1 DEF TypeOK
    <3>3. QED
      BY <3>1, <3>2, <2>3
  <2>10. TypeOK'
    BY <1>1, <1>3, <2>8, <2>9 DEF TypeOK
  <2>11. Alone(t)
    BY <1>3, <2>8, <2>9 DEF Alone
  <2>12. \/ driver'[t].submitted_through \in {c.submitted_through, c.acknowledged_seq}
         \/ \E i \in 1..Len(frames) : \E op \in Range(frames[i]) :
                op.seq = driver'[t].submitted_through
    BY <1>2, <1>4, <2>5, <2>6, <2>7, <2>8
  <2>13. /\ driver'[t].phase = c.phase /\ driver'[t].joined = c.joined
         /\ driver'[t].replica = c.replica
         /\ driver'[t].acknowledged_seq = c.acknowledged_seq
         /\ driver'[t].refusals = c.refusals
         /\ driver'[t].commit_seq = c.commit_seq /\ driver'[t].blocked = c.blocked
    BY <1>2, <2>7, <2>8
  <2>14. CrossCheck(t, c, from) = "no"
    BY <1>5, <1>7
  <2>15. QED
    BY <1>2, <1>3, <1>4, <2>9, <2>10, <2>11, <2>12, <2>13, <2>14 DEF frames, ops
<1>8. QED
  BY <1>6, <1>7

\* The service stops and starts.
LEMMA RestartDoes ==
  ASSUME IInv, Restart
  PROVE  /\ TypeOK' /\ UNCHANGED <<commits, down, driver, authored>>
         /\ faults'.store = faults.store
         /\ \A t \in Tabs :
                /\ up'[t] = <<>> /\ old'[t] = <<>>
                /\ conn'[t] = IF conn[t] = "joined" THEN "dead" ELSE conn[t]
<1>1. TypeOK
  BY DEF IInv
<1>2. /\ faults.drops < MaxDrops /\ faults' = [faults EXCEPT !.drops = @ + 1]
      /\ conn' = [t \in Tabs |-> IF conn[t] = "joined" THEN "dead" ELSE conn[t]]
      /\ up' = [t \in Tabs |-> <<>>] /\ old' = [t \in Tabs |-> <<>>]
      /\ UNCHANGED <<commits, down, driver, authored>>
  BY DEF Restart
<1>3. /\ faults' \in [drops : 0..MaxDrops, store : 0..MaxStoreFailures]
      /\ faults'.store = faults.store
  <2>1. faults \in [drops : 0..MaxDrops, store : 0..MaxStoreFailures]
    BY <1>1 DEF TypeOK
  <2>2. faults.drops + 1 \in 0..MaxDrops
    BY <2>1, <1>2, CollabAssumption
  <2>3. QED
    BY <2>1, <2>2, <1>2
<1>4. <<>> \in Seq(Seq(Ops))
  OBVIOUS
<1>5. TypeOK'
  BY <1>1, <1>2, <1>3, <1>4 DEF TypeOK
<1>6. QED
  BY <1>2, <1>3, <1>5

----------------------------------------------------------------------------
(***************************************************************************)
(* What holds whoever shares an actor is kept by every step                *)
(***************************************************************************)

\* What is left of a tab's socket when its first frame is read.
LEMMA TailDoes ==
  ASSUME NEW S, NEW f \in [Tabs -> Seq(S)], NEW g, NEW t \in Tabs, f[t] # <<>>,
         g = [f EXCEPT ![t] = Tail(f[t])]
  PROVE  /\ g \in [Tabs -> Seq(S)]
         /\ \A u \in Tabs \ {t} : g[u] = f[u]
         /\ Len(f[t]) \in Nat \ {0} /\ Head(f[t]) = f[t][1]
         /\ Len(g[t]) = Len(f[t]) - 1
         /\ \A i \in 1..Len(g[t]) : g[t][i] = f[t][i + 1]
<1>1. f[t] \in Seq(S)
  OBVIOUS
<1>2. /\ Tail(f[t]) \in Seq(S) /\ Len(Tail(f[t])) = Len(f[t]) - 1
      /\ \A i \in 1..Len(Tail(f[t])) : Tail(f[t])[i] = f[t][i + 1]
  BY <1>1, HeadTailProperties
<1>3. Len(f[t]) \in Nat \ {0} /\ Head(f[t]) = f[t][1]
  BY <1>1
<1>4. g[t] = Tail(f[t]) /\ \A u \in Tabs \ {t} : g[u] = f[u]
  OBVIOUS
<1>5. g \in [Tabs -> Seq(S)]
  BY <1>2
<1>6. QED
  BY <1>2, <1>3, <1>4, <1>5

\* The invariant of a tab from its parts.
LEMMA TabMade ==
  ASSUME TypeOK', NEW t \in Tabs,
         IsFiniteSet(driver'[t].replica), driver'[t].commit_seq <= Len(commits'),
         \A i \in 1..Len(down'[t]) : FrameOK(down'[t][i], Len(commits')),
         \A i \in 1..Len(up'[t]) : Run(up'[t][i]),
         \A i \in 1..Len(old'[t]) : Run(old'[t][i])
  PROVE  TabOK(t)'
<1>1. up'[t] \in Seq(Seq(Ops)) /\ old'[t] \in Seq(Seq(Ops))
  BY DEF TypeOK
<1>2. /\ Range(up'[t]) = {up'[t][i] : i \in 1..Len(up'[t])}
      /\ Range(old'[t]) = {old'[t][i] : i \in 1..Len(old'[t])}
  BY <1>1, RangeEquality
<1>3. \A batch \in Sent(t)' : Run(batch)
  BY <1>2 DEF Sent
<1>4. QED
  BY <1>3 DEF TabOK, Run

\* A step of one tab's client keeps the invariant if it keeps it of the tab.
LEMMA ClientKeeps ==
  ASSUME IInv, TypeOK', NEW t \in Tabs, commits' = commits, Alone(t),
         IsFiniteSet(driver'[t].replica), driver'[t].commit_seq <= Len(commits),
         \A i \in 1..Len(down'[t]) : FrameOK(down'[t][i], Len(commits)),
         \A i \in 1..Len(up'[t]) : Run(up'[t][i]),
         \A i \in 1..Len(old'[t]) : Run(old'[t][i])
  PROVE  IInv'
<1>1. LogIsDense' /\ LogIsSound'
  BY SameLog DEF IInv
<1>2. TabOK(t)'
  BY TabMade
<1>3. ASSUME NEW u \in Tabs \ {t} PROVE TabOK(u)'
  <2>1. /\ up'[u] = up[u] /\ old'[u] = old[u] /\ down'[u] = down[u]
        /\ driver'[u] = driver[u]
    BY DEF Alone
  <2>2. TabOK(u)
    BY DEF IInv
  <2>3. QED
    BY <2>1, <2>2 DEF TabOK, Sent
<1>4. QED
  BY <1>1, <1>2, <1>3 DEF IInv

\* Typing keeps it.
LEMMA AuthorKeeps ==
  ASSUME IInv, NEW t \in Tabs, Author(t)
  PROVE  IInv'
<1>1. TypeOK' /\ Alone(t) /\ UNCHANGED <<commits, wire, faults>>
  BY AuthorDoes
<1>2. PICK op \in Ops :
          driver'[t] = [driver[t] EXCEPT !.replica = driver[t].replica \cup {op}]
  BY AuthorDoes
<1>3. driver[t] \in Drivers
  BY OfTab, Typed
<1>4. /\ driver'[t].replica = driver[t].replica \cup {op}
      /\ driver'[t].commit_seq = driver[t].commit_seq
  BY <1>2, <1>3 DEF Drivers
<1>5. IsFiniteSet(driver'[t].replica) /\ driver'[t].commit_seq <= Len(commits)
  <2>1. IsFiniteSet(driver[t].replica) /\ driver[t].commit_seq \in 0..Len(commits)
    BY OfTab
  <2>2. IsFiniteSet(driver[t].replica \cup {op})
    BY <2>1, FS_AddElement
  <2>3. QED
    BY <1>4, <2>1, <2>2
<1>6. up' = up /\ old' = old /\ down' = down
  BY <1>1 DEF wire
<1>7. /\ \A i \in 1..Len(down'[t]) : FrameOK(down'[t][i], Len(commits))
      /\ \A i \in 1..Len(up'[t]) : Run(up'[t][i])
      /\ \A i \in 1..Len(old'[t]) : Run(old'[t][i])
  BY <1>6, OfTab
<1>8. QED
  BY <1>1, <1>5, <1>7, ClientKeeps

\* Opening a socket keeps it.
LEMMA BeginKeeps ==
  ASSUME IInv, NEW t \in Tabs, Begin(t)
  PROVE  IInv'
<1>1. /\ TypeOK' /\ Alone(t) /\ UNCHANGED <<commits, up, old, down>>
      /\ driver'[t].replica = driver[t].replica
      /\ driver'[t].commit_seq = driver[t].commit_seq
  BY BeginDoes
<1>2. IsFiniteSet(driver'[t].replica) /\ driver'[t].commit_seq <= Len(commits)
  BY <1>1, OfTab
<1>3. /\ \A i \in 1..Len(down'[t]) : FrameOK(down'[t][i], Len(commits))
      /\ \A i \in 1..Len(up'[t]) : Run(up'[t][i])
      /\ \A i \in 1..Len(old'[t]) : Run(old'[t][i])
  BY <1>1, OfTab
<1>4. QED
  BY <1>1, <1>2, <1>3, ClientKeeps

\* Joining keeps it.
LEMMA JoinKeeps ==
  ASSUME IInv, NEW t \in Tabs, Join(t)
  PROVE  IInv'
<1>1. /\ TypeOK' /\ Alone(t) /\ UNCHANGED <<commits, up, old, driver>>
      /\ down'[t] = <<WelcomeAs(Len(commits))>>
  BY JoinDoes
<1>2. IsFiniteSet(driver'[t].replica) /\ driver'[t].commit_seq <= Len(commits)
  BY <1>1, OfTab
<1>3. \A i \in 1..Len(down'[t]) : FrameOK(down'[t][i], Len(commits))
  <2>1. Len(commits) \in 0..Len(commits)
    BY OfTab, Typed
  <2>2. FrameOK(WelcomeAs(Len(commits)), Len(commits))
    BY <2>1 DEF FrameOK, WelcomeAs
  <2>3. QED
    BY <2>2, <1>1
<1>4. /\ \A i \in 1..Len(up'[t]) : Run(up'[t][i])
      /\ \A i \in 1..Len(old'[t]) : Run(old'[t][i])
  BY <1>1, OfTab
<1>5. QED
  BY <1>1, <1>2, <1>3, <1>4, ClientKeeps

\* Reading a frame keeps it.
LEMMA IngestKeeps ==
  ASSUME IInv, NEW t \in Tabs, Ingest(t)
  PROVE  IInv'
<1> DEFINE f == down[t][1]
<1>1. /\ UNCHANGED <<commits, conn, up, old, authored, faults>>
      /\ Len(down[t]) \in Nat \ {0} /\ f \in Frames /\ FrameOK(f, Len(commits))
      /\ down' \in [Tabs -> Seq(Frames)]
      /\ \A u \in Tabs \ {t} : down'[u] = down[u]
      /\ Len(down'[t]) = Len(down[t]) - 1
      /\ \A i \in 1..Len(down'[t]) : down'[t][i] = down[t][i + 1]
      /\ \/ f.kind = "welcome"   /\ Welcome(t, f.commit)
         \/ f.kind = "accepted"  /\ Acknowledge(t, f)
         \/ f.kind = "rejected"  /\ Refused(t)
         \/ f.kind = "committed" /\ Apply(t, f.commit)
  BY IngestDoes
<1> HIDE DEF f
<1>2. /\ TypeOK /\ IsFiniteSet(driver[t].replica)
      /\ driver[t].commit_seq \in 0..Len(commits) /\ Len(commits) \in Nat
      /\ \A i \in 1..Len(down[t]) : FrameOK(down[t][i], Len(commits))
      /\ \A i \in 1..Len(up[t]) : Run(up[t][i])
      /\ \A i \in 1..Len(old[t]) : Run(old[t][i])
  BY OfTab, Typed
<1>3. /\ driver' \in [Tabs -> Drivers]
      /\ \A u \in Tabs \ {t} : driver'[u] = driver[u]
      /\ IsFiniteSet(driver'[t].replica) /\ driver'[t].commit_seq <= Len(commits)
  <2>1. CASE f.kind = "welcome" /\ Welcome(t, f.commit)
    <3>1. f.commit \in 0..Len(commits)
      BY <1>1, <2>1 DEF FrameOK
    <3>2. QED
      BY <2>1, <3>1, <1>2, WelcomeDoes
  <2>2. CASE f.kind = "accepted" /\ Acknowledge(t, f)
    <3>1. f.commit \in 0..Len(commits)
      BY <1>1, <2>2 DEF FrameOK
    <3>2. /\ driver' \in [Tabs -> Drivers]
          /\ \A u \in Tabs \ {t} : driver'[u] = driver[u]
          /\ driver'[t].replica = driver[t].replica
          /\ driver'[t].commit_seq \in {driver[t].commit_seq, f.commit}
      BY <2>2, <1>1, AcknowledgeDoes
    <3>3. QED
      BY <3>1, <3>2, <1>2
  <2>3. CASE f.kind = "rejected" /\ Refused(t)
    <3>1. /\ driver' \in [Tabs -> Drivers]
          /\ \A u \in Tabs \ {t} : driver'[u] = driver[u]
          /\ driver'[t].replica = driver[t].replica
          /\ driver'[t].commit_seq = driver[t].commit_seq
      BY <2>3, RefusedDoes
    <3>2. QED
      BY <3>1, <1>2
  <2>4. CASE f.kind = "committed" /\ Apply(t, f.commit)
    <3>1. f.commit \in 1..Len(commits)
      BY <1>1, <2>4 DEF FrameOK
    <3>2. /\ driver' \in [Tabs -> Drivers]
          /\ \A u \in Tabs \ {t} : driver'[u] = driver[u]
          /\ IsFiniteSet(driver'[t].replica)
          /\ driver'[t].commit_seq \in {driver[t].commit_seq, f.commit}
      BY <2>4, <3>1, ApplyDoes
    <3>3. QED
      BY <3>1, <3>2, <1>2
  <2>5. QED
    BY <1>1, <2>1, <2>2, <2>3, <2>4
<1>4. TypeOK'
  BY <1>1, <1>2, <1>3 DEF TypeOK
<1>5. Alone(t)
  BY <1>1, <1>3 DEF Alone
<1>6. \A i \in 1..Len(down'[t]) : FrameOK(down'[t][i], Len(commits))
  <2>1. ASSUME NEW i \in 1..Len(down'[t]) PROVE FrameOK(down'[t][i], Len(commits))
    <3>1. i + 1 \in 1..Len(down[t])
      BY <1>1
    <3>2. QED
      BY <3>1, <1>1, <1>2
  <2>2. QED
    BY <2>1
<1>7. /\ \A i \in 1..Len(up'[t]) : Run(up'[t][i])
      /\ \A i \in 1..Len(old'[t]) : Run(old'[t][i])
  BY <1>1, <1>2
<1>8. QED
  BY <1>1, <1>3, <1>4, <1>5, <1>6, <1>7, ClientKeeps

\* A tick keeps it.
LEMMA OutboxKeeps ==
  ASSUME IInv, NEW t \in Tabs, NEW expired \in BOOLEAN, Outbox(t, expired)
  PROVE  IInv'
<1> DEFINE c == driver[t]
<1>1. /\ TypeOK' /\ Alone(t) /\ UNCHANGED <<commits, old, down>>
      /\ driver'[t].replica = c.replica /\ driver'[t].commit_seq = c.commit_seq
  BY OutboxDoes
<1>2. PICK from \in {c.submitted_through, c.acknowledged_seq} :
          \/ up'[t] = up[t]
          \/ CrossCheck(t, c, from) = "no" /\ up'[t] = up[t] \o Chunks(LocalAfter(t, from))
  BY OutboxDoes
<1>3. /\ TypeOK /\ c \in Drivers /\ from \in Nat /\ up[t] \in Seq(Seq(Ops))
      /\ \A i \in 1..Len(up[t]) : Run(up[t][i])
      /\ \A i \in 1..Len(old[t]) : Run(old[t][i])
      /\ \A i \in 1..Len(down[t]) : FrameOK(down[t][i], Len(commits))
      /\ IsFiniteSet(c.replica) /\ c.commit_seq <= Len(commits)
  BY OfTab, Typed, DriverIs
<1>4. \A i \in 1..Len(up'[t]) : Run(up'[t][i])
  <2>1. CASE up'[t] = up[t]
    BY <2>1, <1>3
  <2>2. CASE /\ CrossCheck(t, c, from) = "no"
             /\ up'[t] = up[t] \o Chunks(LocalAfter(t, from))
    <3> DEFINE frames == Chunks(LocalAfter(t, from))
    <3>1. DenseAfter(t, from)
      BY <2>2 DEF CrossCheck
    <3>2. frames \in Seq(Seq(Ops)) /\ \A i \in 1..Len(frames) : Run(frames[i])
      BY <3>1, <1>3, TickFrames
    <3>3. up'[t] = up[t] \o frames
      BY <2>2
    <3> HIDE DEF frames
    <3>4. /\ Len(up[t] \o frames) = Len(up[t]) + Len(frames)
          /\ \A i \in 1..(Len(up[t]) + Len(frames)) : (up[t] \o frames)[i] =
                 IF i <= Len(up[t]) THEN up[t][i] ELSE frames[i - Len(up[t])]
      BY <1>3, <3>2, ConcatProperties
    <3>5. Len(up[t]) \in Nat /\ Len(frames) \in Nat
      BY <1>3, <3>2
    <3>6. ASSUME NEW i \in 1..Len(up'[t]) PROVE Run(up'[t][i])
      <4>1. CASE i <= Len(up[t])
        <5>1. i \in 1..Len(up[t]) /\ i \in 1..(Len(up[t]) + Len(frames))
          BY <4>1, <3>5
        <5>2. QED
          BY <5>1, <4>1, <3>3, <3>4, <1>3
      <4>2. CASE i > Len(up[t])
        <5>1. i \in 1..(Len(up[t]) + Len(frames)) /\ ~(i <= Len(up[t]))
              /\ i - Len(up[t]) \in 1..Len(frames)
          BY <4>2, <3>3, <3>4, <3>5
        <5>2. QED
          BY <5>1, <3>2, <3>3, <3>4
      <4>3. QED
        BY <4>1, <4>2, <3>5
    <3>7. QED
      BY <3>6
  <2>3. QED
    BY <1>2, <2>1, <2>2
<1>5. QED
  BY <1>1, <1>3, <1>4, ClientKeeps

\* Serving a batch keeps it, whichever socket the batch came by.
LEMMA SubmitKeeps ==
  ASSUME IInv, NEW t \in Tabs, Submit(t) \/ SubmitOld(t)
  PROVE  IInv'
<1>1. TypeOK /\ up \in [Tabs -> Seq(Seq(Ops))] /\ old \in [Tabs -> Seq(Seq(Ops))]
      /\ Len(commits) \in Nat
  BY Typed DEF IInv, TypeOK
<1>2. \E c \in BOOLEAN, batch \in Seq(Ops) :
          /\ Run(batch) /\ Serve(t, c, batch)
          /\ UNCHANGED <<conn, driver, authored>>
          /\ \/ UNCHANGED old /\ up[t] # <<>> /\ up' = [up EXCEPT ![t] = Tail(up[t])]
             \/ UNCHANGED up /\ old[t] # <<>> /\ old' = [old EXCEPT ![t] = Tail(old[t])]
  <2>1. CASE Submit(t)
    <3>1. up[t] # <<>> /\ Serve(t, TRUE, Head(up[t]))
          /\ up' = [up EXCEPT ![t] = Tail(up[t])] /\ UNCHANGED <<conn, old, driver, authored>>
      BY <2>1 DEF Submit
    <3>2. Head(up[t]) = up[t][1] /\ 1 \in 1..Len(up[t])
      BY <3>1, <1>1
    <3>3. Head(up[t]) \in Seq(Ops) /\ Run(Head(up[t]))
      BY <3>2, OfTab
    <3>4. QED
      BY <3>1, <3>3
  <2>2. CASE SubmitOld(t)
    <3>1. old[t] # <<>> /\ Serve(t, FALSE, Head(old[t]))
          /\ old' = [old EXCEPT ![t] = Tail(old[t])] /\ UNCHANGED <<conn, up, driver, authored>>
      BY <2>2 DEF SubmitOld
    <3>2. Head(old[t]) = old[t][1] /\ 1 \in 1..Len(old[t])
      BY <3>1, <1>1
    <3>3. Head(old[t]) \in Seq(Ops) /\ Run(Head(old[t]))
      BY <3>2, OfTab
    <3>4. QED
      BY <3>1, <3>3
  <2>3. QED
    BY <2>1, <2>2
<1>3. /\ UNCHANGED <<conn, driver, authored>>
      /\ \/ UNCHANGED old /\ up[t] # <<>> /\ up' = [up EXCEPT ![t] = Tail(up[t])]
         \/ UNCHANGED up /\ old[t] # <<>> /\ old' = [old EXCEPT ![t] = Tail(old[t])]
  BY <1>2
<1>4. /\ commits' \in Seq(Seq(Ops)) /\ Len(commits) <= Len(commits')
      /\ LogIsDense' /\ LogIsSound'
      /\ down' \in [Tabs -> Seq(Frames)]
      /\ \A u \in Tabs : \A i \in 1..Len(down'[u]) : FrameOK(down'[u][i], Len(commits'))
      /\ faults' \in [drops : 0..MaxDrops, store : 0..MaxStoreFailures]
  <2>1. PICK c \in BOOLEAN, batch \in Seq(Ops) : Run(batch) /\ Serve(t, c, batch)
    BY <1>2
  <2>2. QED
    BY <2>1, ServeKeeps
<1>5. /\ up' \in [Tabs -> Seq(Seq(Ops))] /\ old' \in [Tabs -> Seq(Seq(Ops))]
      /\ \A u \in Tabs : \A i \in 1..Len(up'[u]) : Run(up'[u][i])
      /\ \A u \in Tabs : \A i \in 1..Len(old'[u]) : Run(old'[u][i])
  <2>1. \A u \in Tabs : /\ \A i \in 1..Len(up[u]) : Run(up[u][i])
                        /\ \A i \in 1..Len(old[u]) : Run(old[u][i])
    BY OfTab
  <2>2. CASE UNCHANGED old /\ up[t] # <<>> /\ up' = [up EXCEPT ![t] = Tail(up[t])]
    <3>1. /\ up' \in [Tabs -> Seq(Seq(Ops))]
          /\ \A u \in Tabs \ {t} : up'[u] = up[u]
          /\ Len(up[t]) \in Nat \ {0} /\ Len(up'[t]) = Len(up[t]) - 1
          /\ \A i \in 1..Len(up'[t]) : up'[t][i] = up[t][i + 1]
      BY <1>1, <2>2, TailDoes
    <3>2. \A i \in 1..Len(up'[t]) : i + 1 \in 1..Len(up[t])
      BY <3>1
    <3>3. \A i \in 1..Len(up'[t]) : Run(up'[t][i])
      BY <2>1, <3>1, <3>2
    <3>4. ASSUME NEW u \in Tabs PROVE \A i \in 1..Len(up'[u]) : Run(up'[u][i])
      BY <2>1, <3>1, <3>3
    <3>5. QED
      BY <1>1, <2>1, <2>2, <3>1, <3>4
  <2>3. CASE UNCHANGED up /\ old[t] # <<>> /\ old' = [old EXCEPT ![t] = Tail(old[t])]
    <3>1. /\ old' \in [Tabs -> Seq(Seq(Ops))]
          /\ \A u \in Tabs \ {t} : old'[u] = old[u]
          /\ Len(old[t]) \in Nat \ {0} /\ Len(old'[t]) = Len(old[t]) - 1
          /\ \A i \in 1..Len(old'[t]) : old'[t][i] = old[t][i + 1]
      BY <1>1, <2>3, TailDoes
    <3>2. \A i \in 1..Len(old'[t]) : i + 1 \in 1..Len(old[t])
      BY <3>1
    <3>3. \A i \in 1..Len(old'[t]) : Run(old'[t][i])
      BY <2>1, <3>1, <3>2
    <3>4. ASSUME NEW u \in Tabs PROVE \A i \in 1..Len(old'[u]) : Run(old'[u][i])
      BY <2>1, <3>1, <3>3
    <3>5. QED
      BY <1>1, <2>1, <2>3, <3>1, <3>4
  <2>4. QED
    BY <1>3, <2>2, <2>3
<1>6. TypeOK'
  BY <1>1, <1>3, <1>4, <1>5 DEF TypeOK
<1>7. ASSUME NEW u \in Tabs PROVE TabOK(u)'
  <2>1. /\ IsFiniteSet(driver[u].replica) /\ driver[u].commit_seq \in 0..Len(commits)
    BY OfTab
  <2>2. Len(commits') \in Nat
    BY <1>4
  <2>3. driver'[u].commit_seq <= Len(commits') /\ IsFiniteSet(driver'[u].replica)
    BY <2>1, <2>2, <1>1, <1>3, <1>4
  <2>4. QED
    BY <2>3, <1>4, <1>5, <1>6, TabMade
<1>8. QED
  BY <1>4, <1>6, <1>7 DEF IInv

\* The end of an old socket keeps it.
LEMMA LeaveKeeps ==
  ASSUME IInv, NEW t \in Tabs, Leave(t)
  PROVE  IInv' /\ Alone(t) /\ old'[t] = <<>>
<1>1. /\ old' = [old EXCEPT ![t] = <<>>]
      /\ UNCHANGED <<commits, conn, up, down, driver, authored, faults>>
  BY DEF Leave
<1>2. TypeOK /\ old \in [Tabs -> Seq(Seq(Ops))] /\ <<>> \in Seq(Seq(Ops))
  BY DEF IInv, TypeOK
<1>3. old' \in [Tabs -> Seq(Seq(Ops))] /\ old'[t] = <<>>
      /\ \A u \in Tabs \ {t} : old'[u] = old[u]
  BY <1>1, <1>2
<1>4. TypeOK'
  BY <1>1, <1>2, <1>3 DEF TypeOK
<1>5. Alone(t)
  BY <1>1, <1>3 DEF Alone
<1>6. /\ IsFiniteSet(driver'[t].replica) /\ driver'[t].commit_seq <= Len(commits)
      /\ \A i \in 1..Len(down'[t]) : FrameOK(down'[t][i], Len(commits))
      /\ \A i \in 1..Len(up'[t]) : Run(up'[t][i])
      /\ \A i \in 1..Len(old'[t]) : Run(old'[t][i])
  BY <1>1, <1>3, OfTab
<1>7. QED
  BY <1>1, <1>3, <1>4, <1>5, <1>6, ClientKeeps

\* A lost or discarded socket keeps it.
LEMMA CloseKeeps ==
  ASSUME IInv, NEW t \in Tabs, DropDoomed(t) \/ Drop(t)
  PROVE  IInv' /\ Close(t) /\ faults'.store = faults.store
<1>1. TypeOK /\ faults \in [drops : 0..MaxDrops, store : 0..MaxStoreFailures]
  BY DEF IInv, TypeOK
<1>2. /\ Close(t)
      /\ \/ UNCHANGED faults
         \/ faults.drops < MaxDrops /\ faults' = [faults EXCEPT !.drops = @ + 1]
  BY DEF DropDoomed, Drop
<1>3. /\ faults' \in [drops : 0..MaxDrops, store : 0..MaxStoreFailures]
      /\ faults'.store = faults.store
  <2>1. CASE UNCHANGED faults
    BY <2>1, <1>1
  <2>2. CASE faults.drops < MaxDrops /\ faults' = [faults EXCEPT !.drops = @ + 1]
    <3>1. faults.drops + 1 \in 0..MaxDrops
      BY <2>2, <1>1, CollabAssumption
    <3>2. QED
      BY <2>2, <3>1, <1>1
  <2>3. QED
    BY <1>2, <2>1, <2>2
<1>4. /\ Alone(t) /\ UNCHANGED <<commits, authored>>
      /\ conn' \in [Tabs -> {"none", "opening", "joined", "dead"}]
      /\ {up, old}' \subseteq [Tabs -> Seq(Seq(Ops))]
      /\ down' \in [Tabs -> Seq(Frames)]
      /\ driver' \in [Tabs -> Drivers]
      /\ up'[t] = <<>> /\ down'[t] = <<>> /\ old'[t] = up[t]
      /\ driver'[t].replica = driver[t].replica
      /\ driver'[t].commit_seq = driver[t].commit_seq
  BY <1>2, CloseDoes
<1>5. TypeOK'
  BY <1>1, <1>3, <1>4 DEF TypeOK
<1>6. /\ IsFiniteSet(driver'[t].replica) /\ driver'[t].commit_seq <= Len(commits)
      /\ \A i \in 1..Len(down'[t]) : FrameOK(down'[t][i], Len(commits))
      /\ \A i \in 1..Len(up'[t]) : Run(up'[t][i])
      /\ \A i \in 1..Len(old'[t]) : Run(old'[t][i])
  BY <1>4, OfTab
<1>7. IInv'
  BY <1>4, <1>5, <1>6, ClientKeeps
<1>8. QED
  BY <1>2, <1>3, <1>7

\* A restart keeps it.
LEMMA RestartKeeps ==
  ASSUME IInv, Restart
  PROVE  IInv'
<1>1. /\ TypeOK' /\ UNCHANGED <<commits, down, driver, authored>>
      /\ \A t \in Tabs : up'[t] = <<>> /\ old'[t] = <<>>
  BY RestartDoes
<1>2. LogIsDense' /\ LogIsSound'
  BY <1>1, SameLog DEF IInv
<1>3. ASSUME NEW t \in Tabs PROVE TabOK(t)'
  <2>1. /\ IsFiniteSet(driver'[t].replica) /\ driver'[t].commit_seq <= Len(commits')
        /\ \A i \in 1..Len(down'[t]) : FrameOK(down'[t][i], Len(commits'))
        /\ \A i \in 1..Len(up'[t]) : Run(up'[t][i])
        /\ \A i \in 1..Len(old'[t]) : Run(old'[t][i])
    BY <1>1, OfTab
  <2>2. QED
    BY <1>1, <2>1, TabMade
<1>4. QED
  BY <1>1, <1>2, <1>3 DEF IInv

\* It holds at first.
LEMMA InitIInv ==
  ASSUME Init
  PROVE  IInv
<1>1. /\ commits = <<>> /\ conn = [t \in Tabs |-> "none"]
      /\ up = [t \in Tabs |-> <<>>] /\ old = [t \in Tabs |-> <<>>]
      /\ down = [t \in Tabs |-> <<>>] /\ driver = [t \in Tabs |-> NewDriver]
      /\ authored = [t \in Tabs |-> {}] /\ faults = [drops |-> 0, store |-> 0]
  BY DEF Init
<1>2. NewDriver \in Drivers /\ NewDriver.replica = {} /\ NewDriver.commit_seq = 0
  BY DEF NewDriver, Drivers
<1>3. TypeOK
  <2>1. <<>> \in Seq(Seq(Ops)) /\ <<>> \in Seq(Frames)
    OBVIOUS
  <2>2. faults \in [drops : 0..MaxDrops, store : 0..MaxStoreFailures]
    BY <1>1, CollabAssumption
  <2>3. QED
    BY <1>1, <1>2, <2>1, <2>2 DEF TypeOK
<1>4. Len(commits) = 0
  BY <1>1
<1>5. LogIsDense
  <2>1. SUFFICES ASSUME NEW n \in 0..0, NEW a \in Actors PROVE Dense(Of(a, LoggedAt(n)))
    BY <1>4 DEF LogIsDense
  <2>2. LoggedAt(n) = {}
    BY DEF LoggedAt
  <2>3. Of(a, LoggedAt(n)) = {}
    BY <2>2 DEF Of
  <2>4. {op.seq : op \in {}} = 1..0 /\ 0 \in Nat
    OBVIOUS
  <2>5. QED
    BY <2>3, <2>4 DEF Dense
<1>6. LogIsSound
  BY <1>4 DEF LogIsSound
<1>7. ASSUME NEW t \in Tabs PROVE TabOK(t)
  <2>1. /\ driver[t].replica = {} /\ driver[t].commit_seq = 0
        /\ down[t] = <<>> /\ up[t] = <<>> /\ old[t] = <<>>
    BY <1>1, <1>2
  <2>2. IsFiniteSet(driver[t].replica)
    BY <2>1, FS_EmptySet
  <2>3. Sent(t) = {}
    BY <2>1 DEF Sent, Range
  <2>4. QED
    BY <1>4, <2>1, <2>2, <2>3 DEF TabOK
<1>8. QED
  BY <1>3, <1>5, <1>6, <1>7 DEF IInv

\* Every step keeps it.
LEMMA NextIInv ==
  ASSUME IInv, [Next]_vars
  PROVE  IInv'
<1>1. CASE UNCHANGED vars
  <2>1. UNCHANGED <<commits, conn, up, old, down, driver, authored, faults>>
    BY <1>1 DEF vars
  <2>2. TypeOK'
    BY <2>1 DEF IInv, TypeOK
  <2>3. LogIsDense' /\ LogIsSound'
    BY <2>1, SameLog DEF IInv
  <2>4. \A t \in Tabs : TabOK(t)'
    BY <2>1 DEF IInv, TabOK, Sent
  <2>5. QED
    BY <2>2, <2>3, <2>4 DEF IInv
<1>2. CASE Restart
  BY <1>2, RestartKeeps
<1>3. ASSUME NEW t \in Tabs,
             \/ Author(t)
             \/ Begin(t)
             \/ Join(t)
             \/ Ingest(t)
             \/ \E expired \in BOOLEAN : Outbox(t, expired)
             \/ Submit(t)
             \/ SubmitOld(t)
             \/ Leave(t)
             \/ DropDoomed(t)
             \/ Drop(t)
      PROVE  IInv'
  BY <1>3, AuthorKeeps, BeginKeeps, JoinKeeps, IngestKeeps, OutboxKeeps, SubmitKeeps,
     LeaveKeeps, CloseKeeps
<1>4. QED
  BY <1>1, <1>2, <1>3 DEF Next

\* IInv holds in every reachable state.
LEMMA Inductive == Spec => []IInv
<1>1. Init => IInv
  BY InitIInv
<1>2. IInv /\ [Next]_vars => IInv'
  BY NextIInv
<1>3. QED
  BY <1>1, <1>2, PTL DEF Spec

\* Every variable has its type in every reachable state.
THEOREM TypeCorrect == Spec => []TypeOK
<1>1. IInv => TypeOK
  BY DEF IInv
<1>2. QED
  BY <1>1, Inductive, PTL

\* Whatever sockets, resends and refusals interleave, and whoever shares an
\* actor, the log has no id twice, each actor's operations without a gap, and
\* nothing before what it observed (document.rs validate_batch).
THEOREM LogAlwaysSound == Spec => []LogIsSound
<1>1. IInv => LogIsSound
  BY DEF IInv
<1>2. QED
  BY <1>1, Inductive, PTL

----------------------------------------------------------------------------
(***************************************************************************)
(* Actors of one tab: the inductive invariant                              *)
(***************************************************************************)

\* Every tab writes as an actor of its own.
OwnActors == \A t, u \in Tabs : ActorOf[t] = ActorOf[u] => t = u

\* The operations of the first n commits of a log, and those a frame brings.
LogAt(log, n) == UNION {Range(log[i]) : i \in 1..n}

BringsOf(log, frame) ==
    CASE frame.kind = "welcome"   -> LogAt(log, frame.commit)
      [] frame.kind = "committed" -> Range(log[frame.commit])
      [] OTHER                    -> {}

\* The tab holds what was typed in it, and nothing else that is not logged.
HoldsOwn(t) ==
    /\ Dense(authored[t])
    /\ Of(ActorOf[t], authored[t]) = authored[t]
    /\ Of(ActorOf[t], driver[t].replica) = authored[t]
    /\ driver[t].replica \subseteq Logged \cup authored[t]
    /\ Of(ActorOf[t], Logged) \subseteq authored[t]
    /\ \A batch \in Sent(t) : Range(batch) \subseteq authored[t]
    /\ ~driver[t].joined => authored[t] = {}

\* An operation has seen those before it of its own actor, and of the others
\* what is logged.
ContextOK(t) ==
    \A op \in authored[t] :
        /\ op.seen[ActorOf[t]] = op.seq - 1
        /\ \A b \in Actors : b # ActorOf[t] => op.seen[b] <= LoggedOf(b)

\* What the tab takes for acknowledged is logged, and so is what an
\* acknowledgement on its way names.
MarksOK(t) ==
    /\ driver[t].acknowledged_seq <= LoggedOf(ActorOf[t])
    /\ driver[t].submitted_through <= Cardinality(authored[t])
    /\ \A i \in 1..Len(down[t]) : down[t][i].kind = "accepted" =>
           \A n \in down[t][i].ids : n <= LoggedOf(ActorOf[t])
    /\ LogAt(commits, driver[t].commit_seq) \subseteq driver[t].replica

\* The welcome is still on its way.
Unwelcomed(t) == Len(down[t]) >= 1 /\ down[t][1].kind = "welcome"

\* Nothing precedes the welcome, and nothing is submitted before it.
PhaseOK(t) ==
    /\ conn[t] \in {"none", "opening"} =>
           Len(down[t]) = 0 /\ Len(up[t]) = 0 /\ driver[t].phase # "live"
    /\ Unwelcomed(t) => Len(up[t]) = 0 /\ driver[t].phase # "live"
    /\ \A i \in 2..Len(down[t]) :
           /\ down[t][i].kind # "welcome"
           /\ Unwelcomed(t) => down[t][i].kind = "committed"

\* The tab holds an operation, or will when it has read the first n frames.
Holds(t, op) == op \in (IF Unwelcomed(t) THEN authored[t] ELSE driver[t].replica)

ToldBy(t, op, n) ==
    \/ Holds(t, op)
    \/ \E j \in 1..n : op \in BringsOf(commits, down[t][j])

\* A frame that names a commit follows all that was committed before.
ToldInOrder(t) ==
    /\ \A i \in 1..Len(down[t]) : down[t][i].kind \in {"committed", "accepted"} =>
           \A op \in LogAt(commits, down[t][i].commit) : ToldBy(t, op, i)
    /\ conn[t] = "joined" => \A op \in Logged : ToldBy(t, op, Len(down[t]))

\* The store's refusals are on their way, or the tab has one and nothing is
\* welcome yet.
StorageAt(t, i) == down[t][i] = Rejected("storage")

Broken(t) ==
    \/ driver[t].blocked # "no"
    \/ \E i \in 1..Len(down[t]) : StorageAt(t, i)

\* An operation of this number is in one of the first n frames.
Carried(t, seq, n) ==
    \E j \in 1..n : \E op \in Range(up[t][j]) : op.seq = seq

\* What was submitted is logged or on its way to be, and nothing on its way
\* leaves a gap.
NoGap(t) ==
    conn[t] \in {"opening", "joined"} /\ ~Broken(t) =>
        /\ \/ driver[t].submitted_through <= LoggedOf(ActorOf[t])
           \/ Carried(t, driver[t].submitted_through, Len(up[t]))
        /\ \A i \in 1..Len(up[t]) :
            \/ up[t][i][1].seq <= LoggedOf(ActorOf[t]) + 1
            \/ Carried(t, up[t][i][1].seq - 1, i - 1)

\* A refusal is the store's, or follows one that was.
RefusalsOK(t) ==
    /\ driver[t].blocked \in {"no", "refused"}
    /\ driver[t].blocked = "refused" => faults.store > 0
    /\ driver[t].refusals <= faults.store
    /\ driver[t].phase = "closed" => faults.store >= MaxRefusalRecoveries
    /\ \A i \in 1..Len(down[t]) : StorageAt(t, i) =>
           /\ faults.store > 0
           /\ driver[t].blocked = "no" => driver[t].refusals < faults.store
    /\ \A i \in 1..Len(down[t]) : down[t][i] = Rejected("conflict") =>
           \/ driver[t].blocked # "no"
           \/ \E j \in 1..(i - 1) : StorageAt(t, j)

\* What holds of a tab whose actor is its own.
Own(t) ==
    /\ HoldsOwn(t) /\ ContextOK(t) /\ MarksOK(t) /\ PhaseOK(t)
    /\ ToldInOrder(t) /\ NoGap(t) /\ RefusalsOK(t)

\* What holds when none does.
OInv == \A t \in Tabs : Own(t)

----------------------------------------------------------------------------
(***************************************************************************)
(* A tab and what it typed                                                 *)
(***************************************************************************)

\* What a tab typed is numbered without a gap, and its first operations are
\* those the log has of its actor.
LEMMA Mine ==
  ASSUME IInv, NEW t \in Tabs, HoldsOwn(t)
  PROVE  /\ ActorOf[t] \in Actors /\ LoggedOf(ActorOf[t]) \in Nat
         /\ authored[t] \in SUBSET Ops /\ Cardinality(authored[t]) \in Nat
         /\ LoggedOf(ActorOf[t]) <= Cardinality(authored[t])
         /\ authored[t] \subseteq driver[t].replica
         /\ \A op \in authored[t] :
                /\ op.actor = ActorOf[t] /\ op.seq \in 1..Cardinality(authored[t])
                /\ op \in Logged <=> op.seq <= LoggedOf(ActorOf[t])
         /\ \A p, q \in authored[t] : p.seq = q.seq => p = q
         /\ \A k \in 1..Cardinality(authored[t]) : \E op \in authored[t] : op.seq = k
<1> DEFINE a == ActorOf[t]
           A == authored[t]
<1>1. TypeOK /\ LogIsDense
  BY DEF IInv
<1>2. a \in Actors /\ A \in SUBSET Ops
  BY <1>1, Typed
<1>3. /\ Of(a, Logged) \in SUBSET Ops /\ Dense(Of(a, Logged))
      /\ LoggedOf(a) = Cardinality(Of(a, Logged)) /\ LoggedOf(a) \in Nat
      /\ \A op \in Of(a, Logged) : op.seq \in 1..LoggedOf(a)
  BY <1>1, <1>2, LoggedDense
<1>4. /\ Dense(A) /\ Of(a, A) = A /\ Of(a, driver[t].replica) = A
      /\ Of(a, Logged) \subseteq A
  BY DEF HoldsOwn
<1> HIDE DEF a, A
<1>5. /\ Cardinality(A) \in Nat
      /\ \A p, q \in A : p.seq = q.seq => p = q
      /\ \A op \in A : op.seq \in 1..Cardinality(A)
      /\ \A k \in 1..Cardinality(A) : \E op \in A : op.seq = k
  BY <1>2, <1>4, DenseProps
<1>6. /\ Cardinality(Of(a, Logged)) <= Cardinality(A)
      /\ \A op \in A : op.seq <= Cardinality(Of(a, Logged)) => op \in Of(a, Logged)
  BY <1>2, <1>3, <1>4, DenseWithin
<1>7. A \subseteq driver[t].replica /\ \A op \in A : op.actor = a
  BY <1>4 DEF Of
<1>8. ASSUME NEW op \in A PROVE op \in Logged <=> op.seq <= LoggedOf(a)
  <2>1. op \in Logged => op \in Of(a, Logged)
    BY <1>7 DEF Of
  <2>2. op \in Of(a, Logged) => op \in Logged
    BY DEF Of
  <2>3. QED
    BY <2>1, <2>2, <1>3, <1>6
<1>9. QED
  BY <1>2, <1>3, <1>5, <1>6, <1>7, <1>8 DEF a, A

\* Numbers above k, of a run of indices, are ranked from k.
LEMMA RanksAbove ==
  ASSUME NEW n \in Nat, NEW k \in Nat, NEW K, K = {i \in 1..n : i > k},
         IsFiniteSet(K), NEW m \in 1..Cardinality(K)
  PROVE  Ranked(K, m) = k + m /\ k + m \in 1..n
<1>1. K \in SUBSET Nat
  OBVIOUS
<1>2. Ranked(K, m) \in K /\ Rank(K, Ranked(K, m)) = m - 1
  BY <1>1, Ranks
<1> DEFINE r == Ranked(K, m)
<1>3. r \in 1..n /\ r > k
  BY <1>2
<1> HIDE DEF r
<1>4. {j \in K : j < r} = k + 1 .. r - 1
  BY <1>3
<1>5. Cardinality(k + 1 .. r - 1) = r - 1 - k
  <2>1. k + 1 \in Int /\ r - 1 \in Int
    BY <1>3
  <2>2. Cardinality(k + 1 .. r - 1)
            = IF k + 1 > r - 1 THEN 0 ELSE (r - 1) - (k + 1) + 1
    BY <2>1, FS_Interval
  <2>3. QED
    BY <2>2, <1>3
<1>6. Rank(K, r) = r - 1 - k
  BY <1>4, <1>5 DEF Rank
<1>7. Rank(K, r) = m - 1
  BY <1>2 DEF r
<1>8. m \in Nat
  <2>1. Cardinality(K) \in Nat
    BY FS_CardinalityType
  <2>2. QED
    BY <2>1
<1>9. r = k + m
  BY <1>3, <1>6, <1>7, <1>8
<1>10. QED
  BY <1>3, <1>9 DEF r

\* The service takes a run of a tab's operations that leaves no gap.
LEMMA ValidWithoutGap ==
  ASSUME IInv, NEW t \in Tabs, HoldsOwn(t), ContextOK(t),
         NEW batch \in Seq(Ops), Run(batch), Range(batch) \subseteq authored[t],
         batch[1].seq <= LoggedOf(ActorOf[t]) + 1
  PROVE  Valid(batch)
<1> DEFINE a == ActorOf[t]
           L == LoggedOf(a)
           s == batch[1].seq
           F == Fresh(batch)
           K == Kept(batch)
           k == L + 1 - s
<1>1. /\ a \in Actors /\ L \in Nat
      /\ \A op \in authored[t] : op \in Ops /\ op.actor = a
                                 /\ (op \in Logged <=> op.seq <= L)
      /\ \A p, q \in authored[t] : p.seq = q.seq => p = q
  BY Mine
<1>2. Len(batch) \in Nat /\ \A i \in 1..Len(batch) : batch[i] \in authored[t]
  BY RangeEquality
<1>3. 1 \in 1..Len(batch) /\ \A i \in 1..Len(batch) : batch[i].seq = s + i - 1
  BY <1>2 DEF Run
<1>4. s \in Nat
  BY <1>1, <1>2, <1>3, OpIs
<1>5. /\ F \in Seq(Ops) /\ IsFiniteSet(K)
      /\ Len(F) = Cardinality(K)
      /\ \A n \in 1..Len(F) : F[n] = batch[Ranked(K, n)]
      /\ Range(F) = Range(batch) \ Logged
  BY FreshIs
<1>6. s <= L + 1
  OBVIOUS
<1>7. K = {i \in 1..Len(batch) : batch[i] \notin Logged}
  BY DEF Kept
<1> HIDE DEF L, s, F, K
<1>8. k \in Nat /\ s + k = L + 1
  BY <1>1, <1>4, <1>6
<1>9. ASSUME NEW i \in 1..Len(batch) PROVE batch[i] \notin Logged <=> i > k
  <2>1. batch[i] \in Logged <=> s + i - 1 <= L
    BY <1>1, <1>2, <1>3
  <2>2. QED
    BY <2>1, <1>1, <1>4, <1>8
<1>10. K = {i \in 1..Len(batch) : i > k}
  BY <1>7, <1>9
<1> HIDE DEF k
<1>11. ASSUME NEW m \in 1..Len(F)
       PROVE  F[m] \in authored[t] /\ F[m].seq = L + m
  <2>1. m \in 1..Cardinality(K)
    BY <1>5
  <2>2. Ranked(K, m) = k + m /\ k + m \in 1..Len(batch)
    BY <2>1, <1>2, <1>5, <1>8, <1>10, RanksAbove
  <2>3. F[m] = batch[k + m]
    BY <2>2, <1>5
  <2>4. F[m].seq = s + (k + m) - 1
    BY <2>2, <2>3, <1>3
  <2>5. m \in Int /\ k \in Int
    BY <1>8
  <2>6. F[m].seq = L + m
    BY <2>4, <2>5, <1>1, <1>4, <1>8
  <2>7. QED
    BY <2>2, <2>3, <2>6, <1>2
<1>12. ASSUME NEW op \in Range(F), NEW logged \in Logged PROVE ~SameId(op, logged)
  <2>1. op \in authored[t] /\ op \notin Logged /\ op.actor = a
    BY <1>1, <1>5
  <2>2. logged.actor = a => logged \in authored[t]
    BY DEF HoldsOwn, Of, a
  <2>3. QED
    BY <2>1, <2>2, <1>1 DEF SameId
<1>13. ASSUME NEW i \in 1..Len(F), NEW b \in Actors
       PROVE  F[i].seen[b] <= LoggedOf(b) + (IF a = b THEN i - 1 ELSE 0)
  <2>1. F[i] \in authored[t] /\ F[i].seq = L + i
    BY <1>11
  <2>2. LoggedOf(b) \in Nat
    BY LoggedDense DEF IInv
  <2>3. CASE b = a
    <3>1. F[i].seen[b] = F[i].seq - 1
      BY <2>1, <2>3 DEF ContextOK, a
    <3>2. QED
      BY <3>1, <2>1, <2>3, <1>1 DEF L
  <2>4. CASE b # a
    <3>1. F[i].seen[b] <= LoggedOf(b)
      BY <2>1, <2>4 DEF ContextOK, a
    <3>2. QED
      BY <3>1, <2>2, <2>4
  <2>5. QED
    BY <2>3, <2>4
<1>14. ASSUME NEW i \in 1..Len(F)
       PROVE  F[i].actor = a /\ F[i].seq = Cardinality(Of(a, Logged)) + i
  BY <1>1, <1>11 DEF L, LoggedOf
<1>15. QED
  BY <1>12, <1>13, <1>14 DEF Valid, F, LoggedOf

----------------------------------------------------------------------------
(***************************************************************************)
(* Steps that leave part of a tab alone                                    *)
(***************************************************************************)

\* With the same commits, as many of every actor's operations are logged.
LEMMA SameLogged ==
  ASSUME commits' = commits
  PROVE  Logged' = Logged /\ \A b : LoggedOf(b)' = LoggedOf(b)
<1>1. Logged' = Logged
  BY SameLog
<1>2. QED
  BY <1>1 DEF LoggedOf, Of

\* What a tab typed and holds, when nothing more is on its way.
LEMMA HoldsOwnStays ==
  ASSUME NEW t \in Tabs, HoldsOwn(t), commits' = commits,
         authored'[t] = authored[t],
         driver'[t].replica = driver[t].replica,
         driver'[t].joined = driver[t].joined,
         Sent(t)' \subseteq Sent(t)
  PROVE  HoldsOwn(t)'
<1>1. Logged' = Logged
  BY SameLogged
<1>2. QED
  BY <1>1 DEF HoldsOwn, Dense, Of

\* What was typed on goes on being logged up to the context it names.
LEMMA ContextStays ==
  ASSUME NEW t \in Tabs, ContextOK(t), commits' = commits,
         authored'[t] = authored[t]
  PROVE  ContextOK(t)'
<1>1. \A b : LoggedOf(b)' = LoggedOf(b)
  BY SameLogged
<1>2. QED
  BY <1>1 DEF ContextOK

\* The watermarks of a tab stay honest while the log stands and no new answer is on its way.
LEMMA MarksStay ==
  ASSUME NEW t \in Tabs, MarksOK(t), commits' = commits,
         authored'[t] = authored[t],
         driver'[t].replica = driver[t].replica,
         driver'[t].acknowledged_seq = driver[t].acknowledged_seq,
         driver'[t].commit_seq = driver[t].commit_seq,
         driver'[t].submitted_through <= Cardinality(authored[t]),
         \A i \in 1..Len(down'[t]) : \E j \in 1..Len(down[t]) : down'[t][i] = down[t][j]
  PROVE  MarksOK(t)'
<1>1. \A b : LoggedOf(b)' = LoggedOf(b)
  BY SameLogged
<1>2. \A i \in 1..Len(down'[t]) : down'[t][i].kind = "accepted" =>
          \A n \in down'[t][i].ids : n <= LoggedOf(ActorOf[t])
  BY DEF MarksOK
<1>3. QED
  BY <1>1, <1>2 DEF MarksOK

\* A tab is still told of every commit while nothing reaches or leaves its socket.
LEMMA ToldStays ==
  ASSUME NEW t \in Tabs, ToldInOrder(t), commits' = commits,
         authored[t] \subseteq authored'[t],
         driver[t].replica \subseteq driver'[t].replica,
         down'[t] = down[t], conn'[t] = "joined" => conn[t] = "joined"
  PROVE  ToldInOrder(t)'
<1>1. ASSUME NEW op, NEW n, ToldBy(t, op, n) PROVE ToldBy(t, op, n)'
  BY <1>1 DEF ToldBy, Holds, Unwelcomed, BringsOf, LogAt
<1>2. Logged' = Logged
  BY SameLogged
<1>3. ASSUME NEW i \in 1..Len(down'[t]), down'[t][i].kind \in {"committed", "accepted"},
             NEW op \in LogAt(commits', down'[t][i].commit)
      PROVE  ToldBy(t, op, i)'
  BY <1>1, <1>3 DEF ToldInOrder
<1>4. ASSUME conn'[t] = "joined", NEW op \in Logged'
      PROVE  ToldBy(t, op, Len(down[t]))'
  BY <1>1, <1>2, <1>4 DEF ToldInOrder
<1>5. QED
  BY <1>3, <1>4 DEF ToldInOrder

\* The phase of a driver agrees with its socket while neither moves.
LEMMA PhaseStays ==
  ASSUME NEW t \in Tabs, PhaseOK(t), conn'[t] = conn[t], down'[t] = down[t],
         up'[t] = up[t], driver'[t].phase = driver[t].phase
  PROVE  PhaseOK(t)'
BY DEF PhaseOK, Unwelcomed

\* No gap opens in what a tab has sent while it sends nothing.
LEMMA NoGapStays ==
  ASSUME NEW t \in Tabs, NoGap(t), commits' = commits,
         conn'[t] = conn[t], down'[t] = down[t], up'[t] = up[t],
         driver'[t].blocked = driver[t].blocked,
         driver'[t].submitted_through = driver[t].submitted_through
  PROVE  NoGap(t)'
<1>1. \A b : LoggedOf(b)' = LoggedOf(b)
  BY SameLogged
<1>2. QED
  BY <1>1 DEF NoGap, Broken, StorageAt, Rejected, Carried

\* Refusals stay those of the store while none is answered.
LEMMA RefusalsStay ==
  ASSUME NEW t \in Tabs, RefusalsOK(t), faults'.store = faults.store,
         down'[t] = down[t], driver'[t].blocked = driver[t].blocked,
         driver'[t].refusals = driver[t].refusals,
         driver'[t].phase = "closed" => driver[t].phase = "closed"
  PROVE  RefusalsOK(t)'
BY DEF RefusalsOK, StorageAt, Rejected

\* A tab the step does not touch.
LEMMA OwnStays ==
  ASSUME NEW t \in Tabs, Own(t), commits' = commits, faults'.store = faults.store,
         conn'[t] = conn[t], up'[t] = up[t], old'[t] = old[t], down'[t] = down[t],
         driver'[t] = driver[t], authored'[t] = authored[t]
  PROVE  Own(t)'
<1>1. HoldsOwn(t) /\ ContextOK(t) /\ MarksOK(t) /\ PhaseOK(t)
      /\ ToldInOrder(t) /\ NoGap(t) /\ RefusalsOK(t)
  BY DEF Own
<1>2. HoldsOwn(t)'
  <2>1. Sent(t)' = Sent(t)
    BY DEF Sent
  <2>2. QED
    BY <1>1, <2>1, HoldsOwnStays
<1>3. ContextOK(t)'
  BY <1>1, ContextStays
<1>4. MarksOK(t)'
  BY <1>1, MarksStay DEF MarksOK
<1>5. PhaseOK(t)'
  BY <1>1, PhaseStays
<1>6. ToldInOrder(t)'
  BY <1>1, ToldStays
<1>7. NoGap(t)'
  BY <1>1, NoGapStays
<1>8. RefusalsOK(t)'
  BY <1>1, RefusalsStay
<1>9. QED
  BY <1>2, <1>3, <1>4, <1>5, <1>6, <1>7, <1>8 DEF Own

\* A step of one tab has only that tab to keep.
LEMMA OwnAlone ==
  ASSUME NEW t \in Tabs, OInv, Alone(t), commits' = commits,
         faults'.store = faults.store, Own(t)'
  PROVE  OInv'
<1>1. ASSUME NEW u \in Tabs \ {t} PROVE Own(u)'
  <2>1. /\ Own(u) /\ conn'[u] = conn[u] /\ up'[u] = up[u] /\ old'[u] = old[u]
        /\ down'[u] = down[u] /\ driver'[u] = driver[u] /\ authored'[u] = authored[u]
    BY DEF OInv, Alone
  <2>2. QED
    BY <2>1, OwnStays
<1>2. QED
  BY <1>1 DEF OInv

----------------------------------------------------------------------------
(***************************************************************************)
(* The steps of a client                                                   *)
(***************************************************************************)

\* The parts of the invariant about a tab.
LEMMA OwnTab ==
  ASSUME OInv, NEW t \in Tabs
  PROVE  HoldsOwn(t) /\ ContextOK(t) /\ MarksOK(t) /\ PhaseOK(t)
         /\ ToldInOrder(t) /\ NoGap(t) /\ RefusalsOK(t)
BY DEF OInv, Own

\* Typing: the operation is the next of its actor, in the context of what is
\* logged and what the tab typed before.
LEMMA AuthorKeepsOwn ==
  ASSUME IInv, OInv, NEW t \in Tabs, Author(t)
  PROVE  OInv'
<1> DEFINE a == ActorOf[t]
           A == authored[t]
           R == driver[t].replica
<1>1. /\ TypeOK' /\ Alone(t) /\ driver[t].joined
      /\ UNCHANGED <<commits, conn, up, old, down, faults>>
      /\ \E op \in Ops :
                /\ op.actor = a /\ op.seq = Highest(a, R) + 1
                /\ op.seen = Observing(R)
                /\ driver'[t] = [driver[t] EXCEPT !.replica = R \cup {op}]
                /\ authored'[t] = A \cup {op}
  BY AuthorDoes DEF wire
<1>2. PICK op \in Ops :
                /\ op.actor = a /\ op.seq = Highest(a, R) + 1
                /\ op.seen = Observing(R)
                /\ driver'[t] = [driver[t] EXCEPT !.replica = R \cup {op}]
                /\ authored'[t] = A \cup {op}
  BY <1>1
<1>3. HoldsOwn(t) /\ ContextOK(t) /\ MarksOK(t) /\ PhaseOK(t)
      /\ ToldInOrder(t) /\ NoGap(t) /\ RefusalsOK(t)
  BY OwnTab
<1>4. /\ driver[t] \in Drivers /\ R \in SUBSET Ops /\ A \in SUBSET Ops
  BY Typed, DriverIs DEF IInv
<1>5. /\ driver'[t].replica = R \cup {op}
      /\ driver'[t].joined = driver[t].joined
      /\ driver'[t].phase = driver[t].phase
      /\ driver'[t].acknowledged_seq = driver[t].acknowledged_seq
      /\ driver'[t].submitted_through = driver[t].submitted_through
      /\ driver'[t].blocked = driver[t].blocked
      /\ driver'[t].refusals = driver[t].refusals
      /\ driver'[t].commit_seq = driver[t].commit_seq
  BY <1>2, <1>4 DEF Drivers
<1>6. /\ a \in Actors /\ Cardinality(A) \in Nat
      /\ \A o \in A : o.actor = a
  BY <1>3, Mine
<1>7. Of(a, A) = A /\ Of(a, R) = A /\ Dense(A) /\ R \subseteq Logged \cup A
      /\ Of(a, Logged) \subseteq A
      /\ \A batch \in Sent(t) : Range(batch) \subseteq A
  BY <1>3 DEF HoldsOwn
<1>8. Highest(a, R) = Cardinality(A)
  BY <1>4, <1>7, HighestOfDense
<1>9. Logged' = Logged /\ \A b : LoggedOf(b)' = LoggedOf(b)
  BY <1>1, SameLogged
<1> HIDE DEF a, A, R
<1>10. op.seq = Cardinality(A) + 1
  BY <1>2, <1>8
<1>11. Dense(A \cup {op}) /\ Cardinality(A \cup {op}) = Cardinality(A) + 1
  BY <1>4, <1>7, <1>10, DenseAdd
<1>12. HoldsOwn(t)'
  <2>1. Of(a, A \cup {op}) = A \cup {op} /\ Of(a, R \cup {op}) = A \cup {op}
    BY <1>2, <1>7 DEF Of
  <2>2. Sent(t)' = Sent(t)
    BY <1>1 DEF Sent
  <2>3. R \cup {op} \subseteq Logged \cup (A \cup {op}) /\ Of(a, Logged) \subseteq A \cup {op}
    BY <1>7
  <2>4. /\ authored'[t] = A \cup {op} /\ driver'[t].replica = R \cup {op}
        /\ Dense(authored'[t]) /\ driver'[t].joined
    BY <1>1, <1>2, <1>5, <1>11
  <2>5. /\ Dense(authored'[t])
        /\ Of(ActorOf[t], authored'[t]) = authored'[t]
        /\ Of(ActorOf[t], driver'[t].replica) = authored'[t]
        /\ driver'[t].replica \subseteq Logged' \cup authored'[t]
        /\ Of(ActorOf[t], Logged') \subseteq authored'[t]
        /\ \A batch \in Sent(t)' : Range(batch) \subseteq authored'[t]
    BY <2>1, <2>2, <2>3, <2>4, <1>7, <1>9 DEF a
  <2>6. QED
    BY <2>4, <2>5 DEF HoldsOwn, Dense, Of
<1>13. ContextOK(t)'
  <2>1. op.seen[a] = op.seq - 1
    BY <1>2, <1>6, <1>8, <1>10 DEF Observing
  <2>2. ASSUME NEW b \in Actors, b # a PROVE op.seen[b] <= LoggedOf(b)
    <3>1. op.seen[b] = Highest(b, R)
      BY <1>2 DEF Observing
    <3>2. Of(b, R) \subseteq Of(b, Logged)
      BY <1>6, <1>7, <2>2 DEF Of
    <3>3. /\ IsFiniteSet(Of(b, Logged)) /\ LoggedOf(b) \in Nat
          /\ \A o \in Of(b, Logged) : o.seq \in 1..LoggedOf(b)
      BY LoggedDense DEF IInv
    <3>4. IsFiniteSet(Of(b, R))
      BY <3>2, <3>3, FS_Subset
    <3>5. Highest(b, R) = 0 \/ \E o \in Of(b, R) : o.seq = Highest(b, R)
      BY <1>4, <3>4, HighestProps
    <3>6. QED
      BY <3>1, <3>2, <3>3, <3>5
  <2>3. \A o \in authored'[t] : o \in A \/ o = op
    BY <1>2
  <2>4. ASSUME NEW o \in authored'[t]
        PROVE  /\ o.seen[ActorOf[t]] = o.seq - 1
               /\ \A b \in Actors : b # ActorOf[t] => o.seen[b] <= LoggedOf(b)'
    BY <2>1, <2>2, <2>3, <1>3, <1>9 DEF ContextOK, a, A
  <2>5. QED
    BY <2>4 DEF ContextOK
<1>14. MarksOK(t)'
  <2>1. driver'[t].submitted_through <= Cardinality(authored'[t])
    <3>1. driver[t].submitted_through <= Cardinality(A) /\ driver[t].submitted_through \in Nat
      BY <1>3, <1>4, DriverIs DEF MarksOK, A
    <3>2. QED
      BY <3>1, <1>2, <1>5, <1>6, <1>11
  <2>2. LogAt(commits', driver'[t].commit_seq) \subseteq driver'[t].replica
    BY <1>1, <1>3, <1>5 DEF MarksOK, R
  <2>3. /\ driver'[t].acknowledged_seq <= LoggedOf(ActorOf[t])'
        /\ \A i \in 1..Len(down'[t]) : down'[t][i].kind = "accepted" =>
               \A n \in down'[t][i].ids : n <= LoggedOf(ActorOf[t])'
    BY <1>1, <1>3, <1>5, <1>9 DEF MarksOK
  <2>4. QED
    BY <2>1, <2>2, <2>3 DEF MarksOK
<1>15. PhaseOK(t)'
  BY <1>1, <1>3, <1>5, PhaseStays
<1>16. ToldInOrder(t)'
  <2>1. authored[t] \subseteq authored'[t] /\ driver[t].replica \subseteq driver'[t].replica
    BY <1>2, <1>5 DEF A, R
  <2>2. QED
    BY <2>1, <1>1, <1>3, ToldStays
<1>17. NoGap(t)'
  BY <1>1, <1>3, <1>5, NoGapStays
<1>18. RefusalsOK(t)'
  BY <1>1, <1>3, <1>5, RefusalsStay
<1>19. Own(t)'
  BY <1>12, <1>13, <1>14, <1>15, <1>16, <1>17, <1>18 DEF Own
<1>20. QED
  BY <1>1, <1>19, OwnAlone

\* A new socket: nothing is on its way, and nothing is live.
LEMMA BeginKeepsOwn ==
  ASSUME IInv, OInv, NEW t \in Tabs, Begin(t)
  PROVE  OInv'
<1>1. /\ Alone(t) /\ UNCHANGED <<commits, up, old, down, authored, faults>>
      /\ conn[t] = "none" /\ conn'[t] = "opening"
      /\ driver'[t].phase \notin {"live", "closed"}
      /\ driver'[t].submitted_through = driver[t].acknowledged_seq
      /\ driver'[t].joined = driver[t].joined
      /\ driver'[t].replica = driver[t].replica
      /\ driver'[t].acknowledged_seq = driver[t].acknowledged_seq
      /\ driver'[t].blocked = driver[t].blocked
      /\ driver'[t].refusals = driver[t].refusals
      /\ driver'[t].commit_seq = driver[t].commit_seq
  BY BeginDoes
<1>2. HoldsOwn(t) /\ ContextOK(t) /\ MarksOK(t) /\ PhaseOK(t)
      /\ ToldInOrder(t) /\ NoGap(t) /\ RefusalsOK(t)
  BY OwnTab
<1>3. Len(down[t]) = 0 /\ Len(up[t]) = 0
  BY <1>1, <1>2 DEF PhaseOK
<1>4. HoldsOwn(t)'
  <2>1. Sent(t)' = Sent(t)
    BY <1>1 DEF Sent
  <2>2. QED
    BY <2>1, <1>1, <1>2, HoldsOwnStays
<1>5. ContextOK(t)'
  BY <1>1, <1>2, ContextStays
<1>6. driver[t].acknowledged_seq <= LoggedOf(ActorOf[t])
      /\ driver[t].acknowledged_seq <= Cardinality(authored[t])
  <2>1. /\ LoggedOf(ActorOf[t]) \in Nat /\ Cardinality(authored[t]) \in Nat
        /\ LoggedOf(ActorOf[t]) <= Cardinality(authored[t])
    BY <1>2, Mine
  <2>2. driver[t].acknowledged_seq <= LoggedOf(ActorOf[t])
        /\ driver[t].acknowledged_seq \in Nat
    BY <1>2, Typed, DriverIs DEF MarksOK, IInv
  <2>3. QED
    BY <2>1, <2>2
<1>7. MarksOK(t)'
  BY <1>1, <1>2, <1>6, MarksStay
<1>8. PhaseOK(t)'
  BY <1>1, <1>3 DEF PhaseOK, Unwelcomed
<1>9. ToldInOrder(t)'
  BY <1>1, <1>2, ToldStays
<1>10. NoGap(t)'
  <2>1. LoggedOf(ActorOf[t])' = LoggedOf(ActorOf[t])
    BY <1>1, SameLogged
  <2>2. driver'[t].submitted_through <= LoggedOf(ActorOf[t])' /\ 1..Len(up'[t]) = {}
    BY <2>1, <1>1, <1>3, <1>6
  <2>3. QED
    BY <2>2 DEF NoGap
<1>11. RefusalsOK(t)'
  BY <1>1, <1>2, RefusalsStay
<1>12. Own(t)'
  BY <1>4, <1>5, <1>7, <1>8, <1>9, <1>10, <1>11 DEF Own
<1>13. QED
  BY <1>1, <1>12, OwnAlone

\* A connection is registered: the welcome brings all there is.
LEMMA JoinKeepsOwn ==
  ASSUME IInv, OInv, NEW t \in Tabs, Join(t)
  PROVE  OInv'
<1> DEFINE w == WelcomeAs(Len(commits))
<1>1. /\ Alone(t) /\ UNCHANGED <<commits, up, old, driver, authored, faults>>
      /\ conn[t] = "opening" /\ conn'[t] = "joined"
      /\ down'[t] = <<w>>
  BY JoinDoes
<1>2. HoldsOwn(t) /\ ContextOK(t) /\ MarksOK(t) /\ PhaseOK(t)
      /\ ToldInOrder(t) /\ NoGap(t) /\ RefusalsOK(t)
  BY OwnTab
<1>3. Len(down[t]) = 0 /\ Len(up[t]) = 0 /\ driver[t].phase # "live"
  BY <1>1, <1>2 DEF PhaseOK
<1>4. w.kind = "welcome" /\ w.commit = Len(commits)
  BY DEF WelcomeAs
<1>5. /\ Len(down'[t]) = 1 /\ down'[t][1] = w
      /\ \A i \in 1..Len(down'[t]) : i = 1 /\ down'[t][i] = w
  BY <1>1
<1>6. w # Rejected("storage") /\ w # Rejected("conflict")
  BY <1>4 DEF Rejected
<1> HIDE DEF w
<1>7. HoldsOwn(t)'
  <2>1. Sent(t)' = Sent(t)
    BY <1>1 DEF Sent
  <2>2. QED
    BY <2>1, <1>1, <1>2, HoldsOwnStays
<1>8. ContextOK(t)'
  BY <1>1, <1>2, ContextStays
<1>9. Logged' = Logged /\ LoggedOf(ActorOf[t])' = LoggedOf(ActorOf[t])
  BY <1>1, SameLogged
<1>10. MarksOK(t)'
  <2>1. \A i \in 1..Len(down'[t]) : down'[t][i].kind # "accepted"
    BY <1>4, <1>5
  <2>2. QED
    BY <2>1, <1>1, <1>2, <1>9 DEF MarksOK
<1>11. PhaseOK(t)'
  <2>1. /\ 2..Len(down'[t]) = {} /\ Len(up'[t]) = 0 /\ driver'[t].phase # "live"
        /\ conn'[t] = "joined"
    BY <1>1, <1>3, <1>5
  <2>2. QED
    BY <2>1 DEF PhaseOK
<1>12. ToldInOrder(t)'
  <2>1. \A i \in 1..Len(down'[t]) : down'[t][i].kind \notin {"committed", "accepted"}
    BY <1>4, <1>5
  <2>2. BringsOf(commits', down'[t][1]) = Logged'
    BY <1>1, <1>4, <1>5 DEF BringsOf, LogAt, Logged, LoggedAt
  <2>3. 1 \in 1..Len(down'[t])
    BY <1>5
  <2>4. \A op \in Logged' : ToldBy(t, op, Len(down[t]))'
    BY <2>2, <2>3 DEF ToldBy
  <2>5. QED
    BY <2>1, <2>4 DEF ToldInOrder
<1>13. NoGap(t)'
  <2>1. SUFFICES ASSUME ~Broken(t)'
                 PROVE  driver'[t].submitted_through <= LoggedOf(ActorOf[t])'
    <3>1. 1..Len(up'[t]) = {}
      BY <1>1, <1>3
    <3>2. QED
      BY <3>1 DEF NoGap
  <2>2. ~Broken(t)
    BY <2>1, <1>1, <1>3 DEF Broken
  <2>3. driver[t].submitted_through <= LoggedOf(ActorOf[t])
        \/ Carried(t, driver[t].submitted_through, Len(up[t]))
    BY <2>2, <1>1, <1>2 DEF NoGap
  <2>4. ~Carried(t, driver[t].submitted_through, Len(up[t]))
    BY <1>3 DEF Carried
  <2>5. QED
    BY <2>3, <2>4, <1>1, <1>9
<1>14. RefusalsOK(t)'
  <2>1. \A i \in 1..Len(down'[t]) :
            down'[t][i] # Rejected("storage") /\ down'[t][i] # Rejected("conflict")
    BY <1>5, <1>6
  <2>2. QED
    BY <2>1, <1>1, <1>2 DEF RefusalsOK, StorageAt, Rejected
<1>15. Own(t)'
  BY <1>7, <1>8, <1>10, <1>11, <1>12, <1>13, <1>14 DEF Own
<1>16. QED
  BY <1>1, <1>15, OwnAlone

\* The end of an old socket takes frames away and nothing else.
LEMMA LeaveKeepsOwn ==
  ASSUME IInv, OInv, NEW t \in Tabs, Leave(t)
  PROVE  OInv'
<1>1. /\ Alone(t) /\ UNCHANGED <<commits, conn, up, down, driver, authored, faults>>
      /\ old'[t] = <<>>
  BY LeaveKeeps DEF Leave
<1>2. HoldsOwn(t) /\ ContextOK(t) /\ MarksOK(t) /\ PhaseOK(t)
      /\ ToldInOrder(t) /\ NoGap(t) /\ RefusalsOK(t)
  BY OwnTab
<1>3. HoldsOwn(t)'
  <2>1. Range(<<>>) = {}
    BY DEF Range
  <2>2. Sent(t)' \subseteq Sent(t)
    BY <1>1, <2>1 DEF Sent
  <2>3. QED
    BY <2>2, <1>1, <1>2, HoldsOwnStays
<1>4. ContextOK(t)'
  BY <1>1, <1>2, ContextStays
<1>5. MarksOK(t)'
  <2>1. driver'[t].submitted_through <= Cardinality(authored[t])
    BY <1>1, <1>2 DEF MarksOK
  <2>2. QED
    BY <2>1, <1>1, <1>2, MarksStay
<1>6. PhaseOK(t)'
  BY <1>1, <1>2, PhaseStays
<1>7. ToldInOrder(t)'
  BY <1>1, <1>2, ToldStays
<1>8. NoGap(t)'
  BY <1>1, <1>2, NoGapStays
<1>9. RefusalsOK(t)'
  BY <1>1, <1>2, RefusalsStay
<1>10. Own(t)'
  BY <1>3, <1>4, <1>5, <1>6, <1>7, <1>8, <1>9 DEF Own
<1>11. QED
  BY <1>1, <1>10, OwnAlone

\* A lost or discarded socket: what it carried may still arrive, and what is
\* not acknowledged will be sent again.
LEMMA CloseKeepsOwn ==
  ASSUME IInv, OInv, NEW t \in Tabs, DropDoomed(t) \/ Drop(t)
  PROVE  OInv'
<1>1. Close(t) /\ faults'.store = faults.store
  BY CloseKeeps
<1>2. /\ Alone(t) /\ UNCHANGED <<commits, authored>>
      /\ conn'[t] = "none" /\ up'[t] = <<>> /\ down'[t] = <<>> /\ old'[t] = up[t]
      /\ driver'[t].phase # "live"
      /\ driver'[t].phase = "closed" => driver[t].phase = "closed"
      /\ driver'[t].submitted_through = driver[t].acknowledged_seq
      /\ driver'[t].joined = driver[t].joined
      /\ driver'[t].replica = driver[t].replica
      /\ driver'[t].acknowledged_seq = driver[t].acknowledged_seq
      /\ driver'[t].blocked = driver[t].blocked
      /\ driver'[t].refusals = driver[t].refusals
      /\ driver'[t].commit_seq = driver[t].commit_seq
  BY <1>1, CloseDoes
<1>3. HoldsOwn(t) /\ ContextOK(t) /\ MarksOK(t) /\ RefusalsOK(t)
  BY OwnTab
<1>4. Len(down'[t]) = 0 /\ Len(up'[t]) = 0
  BY <1>2
<1>5. HoldsOwn(t)'
  <2>1. Range(<<>>) = {}
    BY DEF Range
  <2>2. Sent(t)' \subseteq Sent(t)
    BY <1>2, <2>1 DEF Sent
  <2>3. QED
    BY <2>2, <1>2, <1>3, HoldsOwnStays
<1>6. ContextOK(t)'
  BY <1>2, <1>3, ContextStays
<1>7. MarksOK(t)'
  <2>1. /\ LoggedOf(ActorOf[t]) \in Nat /\ Cardinality(authored[t]) \in Nat
        /\ LoggedOf(ActorOf[t]) <= Cardinality(authored[t])
    BY <1>3, Mine
  <2>2. driver[t].acknowledged_seq <= LoggedOf(ActorOf[t])
        /\ driver[t].acknowledged_seq \in Nat
    BY <1>3, Typed, DriverIs DEF MarksOK, IInv
  <2>3. driver'[t].submitted_through <= Cardinality(authored[t])
    BY <2>1, <2>2, <1>2
  <2>4. \A i \in 1..Len(down'[t]) : \E j \in 1..Len(down[t]) : down'[t][i] = down[t][j]
    BY <1>4
  <2>5. QED
    BY <2>3, <2>4, <1>2, <1>3, MarksStay
<1>8. PhaseOK(t)'
  BY <1>2, <1>4 DEF PhaseOK, Unwelcomed
<1>9. ToldInOrder(t)'
  BY <1>2, <1>4 DEF ToldInOrder
<1>10. NoGap(t)'
  BY <1>2 DEF NoGap
<1>11. RefusalsOK(t)'
  <2>1. 1..Len(down'[t]) = {}
    BY <1>4
  <2>2. QED
    BY <2>1, <1>1, <1>2, <1>3 DEF RefusalsOK
<1>12. Own(t)'
  BY <1>5, <1>6, <1>7, <1>8, <1>9, <1>10, <1>11 DEF Own
<1>13. QED
  BY <1>1, <1>2, <1>12, OwnAlone

\* A restart empties every socket.
LEMMA RestartKeepsOwn ==
  ASSUME IInv, OInv, Restart
  PROVE  OInv'
<1>1. /\ UNCHANGED <<commits, down, driver, authored>>
      /\ faults'.store = faults.store
      /\ \A t \in Tabs :
                /\ up'[t] = <<>> /\ old'[t] = <<>>
                /\ conn'[t] = IF conn[t] = "joined" THEN "dead" ELSE conn[t]
  BY RestartDoes
<1>2. ASSUME NEW t \in Tabs PROVE Own(t)'
  <2>1. HoldsOwn(t) /\ ContextOK(t) /\ MarksOK(t) /\ PhaseOK(t)
        /\ ToldInOrder(t) /\ NoGap(t) /\ RefusalsOK(t)
    BY OwnTab
  <2>2. Len(up'[t]) = 0 /\ conn'[t] # "joined"
        /\ (conn'[t] \in {"none", "opening"} => conn'[t] = conn[t])
    BY <1>1
  <2>3. HoldsOwn(t)'
    <3>1. Range(<<>>) = {}
      BY DEF Range
    <3>2. Sent(t)' \subseteq Sent(t)
      BY <1>1, <3>1 DEF Sent
    <3>3. QED
      BY <3>2, <1>1, <2>1, HoldsOwnStays
  <2>4. ContextOK(t)'
    BY <1>1, <2>1, ContextStays
  <2>5. MarksOK(t)'
    <3>1. driver'[t].submitted_through <= Cardinality(authored[t])
      BY <1>1, <2>1 DEF MarksOK
    <3>2. QED
      BY <3>1, <1>1, <2>1, MarksStay
  <2>6. PhaseOK(t)'
    BY <1>1, <2>1, <2>2 DEF PhaseOK, Unwelcomed
  <2>7. ToldInOrder(t)'
    BY <1>1, <2>1, <2>2, ToldStays
  <2>8. NoGap(t)'
    <3>1. SUFFICES ASSUME conn'[t] = "opening", ~Broken(t)'
                   PROVE  driver'[t].submitted_through <= LoggedOf(ActorOf[t])'
      BY <2>2 DEF NoGap
    <3>2. LoggedOf(ActorOf[t])' = LoggedOf(ActorOf[t])
      BY <1>1, SameLogged
    <3>3. ~Broken(t) /\ conn[t] = "opening"
      BY <1>1, <2>2, <3>1 DEF Broken, StorageAt, Rejected
    <3>4. driver[t].submitted_through <= LoggedOf(ActorOf[t])
          \/ Carried(t, driver[t].submitted_through, Len(up[t]))
      BY <3>3, <2>1 DEF NoGap
    <3>5. ~Carried(t, driver[t].submitted_through, Len(up[t]))
      BY <3>3, <2>1 DEF Carried, PhaseOK
    <3>6. QED
      BY <3>2, <3>4, <3>5, <1>1
  <2>9. RefusalsOK(t)'
    BY <1>1, <2>1, RefusalsStay
  <2>10. QED
    BY <2>3, <2>4, <2>5, <2>6, <2>7, <2>8, <2>9 DEF Own
<1>3. QED
  BY <1>2 DEF OInv

\* It holds at first.
LEMMA InitOInv ==
  ASSUME Init
  PROVE  OInv
<1>1. /\ commits = <<>> /\ conn = [t \in Tabs |-> "none"]
      /\ up = [t \in Tabs |-> <<>>] /\ old = [t \in Tabs |-> <<>>]
      /\ down = [t \in Tabs |-> <<>>] /\ driver = [t \in Tabs |-> NewDriver]
      /\ authored = [t \in Tabs |-> {}] /\ faults = [drops |-> 0, store |-> 0]
  BY DEF Init
<1>2. ASSUME NEW t \in Tabs PROVE Own(t)
  <2>1. /\ Len(commits) = 0 /\ conn[t] = "none"
        /\ up[t] = <<>> /\ old[t] = <<>> /\ down[t] = <<>>
        /\ driver[t].phase = "idle" /\ driver[t].replica = {}
        /\ driver[t].acknowledged_seq = 0 /\ driver[t].submitted_through = 0
        /\ driver[t].blocked = "no" /\ driver[t].refusals = 0
        /\ driver[t].commit_seq = 0
        /\ authored[t] = {} /\ faults.store = 0
    BY <1>1 DEF NewDriver
  <2>2. Len(up[t]) = 0 /\ Len(down[t]) = 0
    BY <2>1
  <2>3. Logged = {}
    BY <2>1 DEF Logged, LoggedAt
  <2>4. Cardinality({}) = 0
    BY FS_EmptySet
  <2>5. LoggedOf(ActorOf[t]) = 0
    BY <2>3, <2>4 DEF LoggedOf, Of
  <2>6. HoldsOwn(t)
    <3>1. Sent(t) = {}
      BY <2>1 DEF Sent, Range
    <3>2. {op.seq : op \in {}} = 1..0 /\ 0 \in Nat
      OBVIOUS
    <3>3. QED
      BY <2>1, <2>3, <3>1, <3>2 DEF HoldsOwn, Dense, Of
  <2>7. ContextOK(t)
    BY <2>1 DEF ContextOK
  <2>8. MarksOK(t)
    BY <2>1, <2>2, <2>4, <2>5 DEF MarksOK, LogAt
  <2>9. PhaseOK(t)
    BY <2>1, <2>2 DEF PhaseOK, Unwelcomed
  <2>10. ToldInOrder(t)
    BY <2>1, <2>2 DEF ToldInOrder
  <2>11. NoGap(t)
    BY <2>1 DEF NoGap
  <2>12. RefusalsOK(t)
    BY <2>1, <2>2 DEF RefusalsOK
  <2>13. QED
    BY <2>6, <2>7, <2>8, <2>9, <2>10, <2>11, <2>12 DEF Own
<1>3. QED
  BY <1>2 DEF OInv

\* One sequence after another, index by index.
LEMMA Joined ==
  ASSUME NEW S, NEW p \in Seq(S), NEW q \in Seq(S)
  PROVE  /\ p \o q \in Seq(S) /\ Len(p \o q) = Len(p) + Len(q)
         /\ \A i \in 1..Len(p) : (p \o q)[i] = p[i]
         /\ \A i \in 1..Len(q) : (p \o q)[Len(p) + i] = q[i]
         /\ \A i \in 1..Len(p \o q) :
                i \in 1..Len(p) \/ \E k \in 1..Len(q) : i = Len(p) + k
<1>1. Len(p) \in Nat /\ Len(q) \in Nat
  OBVIOUS
<1>2. /\ p \o q \in Seq(S) /\ Len(p \o q) = Len(p) + Len(q)
      /\ \A i \in 1..(Len(p) + Len(q)) :
             (p \o q)[i] = IF i <= Len(p) THEN p[i] ELSE q[i - Len(p)]
  BY ConcatProperties
<1>3. ASSUME NEW i \in 1..Len(p) PROVE (p \o q)[i] = p[i]
  BY <1>1, <1>2
<1>4. ASSUME NEW i \in 1..Len(q) PROVE (p \o q)[Len(p) + i] = q[i]
  <2> DEFINE k == Len(p) + i
  <2>1. k \in 1..(Len(p) + Len(q)) /\ ~(k <= Len(p)) /\ k - Len(p) = i
    BY <1>1
  <2> HIDE DEF k
  <2>2. (p \o q)[k] = q[k - Len(p)]
    BY <2>1, <1>2
  <2>3. QED
    BY <2>1, <2>2 DEF k
<1>5. ASSUME NEW i \in 1..Len(p \o q), i \notin 1..Len(p)
      PROVE  \E k \in 1..Len(q) : i = Len(p) + k
  <2>1. i - Len(p) \in 1..Len(q) /\ i = Len(p) + (i - Len(p))
    BY <1>1, <1>2, <1>5
  <2>2. QED
    BY <2>1
<1>6. QED
  BY <1>2, <1>3, <1>4, <1>5

\* The outbox's cross-checks find nothing wrong: the replica holds all that
\* was typed, and no mark is beyond it.
LEMMA NothingRewritten ==
  ASSUME IInv, NEW t \in Tabs, HoldsOwn(t), MarksOK(t),
         NEW from \in {driver[t].submitted_through, driver[t].acknowledged_seq}
  PROVE  /\ from \in Nat
         /\ LocalAfter(t, from) = {op \in authored[t] : op.seq > from}
         /\ DenseAfter(t, from)
         /\ CrossCheck(t, driver[t], from) = driver[t].blocked
<1> DEFINE A == authored[t]
           N == Cardinality(A)
           T == LocalAfter(t, from)
<1>1. /\ A \in SUBSET Ops /\ N \in Nat /\ LoggedOf(ActorOf[t]) \in Nat
      /\ LoggedOf(ActorOf[t]) <= N
      /\ \A op \in A : op.seq \in 1..N
      /\ \A p, q \in A : p.seq = q.seq => p = q
      /\ \A k \in 1..N : \E op \in A : op.seq = k
  BY Mine
<1>2. driver[t] \in Drivers /\ driver[t].replica \in SUBSET Ops
  BY Typed, DriverIs DEF IInv
<1>3. driver[t].submitted_through \in Nat /\ driver[t].acknowledged_seq \in Nat
  BY <1>2, DriverIs
<1>4. from \in Nat /\ from <= N
  BY <1>1, <1>3 DEF MarksOK
<1>5. T = {op \in A : op.seq > from}
  BY DEF HoldsOwn, LocalAfter
<1>6. Highest(ActorOf[t], driver[t].replica) = N
  BY <1>2, HighestOfDense DEF HoldsOwn
<1> HIDE DEF A, N, T
<1>7. Seqs(T) = from + 1 .. N
  <2>1. ASSUME NEW op \in T PROVE op.seq \in from + 1 .. N
    BY <1>1, <1>4, <1>5
  <2>2. ASSUME NEW k \in from + 1 .. N PROVE \E op \in T : op.seq = k
    <3>1. k \in 1..N /\ k > from
      BY <1>1, <1>4
    <3>2. PICK op \in A : op.seq = k
      BY <3>1, <1>1
    <3>3. QED
      BY <3>1, <3>2, <1>5
  <2>3. QED
    BY <2>1, <2>2 DEF Seqs
<1>8. Cardinality(T) = N - from
  <2>1. T \in SUBSET Ops /\ \A p, q \in T : p.seq = q.seq => p = q
    BY <1>1, <1>5
  <2>2. QED
    BY <2>1, <1>1, <1>4, <1>7, Numbered
<1>9. from + Cardinality(T) = N
  BY <1>1, <1>4, <1>8
<1>10. DenseAfter(t, from)
  BY <1>7, <1>9 DEF DenseAfter, Seqs, T
<1>11. CrossCheck(t, driver[t], from) = driver[t].blocked
  <2>1. ~(Highest(ActorOf[t], driver[t].replica) < from)
    BY <1>1, <1>4, <1>6
  <2>2. QED
    BY <2>1, <1>10 DEF CrossCheck
<1>12. QED
  BY <1>4, <1>5, <1>10, <1>11 DEF A, T

\* A tick of the outbox: the frames it sends continue what is logged or on its
\* way.
LEMMA OutboxKeepsOwn ==
  ASSUME IInv, OInv, NEW t \in Tabs, NEW expired \in BOOLEAN, Outbox(t, expired)
  PROVE  OInv'
<1> DEFINE L == LoggedOf(ActorOf[t])
           st == driver[t].submitted_through
           ack == driver[t].acknowledged_seq
           frames(from) == Chunks(LocalAfter(t, from))
<1>1. /\ TypeOK' /\ Alone(t)
      /\ UNCHANGED <<commits, conn, old, down, authored, faults>>
      /\ driver[t].phase = "live" /\ conn[t] \in {"joined", "dead"}
      /\ driver'[t].phase = driver[t].phase /\ driver'[t].joined = driver[t].joined
      /\ driver'[t].replica = driver[t].replica
      /\ driver'[t].acknowledged_seq = driver[t].acknowledged_seq
      /\ driver'[t].refusals = driver[t].refusals
      /\ driver'[t].commit_seq = driver[t].commit_seq
  BY OutboxDoes
<1>2. HoldsOwn(t) /\ ContextOK(t) /\ MarksOK(t) /\ PhaseOK(t)
      /\ ToldInOrder(t) /\ NoGap(t) /\ RefusalsOK(t)
  BY OwnTab
<1>3. PICK from \in {st, ack} :
          /\ driver'[t].blocked = driver[t].blocked
          /\ \/ /\ driver[t].blocked # "no"
                /\ driver'[t].submitted_through \in {st, ack}
                /\ up'[t] = up[t]
             \/ /\ up'[t] = IF conn[t] = "joined" THEN up[t] \o frames(from) ELSE up[t]
                /\ \/ driver'[t].submitted_through \in {st, ack}
                   \/ \E i \in 1..Len(frames(from)) : \E op \in Range(frames(from)[i]) :
                          op.seq = driver'[t].submitted_through
  <2>1. PICK from \in {st, ack} :
             \/ /\ CrossCheck(t, driver[t], from) # "no"
                /\ driver'[t].blocked = CrossCheck(t, driver[t], from)
                /\ driver'[t].submitted_through \in {st, ack}
                /\ up'[t] = up[t]
             \/ /\ CrossCheck(t, driver[t], from) = "no"
                /\ driver'[t].blocked = driver[t].blocked
                /\ up'[t] = IF conn[t] = "joined" THEN up[t] \o frames(from) ELSE up[t]
                /\ \/ driver'[t].submitted_through \in {st, ack}
                   \/ \E i \in 1..Len(frames(from)) : \E op \in Range(frames(from)[i]) :
                          op.seq = driver'[t].submitted_through
    BY OutboxDoes
  <2>2. CrossCheck(t, driver[t], from) = driver[t].blocked
    BY <1>2, NothingRewritten
  <2> HIDE DEF frames
  <2>3. QED
    BY <2>1, <2>2
<1> DEFINE new == frames(from)
<1>4. from \in Nat /\ DenseAfter(t, from)
      /\ LocalAfter(t, from) = {op \in authored[t] : op.seq > from}
  BY <1>2, NothingRewritten
<1>5. /\ new \in Seq(Seq(Ops))
      /\ \A i \in 1..Len(new) :
             /\ Range(new[i]) \subseteq authored[t]
             /\ i = 1 => new[i][1].seq = from + 1
             /\ i > 1 => \E op \in Range(new[i - 1]) : op.seq + 1 = new[i][1].seq
  <2>1. /\ new \in Seq(Seq(Ops))
        /\ \A i \in 1..Len(new) :
               /\ Range(new[i]) \subseteq LocalAfter(t, from)
               /\ i = 1 => new[i][1].seq = from + 1
               /\ i > 1 => \E op \in Range(new[i - 1]) : op.seq + 1 = new[i][1].seq
    <3>1. from \in Nat /\ DenseAfter(t, from)
      BY <1>4
    <3>2. /\ new \in Seq(Seq(Ops))
          /\ \A i \in 1..Len(new) :
                 /\ new[i] \in Seq(Ops) /\ Run(new[i])
                 /\ Range(new[i]) \subseteq LocalAfter(t, from)
                 /\ i = 1 => new[i][1].seq = from + 1
                 /\ i > 1 => \E op \in Range(new[i - 1]) : op.seq + 1 = new[i][1].seq
      BY <3>1, TickFrames, ZenonT(20)
    <3> HIDE DEF new, frames
    <3>3. QED
      BY <3>2
  <2> HIDE DEF new, frames
  <2>2. QED
    BY <2>1, <1>4
<1>6. /\ up[t] \in Seq(Seq(Ops)) /\ st \in Nat /\ ack \in Nat
      /\ st <= Cardinality(authored[t]) /\ ack <= L /\ L \in Nat
      /\ Cardinality(authored[t]) \in Nat /\ L <= Cardinality(authored[t])
      /\ \A op \in authored[t] : op.seq \in 1..Cardinality(authored[t])
  BY <1>2, Mine, Typed, DriverIs DEF IInv, MarksOK
<1>7. /\ up[t] \o new \in Seq(Seq(Ops)) /\ Len(up[t] \o new) = Len(up[t]) + Len(new)
      /\ \A i \in 1..Len(up[t]) : (up[t] \o new)[i] = up[t][i]
      /\ \A i \in 1..Len(new) : (up[t] \o new)[Len(up[t]) + i] = new[i]
      /\ \A i \in 1..Len(up[t] \o new) :
             i \in 1..Len(up[t]) \/ \E k \in 1..Len(new) : i = Len(up[t]) + k
  BY <1>5, <1>6, Joined
<1>8. Len(up[t]) \in Nat /\ Len(new) \in Nat
  BY <1>5, <1>6
<1>9. LoggedOf(ActorOf[t])' = L
  BY <1>1, SameLogged
<1>10. ~Unwelcomed(t)
  BY <1>1, <1>2 DEF PhaseOK
<1>11. up'[t] = up[t] \/ up'[t] = up[t] \o new
  BY <1>3
<1>12. \/ driver'[t].submitted_through \in {st, ack}
       \/ /\ up'[t] = IF conn[t] = "joined" THEN up[t] \o new ELSE up[t]
          /\ \E i \in 1..Len(new) : \E op \in Range(new[i]) :
                 op.seq = driver'[t].submitted_through
  BY <1>3
<1> HIDE DEF L, st, ack, frames, new
<1>13. HoldsOwn(t)'
  <2>1. ASSUME NEW b \in Sent(t)' PROVE Range(b) \subseteq authored[t]
    <3>1. CASE b \in Range(old[t]) \/ b \in Range(up[t])
      BY <3>1, <1>2 DEF Sent, HoldsOwn
    <3>2. CASE b \in Range(up'[t]) /\ b \notin Range(up[t])
      <4>1. up'[t] = up[t] \o new
        BY <3>2, <1>11
      <4>2. PICK i \in 1..Len(up[t] \o new) : b = (up[t] \o new)[i]
        <5> DEFINE q == up[t] \o new
        <5>1. b \in Range(q) /\ q \in Seq(Seq(Ops))
          BY <3>2, <4>1, <1>7
        <5> HIDE DEF q
        <5>2. \E i \in 1..Len(q) : b = q[i]
          BY <5>1, RangeEquality
        <5>3. QED
          BY <5>2 DEF q
      <4>3. i \notin 1..Len(up[t])
        BY <4>2, <3>2, <1>6, <1>7, RangeEquality
      <4>4. PICK k \in 1..Len(new) : i = Len(up[t]) + k
        BY <4>3, <1>7
      <4>5. b = new[k]
        BY <4>2, <4>4, <1>7
      <4>6. QED
        BY <4>5, <1>5
    <3>3. QED
      BY <3>1, <3>2, <1>1 DEF Sent
  <2>2. Logged' = Logged
    BY <1>1, SameLogged
  <2>3. /\ Dense(authored'[t])
        /\ Of(ActorOf[t], authored'[t]) = authored'[t]
        /\ Of(ActorOf[t], driver'[t].replica) = authored'[t]
        /\ driver'[t].replica \subseteq Logged' \cup authored'[t]
        /\ Of(ActorOf[t], Logged') \subseteq authored'[t]
        /\ \A batch \in Sent(t)' : Range(batch) \subseteq authored'[t]
        /\ ~driver'[t].joined => authored'[t] = {}
    BY <2>1, <2>2, <1>1, <1>2 DEF HoldsOwn
  <2>4. QED
    BY <2>3 DEF HoldsOwn, Dense, Of
<1>14. ContextOK(t)'
  BY <1>1, <1>2, ContextStays
<1>15. MarksOK(t)'
  <2>1. driver'[t].submitted_through <= Cardinality(authored[t])
    <3>1. CASE driver'[t].submitted_through \in {st, ack}
      BY <3>1, <1>6
    <3>2. CASE \E i \in 1..Len(new) : \E op \in Range(new[i]) :
                   op.seq = driver'[t].submitted_through
      <4>1. \E op \in authored[t] : op.seq = driver'[t].submitted_through
        BY <3>2, <1>5
      <4>2. PICK op \in authored[t] : op.seq = driver'[t].submitted_through
        BY <4>1
      <4>3. op.seq \in 1..Cardinality(authored[t])
        BY <1>6
      <4>4. QED
        BY <4>2, <4>3, <1>6
    <3>3. QED
      BY <3>1, <3>2, <1>12
  <2>2. \A i \in 1..Len(down'[t]) : \E j \in 1..Len(down[t]) : down'[t][i] = down[t][j]
    BY <1>1
  <2>3. QED
    BY <2>1, <2>2, <1>1, <1>2, MarksStay
<1>16. PhaseOK(t)'
  <2>1. ~Unwelcomed(t)'
    BY <1>1, <1>10 DEF Unwelcomed
  <2>2. conn'[t] \notin {"none", "opening"} /\ \A i \in 2..Len(down'[t]) : down'[t][i].kind # "welcome"
    BY <1>1, <1>2 DEF PhaseOK
  <2>3. QED
    BY <2>1, <2>2 DEF PhaseOK
<1>17. ToldInOrder(t)'
  BY <1>1, <1>2, ToldStays
<1>18. NoGap(t)'
  <2>1. SUFFICES ASSUME conn'[t] = "joined", ~Broken(t)'
                 PROVE  /\ \/ driver'[t].submitted_through <= L
                           \/ \E j \in 1..Len(up'[t]) : \E op \in Range(up'[t][j]) :
                                  op.seq = driver'[t].submitted_through
                        /\ \A i \in 1..Len(up'[t]) :
                            \/ up'[t][i][1].seq <= L + 1
                            \/ \E j \in 1..(i - 1) : \E op \in Range(up'[t][j]) :
                                   op.seq = up'[t][i][1].seq - 1
    BY <1>1, <1>9 DEF NoGap, Carried
  <2>2. conn[t] = "joined" /\ ~Broken(t)
    BY <2>1, <1>1, <1>3 DEF Broken, StorageAt, Rejected
  <2>3. /\ \/ st <= L
           \/ \E j \in 1..Len(up[t]) : \E op \in Range(up[t][j]) : op.seq = st
        /\ \A i \in 1..Len(up[t]) :
              \/ up[t][i][1].seq <= L + 1
              \/ \E j \in 1..(i - 1) : \E op \in Range(up[t][j]) :
                     op.seq = up[t][i][1].seq - 1
    BY <2>2, <1>2 DEF NoGap, Carried, L, st
  <2>4. \A m \in {st, ack} :
            \/ m <= L
            \/ \E j \in 1..Len(up[t]) : \E op \in Range(up[t][j]) : op.seq = m
    BY <2>3, <1>6
  <2>5. /\ Len(up'[t]) >= Len(up[t]) /\ Len(up'[t]) \in Nat
        /\ \A j \in 1..Len(up[t]) : up'[t][j] = up[t][j]
    BY <1>7, <1>8, <1>11
  <2>6. \A j \in 1..Len(up[t]) : j \in 1..Len(up'[t])
    BY <2>5, <1>8
  <2>7. \/ driver'[t].submitted_through <= L
        \/ \E j \in 1..Len(up'[t]) : \E op \in Range(up'[t][j]) :
               op.seq = driver'[t].submitted_through
    <3>1. CASE driver'[t].submitted_through \in {st, ack}
      BY <3>1, <2>4, <2>5, <2>6
    <3>2. CASE /\ up'[t] = up[t] \o new
               /\ \E i \in 1..Len(new) : \E op \in Range(new[i]) :
                      op.seq = driver'[t].submitted_through
      <4>1. PICK i \in 1..Len(new) : \E op \in Range(new[i]) :
                     op.seq = driver'[t].submitted_through
        BY <3>2
      <4>2. up'[t][Len(up[t]) + i] = new[i] /\ Len(up[t]) + i \in 1..Len(up'[t])
        BY <3>2, <1>7, <1>8
      <4>3. QED
        BY <4>1, <4>2
    <3>3. QED
      BY <3>1, <3>2, <1>12, <2>2
  <2>8. ASSUME NEW i \in 1..Len(up'[t])
        PROVE  \/ up'[t][i][1].seq <= L + 1
               \/ \E j \in 1..(i - 1) : \E op \in Range(up'[t][j]) :
                      op.seq = up'[t][i][1].seq - 1
    <3>1. CASE i \in 1..Len(up[t])
      <4>1. \A j \in 1..(i - 1) : j \in 1..Len(up[t])
        BY <3>1, <1>8
      <4>2. QED
        BY <4>1, <3>1, <2>3, <2>5
    <3>2. CASE i \notin 1..Len(up[t])
      <4>1. up'[t] = up[t] \o new
        BY <3>2, <1>11
      <4>2. PICK k \in 1..Len(new) : i = Len(up[t]) + k
        BY <3>2, <4>1, <1>7
      <4>3. up'[t][i] = new[k]
        BY <4>1, <4>2, <1>7
      <4>4. CASE k = 1
        <5>1. up'[t][i][1].seq = from + 1
          BY <4>3, <4>4, <1>5
        <5>2. CASE from <= L
          BY <5>1, <5>2, <1>4, <1>6
        <5>3. CASE \E j \in 1..Len(up[t]) : \E op \in Range(up[t][j]) : op.seq = from
          <6>1. PICK j \in 1..Len(up[t]) : \E op \in Range(up[t][j]) : op.seq = from
            BY <5>3
          <6>2. j \in 1..(i - 1) /\ up'[t][j] = up[t][j]
            BY <4>2, <4>4, <1>8, <2>5
          <6>3. up'[t][i][1].seq - 1 = from
            BY <5>1, <1>4
          <6>4. QED
            BY <6>1, <6>2, <6>3
        <5>4. QED
          BY <5>2, <5>3, <2>4, <1>3
      <4>5. CASE k > 1
        <5>1. k - 1 \in 1..Len(new)
          BY <4>5, <1>8
        <5>2. PICK op \in Range(new[k - 1]) : op.seq + 1 = new[k][1].seq
          BY <4>5, <1>5
        <5> DEFINE j == Len(up[t]) + (k - 1)
        <5>3. up'[t][j] = new[k - 1]
          BY <5>1, <4>1, <1>7
        <5>4. j \in 1..(i - 1)
          BY <5>1, <4>2, <1>8
        <5>5. op.seq \in Nat
          <6>1. op \in authored[t]
            BY <5>1, <5>2, <1>5
          <6>2. QED
            BY <6>1, <1>6
        <5>6. op.seq = up'[t][i][1].seq - 1
          BY <5>2, <5>5, <4>3
        <5>7. QED
          BY <5>2, <5>3, <5>4, <5>6
      <4>6. QED
        BY <4>4, <4>5
    <3>3. QED
      BY <3>1, <3>2
  <2>9. QED
    BY <2>7, <2>8
<1>19. RefusalsOK(t)'
  BY <1>1, <1>2, <1>3, RefusalsStay
<1>20. Own(t)'
  BY <1>13, <1>14, <1>15, <1>16, <1>17, <1>18, <1>19 DEF Own
<1>21. QED
  BY <1>1, <1>20, OwnAlone

----------------------------------------------------------------------------
(***************************************************************************)
(* Reading a frame                                                         *)
(***************************************************************************)

\* Whatever the first frame is: what is left of the queue, and what stays.
LEMMA IngestLeaves ==
  ASSUME IInv, OInv, NEW t \in Tabs, Ingest(t)
  PROVE  /\ conn[t] \in {"joined", "dead"}
         /\ UNCHANGED <<commits, conn, up, old, authored, faults>>
         /\ Logged' = Logged /\ LoggedOf(ActorOf[t])' = LoggedOf(ActorOf[t])
         /\ Len(down[t]) \in Nat \ {0}
         /\ Len(down'[t]) = Len(down[t]) - 1
         /\ \A i \in 1..Len(down'[t]) :
                i + 1 \in 2..Len(down[t]) /\ down'[t][i] = down[t][i + 1]
         /\ Sent(t)' = Sent(t) /\ ContextOK(t)' /\ PhaseOK(t)' /\ ~Unwelcomed(t)'
         /\ (\A u \in Tabs \ {t} : driver'[u] = driver[u]) => Alone(t)
<1>1. /\ conn[t] \in {"joined", "dead"}
      /\ UNCHANGED <<commits, conn, up, old, authored, faults>>
      /\ Len(down[t]) \in Nat \ {0}
      /\ \A u \in Tabs \ {t} : down'[u] = down[u]
      /\ Len(down'[t]) = Len(down[t]) - 1
      /\ \A i \in 1..Len(down'[t]) : down'[t][i] = down[t][i + 1]
  BY IngestDoes
<1>2. ContextOK(t) /\ PhaseOK(t)
  BY OwnTab
<1>3. Logged' = Logged /\ LoggedOf(ActorOf[t])' = LoggedOf(ActorOf[t])
  BY <1>1, SameLogged
<1>4. \A i \in 1..Len(down'[t]) :
          i + 1 \in 2..Len(down[t]) /\ down'[t][i] = down[t][i + 1]
  BY <1>1
<1>5. \A i \in 1..Len(down'[t]) : down'[t][i].kind # "welcome"
  BY <1>2, <1>4 DEF PhaseOK
<1>6. ~Unwelcomed(t)'
  <2>1. Len(down'[t]) >= 1 => 1 \in 1..Len(down'[t])
    BY <1>1
  <2>2. QED
    BY <2>1, <1>5 DEF Unwelcomed
<1>7. PhaseOK(t)'
  <2>1. \A i \in 2..Len(down'[t]) : down'[t][i].kind # "welcome"
    BY <1>5
  <2>2. QED
    BY <2>1, <1>1, <1>6 DEF PhaseOK
<1>8. ContextOK(t)'
  BY <1>1, <1>2, ContextStays
<1>9. Sent(t)' = Sent(t)
  BY <1>1 DEF Sent
<1>10. (\A u \in Tabs \ {t} : driver'[u] = driver[u]) => Alone(t)
  BY <1>1 DEF Alone
<1>11. QED
  BY <1>1, <1>3, <1>4, <1>6, <1>7, <1>8, <1>9, <1>10

\* The frames that are left tell what they told, when the tab now holds what
\* the first one brought it.
LEMMA ToldOfRest ==
  ASSUME IInv, OInv, NEW t \in Tabs, Ingest(t),
         driver[t].replica \subseteq driver'[t].replica \/ Unwelcomed(t),
         Unwelcomed(t) => authored[t] \subseteq driver'[t].replica,
         BringsOf(commits, down[t][1]) \subseteq driver'[t].replica
  PROVE  ToldInOrder(t)'
<1>1. /\ UNCHANGED <<commits, conn, authored>>
      /\ Logged' = Logged
      /\ Len(down[t]) \in Nat \ {0} /\ Len(down'[t]) = Len(down[t]) - 1
      /\ \A i \in 1..Len(down'[t]) :
             i + 1 \in 2..Len(down[t]) /\ down'[t][i] = down[t][i + 1]
      /\ ~Unwelcomed(t)'
  BY IngestLeaves
<1>2. ToldInOrder(t)
  BY OwnTab
<1>3. ASSUME NEW op, NEW i \in 0..Len(down'[t]), ToldBy(t, op, i + 1)
      PROVE  ToldBy(t, op, i)'
  <2>1. CASE Holds(t, op)
    <3>1. op \in driver'[t].replica
      BY <2>1 DEF Holds
    <3>2. QED
      BY <3>1, <1>1 DEF ToldBy, Holds
  <2>2. CASE \E j \in 1..(i + 1) : op \in BringsOf(commits, down[t][j])
    <3>1. PICK j \in 1..(i + 1) : op \in BringsOf(commits, down[t][j])
      BY <2>2
    <3>2. CASE j = 1
      <4>1. op \in driver'[t].replica
        BY <3>1, <3>2
      <4>2. QED
        BY <4>1, <1>1 DEF ToldBy, Holds
    <3>3. CASE j # 1
      <4> DEFINE k == j - 1
      <4>1. k \in 1..i /\ k \in 1..Len(down'[t]) /\ k + 1 = j
        BY <3>3, <1>1
      <4> HIDE DEF k
      <4>2. down'[t][k] = down[t][j]
        BY <4>1, <1>1
      <4>3. op \in BringsOf(commits', down'[t][k])
        BY <3>1, <4>2, <1>1
      <4>4. QED
        BY <4>1, <4>3 DEF ToldBy
    <3>4. QED
      BY <3>2, <3>3
  <2>3. QED
    BY <2>1, <2>2, <1>3 DEF ToldBy
<1>4. ASSUME NEW i \in 1..Len(down'[t]), down'[t][i].kind \in {"committed", "accepted"},
             NEW op \in LogAt(commits', down'[t][i].commit)
      PROVE  ToldBy(t, op, i)'
  <2>1. /\ i + 1 \in 1..Len(down[t]) /\ i \in 0..Len(down'[t])
        /\ down'[t][i] = down[t][i + 1]
    BY <1>1
  <2>2. /\ down[t][i + 1].kind \in {"committed", "accepted"}
        /\ op \in LogAt(commits, down[t][i + 1].commit)
    BY <2>1, <1>1, <1>4
  <2>3. ToldBy(t, op, i + 1)
    BY <2>1, <2>2, <1>2 DEF ToldInOrder
  <2>4. QED
    BY <2>1, <2>3, <1>3
<1>5. ASSUME conn'[t] = "joined", NEW op \in Logged'
      PROVE  \/ Holds(t, op)'
             \/ \E j \in 1..Len(down'[t]) : op \in BringsOf(commits', down'[t][j])
  <2> DEFINE n == Len(down'[t])
  <2>1. ToldBy(t, op, Len(down[t]))
    BY <1>1, <1>2, <1>5 DEF ToldInOrder
  <2>2. n \in 0..Len(down'[t]) /\ n + 1 = Len(down[t])
    BY <1>1
  <2>3. \A i \in 0..Len(down'[t]) : ToldBy(t, op, i + 1) =>
            \/ Holds(t, op)'
            \/ \E j \in 1..i : op \in BringsOf(commits', down'[t][j])
    BY <1>3 DEF ToldBy
  <2>4. QED
    BY <2>1, <2>2, <2>3
<1>6. QED
  BY <1>4, <1>5 DEF ToldInOrder, ToldBy

\* What is on its way up is as it was; a refusal stays one.
LEMMA NoGapOfRest ==
  ASSUME IInv, OInv, NEW t \in Tabs, Ingest(t), ~StorageAt(t, 1),
         driver'[t].blocked = driver[t].blocked,
         driver'[t].submitted_through = driver[t].submitted_through
  PROVE  NoGap(t)'
<1>1. /\ UNCHANGED <<commits, conn, up>>
      /\ LoggedOf(ActorOf[t])' = LoggedOf(ActorOf[t])
      /\ Len(down[t]) \in Nat \ {0} /\ Len(down'[t]) = Len(down[t]) - 1
      /\ \A i \in 1..Len(down'[t]) :
             i + 1 \in 2..Len(down[t]) /\ down'[t][i] = down[t][i + 1]
  BY IngestLeaves
<1>2. NoGap(t)
  BY OwnTab
<1>3. Broken(t) => Broken(t)'
  <2>1. CASE driver[t].blocked # "no"
    BY <2>1 DEF Broken
  <2>2. ASSUME NEW i \in 1..Len(down[t]), StorageAt(t, i)
        PROVE  \E k \in 1..Len(down'[t]) : down'[t][k] = Rejected("storage")
    <3> DEFINE k == i - 1
    <3>1. k \in 1..Len(down'[t]) /\ k + 1 = i
      BY <1>1, <2>2
    <3> HIDE DEF k
    <3>2. down'[t][k] = Rejected("storage")
      BY <3>1, <1>1, <2>2 DEF StorageAt
    <3>3. QED
      BY <3>1, <3>2
  <2>3. QED
    BY <2>1, <2>2 DEF Broken, StorageAt, Rejected
<1>4. QED
  BY <1>1, <1>2, <1>3 DEF NoGap, Carried

\* What is left of the refusals follows a refusal as it did.
LEMMA RefusalsOfRest ==
  ASSUME IInv, OInv, NEW t \in Tabs, Ingest(t), ~StorageAt(t, 1),
         driver'[t].blocked = driver[t].blocked,
         driver'[t].refusals \in {0, driver[t].refusals},
         driver'[t].phase = driver[t].phase
  PROVE  RefusalsOK(t)'
<1>1. /\ UNCHANGED faults
      /\ Len(down[t]) \in Nat \ {0} /\ Len(down'[t]) = Len(down[t]) - 1
      /\ \A i \in 1..Len(down'[t]) :
             i + 1 \in 2..Len(down[t]) /\ down'[t][i] = down[t][i + 1]
  BY IngestLeaves
<1>2. RefusalsOK(t)
  BY OwnTab
<1>3. faults.store \in Nat /\ driver[t].refusals \in Nat
  <2>1. faults.store \in 0..MaxStoreFailures
    BY DEF IInv, TypeOK
  <2>2. QED
    BY <2>1, CollabAssumption, Typed, DriverIs DEF IInv
<1>4. ASSUME NEW i \in 1..Len(down'[t]), down'[t][i] = Rejected("storage")
      PROVE  /\ faults'.store > 0
             /\ driver'[t].blocked = "no" => driver'[t].refusals < faults'.store
  <2>1. i + 1 \in 1..Len(down[t]) /\ StorageAt(t, i + 1)
    BY <1>1, <1>4 DEF StorageAt
  <2>2. /\ faults.store > 0
        /\ driver[t].blocked = "no" => driver[t].refusals < faults.store
    BY <2>1, <1>2 DEF RefusalsOK
  <2>3. QED
    BY <2>2, <1>1, <1>3
<1>5. ASSUME NEW i \in 1..Len(down'[t]), down'[t][i] = Rejected("conflict")
      PROVE  \/ driver'[t].blocked # "no"
             \/ \E j \in 1..(i - 1) : down'[t][j] = Rejected("storage")
  <2>1. i + 1 \in 1..Len(down[t]) /\ down[t][i + 1] = Rejected("conflict")
    BY <1>1, <1>5
  <2>2. driver[t].blocked # "no" \/ \E j \in 1..i : StorageAt(t, j)
    BY <2>1, <1>2 DEF RefusalsOK
  <2>3. ASSUME NEW j \in 1..i, StorageAt(t, j)
        PROVE  \E k \in 1..(i - 1) : down'[t][k] = Rejected("storage")
    <3> DEFINE k == j - 1
    <3>1. k \in 1..(i - 1) /\ k \in 1..Len(down'[t]) /\ k + 1 = j
      BY <1>1, <2>3
    <3> HIDE DEF k
    <3>2. down'[t][k] = Rejected("storage")
      BY <3>1, <1>1, <2>3 DEF StorageAt
    <3>3. QED
      BY <3>1, <3>2
  <2>4. QED
    BY <2>2, <2>3
<1>6. /\ driver'[t].blocked \in {"no", "refused"}
      /\ driver'[t].blocked = "refused" => faults'.store > 0
      /\ driver'[t].refusals <= faults'.store
      /\ driver'[t].phase = "closed" => faults'.store >= MaxRefusalRecoveries
  BY <1>1, <1>2, <1>3 DEF RefusalsOK
<1>7. QED
  BY <1>4, <1>5, <1>6 DEF RefusalsOK, StorageAt, Rejected

\* The welcome: the tail beyond what the log has goes back on top of it.
LEMMA WelcomeKeepsOwn ==
  ASSUME IInv, OInv, NEW t \in Tabs, Ingest(t), down[t][1].kind = "welcome",
         Welcome(t, down[t][1].commit)
  PROVE  OInv'
<1> DEFINE a == ActorOf[t]
           A == authored[t]
           n == down[t][1].commit
           Ln == LoggedAt(n)
           acked == Highest(a, Ln)
<1>1. /\ UNCHANGED <<commits, conn, up, old, authored, faults>>
      /\ Logged' = Logged /\ LoggedOf(a)' = LoggedOf(a)
      /\ Len(down[t]) \in Nat \ {0} /\ Len(down'[t]) = Len(down[t]) - 1
      /\ \A i \in 1..Len(down'[t]) :
             i + 1 \in 2..Len(down[t]) /\ down'[t][i] = down[t][i + 1]
      /\ Sent(t)' = Sent(t) /\ ContextOK(t)' /\ PhaseOK(t)'
      /\ (\A u \in Tabs \ {t} : driver'[u] = driver[u]) => Alone(t)
  BY IngestLeaves
<1>2. n \in 0..Len(commits)
  BY IngestDoes DEF FrameOK
<1>3. /\ driver' \in [Tabs -> Drivers]
      /\ \A u \in Tabs \ {t} : driver'[u] = driver[u]
      /\ driver'[t].replica = Ln \cup {op \in Of(a, driver[t].replica) :
                                           driver[t].joined /\ op.seq > acked}
      /\ driver'[t].phase = "live" /\ driver'[t].joined
      /\ driver'[t].acknowledged_seq = acked
      /\ driver'[t].submitted_through = acked
      /\ driver'[t].blocked = "no"
      /\ driver'[t].refusals = driver[t].refusals
      /\ driver'[t].commit_seq = n
  BY <1>2, WelcomeDoes
<1>4. HoldsOwn(t) /\ PhaseOK(t) /\ RefusalsOK(t)
  BY OwnTab
<1>5. Unwelcomed(t)
  BY <1>1 DEF Unwelcomed
<1>6. /\ Len(up[t]) = 0
      /\ \A i \in 1..Len(down'[t]) : down'[t][i].kind = "committed"
  BY <1>1, <1>4, <1>5 DEF PhaseOK
<1>7. /\ a \in Actors /\ A \in SUBSET Ops /\ Cardinality(A) \in Nat
      /\ LoggedOf(a) \in Nat /\ LoggedOf(a) <= Cardinality(A)
      /\ \A op \in A : op.actor = a
  BY <1>4, Mine
<1>8. TypeOK /\ LogIsDense /\ commits \in Seq(Seq(Ops)) /\ Len(commits) \in Nat
  BY Typed DEF IInv
<1>9. Ln \in SUBSET Ops /\ Ln \subseteq Logged
  <2>1. Len(commits) \in 0..Len(commits) /\ n \in 0..Len(commits)
    BY <1>2, <1>8
  <2>2. LoggedAt(n) \in SUBSET Ops
    BY <1>8, <2>1, LoggedIs
  <2>3. LoggedAt(n) \subseteq LoggedAt(Len(commits))
    BY <1>8, <2>1, LoggedOrder
  <2>4. QED
    BY <2>2, <2>3 DEF Logged
<1>10. Of(a, Ln) \in SUBSET Ops /\ Dense(Of(a, Ln))
  <2>1. Dense(Of(a, Ln))
    BY <1>2, <1>7, <1>8 DEF LogIsDense
  <2>2. QED
    BY <2>1, <1>9 DEF Of
<1>11. /\ Of(a, A) = A /\ Of(a, driver[t].replica) = A /\ Dense(A)
       /\ Of(a, Logged) \subseteq A
       /\ ~driver[t].joined => A = {}
       /\ \A batch \in Sent(t) : Range(batch) \subseteq A
  BY <1>4 DEF HoldsOwn
<1>12. acked = Cardinality(Of(a, Ln))
  BY <1>9, <1>10, HighestOfDense
<1> HIDE DEF a, A, n, Ln, acked
<1>13. Of(a, Ln) \subseteq Of(a, Logged)
  BY <1>9 DEF Of
<1>14. acked <= LoggedOf(a) /\ acked \in Nat
  <2>1. Of(a, Logged) \in SUBSET Ops /\ Dense(Of(a, Logged))
        /\ LoggedOf(a) = Cardinality(Of(a, Logged))
    BY <1>7, <1>8, LoggedDense
  <2>2. Cardinality(Of(a, Ln)) <= Cardinality(Of(a, Logged))
    BY <2>1, <1>10, <1>13, DenseWithin
  <2>3. Cardinality(Of(a, Ln)) \in Nat
    BY <1>10, DenseProps
  <2>4. QED
    BY <2>1, <2>2, <2>3, <1>12
<1>15. \A op \in A : op.seq <= acked => op \in Of(a, Ln)
  BY <1>7, <1>10, <1>11, <1>12, <1>13, DenseWithin
<1>16. A \subseteq driver'[t].replica
  <2>1. ASSUME NEW op \in A PROVE op \in driver'[t].replica
    <3>1. CASE op.seq <= acked
      BY <2>1, <3>1, <1>3, <1>15 DEF Of
    <3>2. CASE ~(op.seq <= acked)
      <4>1. op.seq > acked
        BY <2>1, <3>2, <1>7, <1>14, OpIs
      <4>2. driver[t].joined /\ op \in Of(a, driver[t].replica)
        BY <2>1, <1>11
      <4>3. QED
        BY <4>1, <4>2, <1>3
    <3>3. QED
      BY <3>1, <3>2
  <2>2. QED
    BY <2>1
<1>17. driver'[t].replica \subseteq Ln \cup A
  BY <1>3, <1>11
<1>18. HoldsOwn(t)'
  <2>1. Of(a, driver'[t].replica) = A
    BY <1>7, <1>11, <1>13, <1>16, <1>17 DEF Of
  <2>2. driver'[t].replica \subseteq Logged' \cup A
    BY <1>1, <1>9, <1>17
  <2>3. authored'[t] = A
    BY <1>1 DEF A
  <2>4. /\ Dense(authored'[t])
        /\ Of(ActorOf[t], authored'[t]) = authored'[t]
        /\ Of(ActorOf[t], driver'[t].replica) = authored'[t]
        /\ driver'[t].replica \subseteq Logged' \cup authored'[t]
        /\ Of(ActorOf[t], Logged') \subseteq authored'[t]
        /\ \A batch \in Sent(t)' : Range(batch) \subseteq authored'[t]
    BY <2>1, <2>2, <2>3, <1>1, <1>11 DEF a
  <2>5. QED
    BY <2>4, <1>3 DEF HoldsOwn, Dense, Of
<1>19. MarksOK(t)'
  <2>1. driver'[t].acknowledged_seq <= LoggedOf(ActorOf[t])'
    BY <1>1, <1>3, <1>14 DEF a
  <2>2. driver'[t].submitted_through <= Cardinality(authored'[t])
    <3>1. acked <= Cardinality(A)
      BY <1>7, <1>14
    <3>2. QED
      BY <3>1, <1>1, <1>3 DEF A
  <2>3. LogAt(commits', driver'[t].commit_seq) \subseteq driver'[t].replica
    BY <1>1, <1>3 DEF LogAt, LoggedAt, Ln
  <2>4. \A i \in 1..Len(down'[t]) : down'[t][i].kind # "accepted"
    BY <1>6
  <2>5. QED
    BY <2>1, <2>2, <2>3, <2>4 DEF MarksOK
<1>20. ToldInOrder(t)'
  <2>1. BringsOf(commits, down[t][1]) \subseteq driver'[t].replica
    BY <1>3 DEF BringsOf, LogAt, LoggedAt, Ln, n
  <2>2. QED
    BY <2>1, <1>5, <1>16, ToldOfRest DEF A
<1>21. NoGap(t)'
  <2>1. driver'[t].submitted_through <= LoggedOf(ActorOf[t])'
    BY <1>1, <1>3, <1>14 DEF a
  <2>2. 1..Len(up'[t]) = {}
    BY <1>1, <1>6
  <2>3. QED
    BY <2>1, <2>2 DEF NoGap
<1>22. RefusalsOK(t)'
  <2>1. \A i \in 1..Len(down'[t]) :
            down'[t][i] # Rejected("storage") /\ down'[t][i] # Rejected("conflict")
    BY <1>6 DEF Rejected
  <2>2. QED
    BY <2>1, <1>1, <1>3, <1>4 DEF RefusalsOK, StorageAt, Rejected
<1>23. Own(t)'
  BY <1>1, <1>18, <1>19, <1>20, <1>21, <1>22 DEF Own
<1>24. QED
  BY <1>1, <1>3, <1>23, OwnAlone

\* An acknowledgement: what it names is logged, and the commit it names has
\* nothing the tab does not hold.
LEMMA AcknowledgeKeepsOwn ==
  ASSUME IInv, OInv, NEW t \in Tabs, Ingest(t), down[t][1].kind = "accepted",
         Acknowledge(t, down[t][1])
  PROVE  OInv'
<1> DEFINE f == down[t][1]
<1>1. /\ UNCHANGED <<commits, conn, up, old, authored, faults>>
      /\ Logged' = Logged /\ LoggedOf(ActorOf[t])' = LoggedOf(ActorOf[t])
      /\ Len(down[t]) \in Nat \ {0} /\ Len(down'[t]) = Len(down[t]) - 1
      /\ \A i \in 1..Len(down'[t]) :
             i + 1 \in 2..Len(down[t]) /\ down'[t][i] = down[t][i + 1]
      /\ Sent(t)' = Sent(t) /\ ContextOK(t)' /\ PhaseOK(t)'
      /\ (\A u \in Tabs \ {t} : driver'[u] = driver[u]) => Alone(t)
  BY IngestLeaves
<1>2. f \in Frames /\ FrameOK(f, Len(commits))
  BY IngestDoes
<1>3. /\ driver' \in [Tabs -> Drivers]
      /\ \A u \in Tabs \ {t} : driver'[u] = driver[u]
      /\ driver'[t].phase = driver[t].phase /\ driver'[t].joined = driver[t].joined
      /\ driver'[t].replica = driver[t].replica
      /\ \/ driver'[t].acknowledged_seq = driver[t].acknowledged_seq
         \/ driver'[t].acknowledged_seq \in f.ids
      /\ driver'[t].submitted_through = driver[t].submitted_through
      /\ driver'[t].blocked = driver[t].blocked
      /\ driver'[t].refusals = 0
      /\ driver'[t].commit_seq \in {driver[t].commit_seq, f.commit}
  BY <1>2, AcknowledgeDoes
<1>4. HoldsOwn(t) /\ MarksOK(t) /\ ToldInOrder(t)
  BY OwnTab
<1>5. ~Unwelcomed(t) /\ ~StorageAt(t, 1) /\ 1 \in 1..Len(down[t])
  BY <1>1 DEF Unwelcomed, StorageAt, Rejected
<1>6. BringsOf(commits, f) = {}
  BY DEF BringsOf
<1>7. HoldsOwn(t)'
  BY <1>1, <1>3, <1>4, HoldsOwnStays
<1>8. MarksOK(t)'
  <2>1. driver'[t].acknowledged_seq <= LoggedOf(ActorOf[t])'
    BY <1>1, <1>3, <1>4, <1>5 DEF MarksOK
  <2>2. driver'[t].submitted_through <= Cardinality(authored'[t])
    BY <1>1, <1>3, <1>4 DEF MarksOK
  <2>3. LogAt(commits, f.commit) \subseteq driver[t].replica
    <3>1. ASSUME NEW op \in LogAt(commits, f.commit) PROVE op \in driver[t].replica
      <4>1. ToldBy(t, op, 1)
        BY <3>1, <1>4, <1>5 DEF ToldInOrder
      <4>2. ~\E j \in 1..1 : op \in BringsOf(commits, down[t][j])
        BY <1>6
      <4>3. QED
        BY <4>1, <4>2, <1>5 DEF ToldBy, Holds
    <3>2. QED
      BY <3>1
  <2>4. LogAt(commits', driver'[t].commit_seq) \subseteq driver'[t].replica
    BY <2>3, <1>1, <1>3, <1>4 DEF MarksOK
  <2>5. \A i \in 1..Len(down'[t]) : down'[t][i].kind = "accepted" =>
            \A m \in down'[t][i].ids : m <= LoggedOf(ActorOf[t])'
    <3>1. \A i \in 2..Len(down[t]) : i \in 1..Len(down[t])
      OBVIOUS
    <3>2. QED
      BY <3>1, <1>1, <1>4 DEF MarksOK
  <2>6. QED
    BY <2>1, <2>2, <2>4, <2>5 DEF MarksOK
<1>9. ToldInOrder(t)'
  BY <1>3, <1>5, <1>6, ToldOfRest
<1>10. NoGap(t)'
  BY <1>3, <1>5, NoGapOfRest
<1>11. RefusalsOK(t)'
  BY <1>3, <1>5, RefusalsOfRest
<1>12. Own(t)'
  BY <1>1, <1>7, <1>8, <1>9, <1>10, <1>11 DEF Own
<1>13. QED
  BY <1>1, <1>3, <1>12, OwnAlone

\* A refusal: the store failed once more than the tab has counted, unless it
\* is blocked already.
LEMMA RefusedKeepsOwn ==
  ASSUME IInv, OInv, NEW t \in Tabs, Ingest(t), down[t][1].kind = "rejected",
         Refused(t)
  PROVE  OInv'
<1> DEFINE f == down[t][1]
<1>1. /\ UNCHANGED <<commits, conn, up, old, authored, faults>>
      /\ Logged' = Logged /\ LoggedOf(ActorOf[t])' = LoggedOf(ActorOf[t])
      /\ Len(down[t]) \in Nat \ {0} /\ Len(down'[t]) = Len(down[t]) - 1
      /\ \A i \in 1..Len(down'[t]) :
             i + 1 \in 2..Len(down[t]) /\ down'[t][i] = down[t][i + 1]
      /\ Sent(t)' = Sent(t) /\ ContextOK(t)' /\ PhaseOK(t)'
      /\ (\A u \in Tabs \ {t} : driver'[u] = driver[u]) => Alone(t)
  BY IngestLeaves
<1>2. f \in Frames
  BY IngestDoes
<1>3. /\ \A u \in Tabs \ {t} : driver'[u] = driver[u]
      /\ driver'[t].joined = driver[t].joined
      /\ driver'[t].replica = driver[t].replica
      /\ driver'[t].acknowledged_seq = driver[t].acknowledged_seq
      /\ driver'[t].submitted_through = driver[t].submitted_through
      /\ driver'[t].commit_seq = driver[t].commit_seq
      /\ driver'[t].blocked = "refused"
      /\ driver'[t].refusals = IF driver[t].blocked = "no" THEN driver[t].refusals + 1
                                                           ELSE driver[t].refusals
      /\ \/ driver'[t].phase = driver[t].phase
         \/ driver'[t].phase = "closed" /\ driver'[t].refusals >= MaxRefusalRecoveries
  BY RefusedDoes
<1>4. HoldsOwn(t) /\ MarksOK(t) /\ RefusalsOK(t)
  BY OwnTab
<1>5. ~Unwelcomed(t) /\ 1 \in 1..Len(down[t])
  BY <1>1 DEF Unwelcomed
<1>6. BringsOf(commits, f) = {}
  BY DEF BringsOf
<1>7. faults.store \in Nat /\ driver[t].refusals \in Nat /\ MaxRefusalRecoveries \in Nat
  <2>1. faults.store \in 0..MaxStoreFailures
    BY DEF IInv, TypeOK
  <2>2. QED
    BY <2>1, CollabAssumption, Typed, DriverIs DEF IInv
<1>8. HoldsOwn(t)'
  BY <1>1, <1>3, <1>4, HoldsOwnStays
<1>9. MarksOK(t)'
  <2>1. \A i \in 1..Len(down'[t]) : \E j \in 1..Len(down[t]) : down'[t][i] = down[t][j]
    <3>1. \A i \in 2..Len(down[t]) : i \in 1..Len(down[t])
      OBVIOUS
    <3>2. QED
      BY <3>1, <1>1
  <2>2. driver'[t].submitted_through <= Cardinality(authored[t])
    BY <1>3, <1>4 DEF MarksOK
  <2>3. QED
    BY <2>1, <2>2, <1>1, <1>3, <1>4, MarksStay
<1>10. ToldInOrder(t)'
  BY <1>3, <1>5, <1>6, ToldOfRest
<1>11. NoGap(t)'
  BY <1>3 DEF NoGap, Broken
<1>12. RefusalsOK(t)'
  <2>1. /\ faults.store > 0
        /\ driver[t].blocked = "no" => driver[t].refusals < faults.store
    <3>1. CASE f = Rejected("storage")
      BY <3>1, <1>4, <1>5 DEF RefusalsOK, StorageAt
    <3>2. CASE f = Rejected("conflict")
      <4>1. driver[t].blocked # "no"
        <5>1. 1..(1 - 1) = {}
          OBVIOUS
        <5>2. QED
          BY <5>1, <3>2, <1>4, <1>5 DEF RefusalsOK
      <4>2. QED
        BY <4>1, <1>4 DEF RefusalsOK
    <3>3. QED
      BY <3>1, <3>2, <1>2, FrameIs
  <2>2. driver'[t].refusals <= faults.store
    <3>1. CASE driver[t].blocked = "no"
      BY <3>1, <2>1, <1>3, <1>7
    <3>2. CASE driver[t].blocked # "no"
      BY <3>2, <1>3, <1>4 DEF RefusalsOK
    <3>3. QED
      BY <3>1, <3>2
  <2>3. driver'[t].refusals \in Nat
    BY <1>3, <1>7
  <2>4. driver'[t].phase = "closed" => faults.store >= MaxRefusalRecoveries
    BY <2>2, <2>3, <1>3, <1>4, <1>7 DEF RefusalsOK
  <2>5. QED
    BY <2>1, <2>2, <2>4, <1>1, <1>3 DEF RefusalsOK
<1>13. Own(t)'
  BY <1>1, <1>8, <1>9, <1>10, <1>11, <1>12 DEF Own
<1>14. QED
  BY <1>1, <1>3, <1>13, OwnAlone

\* What is logged and what a tab holds never clash: an id is one operation.
LEMMA NoClash ==
  ASSUME IInv, NEW t \in Tabs, HoldsOwn(t),
         NEW op \in Logged, NEW held \in driver[t].replica, SameId(op, held)
  PROVE  op = held
<1>1. TypeOK /\ LogIsDense /\ Logged \in SUBSET Ops /\ ActorOf[t] \in Actors
  BY Typed, LoggedDense DEF IInv
<1>2. op.actor = held.actor /\ op.seq = held.seq /\ op.actor \in Actors
  BY <1>1, OpIs DEF SameId
<1>3. CASE held \in Logged
  <2>1. op \in Of(op.actor, Logged) /\ held \in Of(op.actor, Logged)
    BY <1>2, <1>3 DEF Of
  <2>2. Dense(Of(op.actor, Logged))
    BY <1>1, <1>2, LoggedDense
  <2>3. QED
    BY <2>1, <2>2, <1>2 DEF Dense
<1>4. CASE held \in authored[t]
  <2>1. held.actor = ActorOf[t] /\ \A p, q \in authored[t] : p.seq = q.seq => p = q
    BY <1>4, Mine
  <2>2. op \in authored[t]
    BY <2>1, <1>2 DEF HoldsOwn, Of
  <2>3. QED
    BY <2>1, <2>2, <1>2, <1>4
<1>5. QED
  BY <1>3, <1>4 DEF HoldsOwn

\* A commit: all of it is folded in, and the log up to it is then held.
LEMMA ApplyKeepsOwn ==
  ASSUME IInv, OInv, NEW t \in Tabs, Ingest(t), down[t][1].kind = "committed",
         Apply(t, down[t][1].commit)
  PROVE  OInv'
<1> DEFINE f == down[t][1]
           a == ActorOf[t]
           ops == Range(commits[f.commit])
<1>1. /\ UNCHANGED <<commits, conn, up, old, authored, faults>>
      /\ Logged' = Logged /\ LoggedOf(a)' = LoggedOf(a)
      /\ Len(down[t]) \in Nat \ {0} /\ Len(down'[t]) = Len(down[t]) - 1
      /\ \A i \in 1..Len(down'[t]) :
             i + 1 \in 2..Len(down[t]) /\ down'[t][i] = down[t][i + 1]
      /\ Sent(t)' = Sent(t) /\ ContextOK(t)' /\ PhaseOK(t)'
      /\ (\A u \in Tabs \ {t} : driver'[u] = driver[u]) => Alone(t)
  BY IngestLeaves
<1>2. f.commit \in 1..Len(commits)
  BY IngestDoes DEF FrameOK
<1>3. HoldsOwn(t) /\ MarksOK(t) /\ ToldInOrder(t)
  BY OwnTab
<1>4. ops \subseteq Logged
  <2>1. commits \in Seq(Seq(Ops)) /\ Len(commits) \in Nat
    BY Typed DEF IInv
  <2>2. Len(commits) \in 0..Len(commits)
    BY <2>1
  <2>3. \A i \in 1..Len(commits) : Range(commits[i]) \subseteq LoggedAt(Len(commits))
    BY <2>1, <2>2, LoggedIs
  <2>4. QED
    BY <2>3, <1>2 DEF Logged
<1>5. ~\E op \in ops, held \in driver[t].replica : SameId(op, held) /\ op # held
  BY <1>3, <1>4, NoClash
<1>6. /\ \A u \in Tabs \ {t} : driver'[u] = driver[u]
      /\ driver'[t].phase = driver[t].phase /\ driver'[t].joined = driver[t].joined
      /\ driver'[t].acknowledged_seq = driver[t].acknowledged_seq
      /\ driver'[t].submitted_through = driver[t].submitted_through
      /\ driver'[t].refusals = driver[t].refusals
      /\ driver'[t].replica = driver[t].replica \cup ops
      /\ driver'[t].commit_seq \in {driver[t].commit_seq, f.commit}
      /\ driver'[t].blocked = driver[t].blocked
  BY <1>2, <1>5, ApplyDoes
<1>7. ~Unwelcomed(t) /\ ~StorageAt(t, 1) /\ 1 \in 1..Len(down[t])
  BY <1>1 DEF Unwelcomed, StorageAt, Rejected
<1>8. BringsOf(commits, f) = ops
  BY DEF BringsOf
<1> HIDE DEF a, f, ops
<1>9. HoldsOwn(t)'
  <2>1. Of(a, driver[t].replica \cup ops) = Of(a, driver[t].replica) \cup Of(a, ops)
        /\ Of(a, ops) \subseteq Of(a, Logged)
    BY <1>4 DEF Of
  <2>2. Of(a, driver[t].replica) = authored[t] /\ Of(a, Logged) \subseteq authored[t]
    BY <1>3 DEF HoldsOwn, a
  <2>3. Of(a, driver'[t].replica) = authored[t]
    BY <2>1, <2>2, <1>6
  <2>4. driver'[t].replica \subseteq Logged \cup authored[t]
    BY <1>3, <1>4, <1>6 DEF HoldsOwn
  <2>5. /\ Dense(authored'[t])
        /\ Of(ActorOf[t], authored'[t]) = authored'[t]
        /\ Of(ActorOf[t], driver'[t].replica) = authored'[t]
        /\ driver'[t].replica \subseteq Logged' \cup authored'[t]
        /\ Of(ActorOf[t], Logged') \subseteq authored'[t]
        /\ \A batch \in Sent(t)' : Range(batch) \subseteq authored'[t]
        /\ ~driver'[t].joined => authored'[t] = {}
    BY <2>3, <2>4, <1>1, <1>3, <1>6 DEF HoldsOwn, a
  <2>6. QED
    BY <2>5 DEF HoldsOwn, Dense, Of
<1>10. MarksOK(t)'
  <2>1. driver'[t].acknowledged_seq <= LoggedOf(ActorOf[t])'
    BY <1>1, <1>3, <1>6 DEF MarksOK, a
  <2>2. driver'[t].submitted_through <= Cardinality(authored'[t])
    BY <1>1, <1>3, <1>6 DEF MarksOK
  <2>3. LogAt(commits, f.commit) \subseteq driver[t].replica \cup ops
    <3>1. ASSUME NEW op \in LogAt(commits, f.commit)
          PROVE  op \in driver[t].replica \cup ops
      <4>1. ToldBy(t, op, 1)
        BY <3>1, <1>3, <1>7 DEF ToldInOrder, f
      <4>2. \A j \in 1..1 : BringsOf(commits, down[t][j]) = ops
        BY <1>8 DEF f
      <4>3. QED
        BY <4>1, <4>2, <1>7 DEF ToldBy, Holds
    <3>2. QED
      BY <3>1
  <2>4. LogAt(commits', driver'[t].commit_seq) \subseteq driver'[t].replica
    BY <2>3, <1>1, <1>3, <1>6 DEF MarksOK
  <2>5. \A i \in 1..Len(down'[t]) : down'[t][i].kind = "accepted" =>
            \A m \in down'[t][i].ids : m <= LoggedOf(ActorOf[t])'
    <3>1. \A i \in 2..Len(down[t]) : i \in 1..Len(down[t])
      OBVIOUS
    <3>2. QED
      BY <3>1, <1>1, <1>3 DEF MarksOK, a
  <2>6. QED
    BY <2>1, <2>2, <2>4, <2>5 DEF MarksOK
<1>11. ToldInOrder(t)'
  BY <1>6, <1>7, <1>8, ToldOfRest DEF f
<1>12. NoGap(t)'
  BY <1>6, <1>7, NoGapOfRest
<1>13. RefusalsOK(t)'
  BY <1>6, <1>7, RefusalsOfRest
<1>14. Own(t)'
  BY <1>1, <1>9, <1>10, <1>11, <1>12, <1>13 DEF Own
<1>15. QED
  BY <1>1, <1>6, <1>14, OwnAlone

\* Reading a frame keeps it.
LEMMA IngestKeepsOwn ==
  ASSUME IInv, OInv, NEW t \in Tabs, Ingest(t)
  PROVE  OInv'
<1>1. \/ down[t][1].kind = "welcome"   /\ Welcome(t, down[t][1].commit)
      \/ down[t][1].kind = "accepted"  /\ Acknowledge(t, down[t][1])
      \/ down[t][1].kind = "rejected"  /\ Refused(t)
      \/ down[t][1].kind = "committed" /\ Apply(t, down[t][1].commit)
  BY IngestDoes
<1>2. QED
  BY <1>1, WelcomeKeepsOwn, AcknowledgeKeepsOwn, RefusedKeepsOwn, ApplyKeepsOwn

----------------------------------------------------------------------------
(***************************************************************************)
(* Serving a batch                                                         *)
(***************************************************************************)

\* The log only grows, by operations of the batch; so does what the store has
\* refused.
LEMMA LogOnward ==
  ASSUME IInv, NEW t \in Tabs, NEW current \in BOOLEAN, NEW batch \in Seq(Ops),
         Run(batch), Serve(t, current, batch)
  PROVE  /\ Len(commits) \in Nat /\ Len(commits') \in Nat
         /\ Len(commits) <= Len(commits')
         /\ \A n \in 1..Len(commits) : commits'[n] = commits[n]
         /\ \A n \in 0..Len(commits) : LogAt(commits', n) = LogAt(commits, n)
         /\ Logged \subseteq Logged' /\ Logged' \subseteq Logged \cup Range(batch)
         /\ Logged' = LogAt(commits', Len(commits'))
         /\ \/ Logged' = Logged
            \/ Len(commits') >= 1 /\ Logged' = Logged \cup Range(commits'[Len(commits')])
         /\ \A b \in Actors :
                LoggedOf(b) \in Nat /\ LoggedOf(b)' \in Nat /\ LoggedOf(b) <= LoggedOf(b)'
<1>1. /\ TypeOK /\ LogIsDense /\ commits \in Seq(Seq(Ops)) /\ Len(commits) \in Nat
      /\ \A b \in Actors : LoggedOf(b) \in Nat
  BY Typed, LoggedDense DEF IInv
<1>2. Logged' = LogAt(commits', Len(commits'))
  BY DEF Logged, LoggedAt, LogAt
<1>3. CASE commits' = commits
  <2>1. Logged' = Logged /\ \A b : LoggedOf(b)' = LoggedOf(b)
    BY <1>3, SameLogged
  <2>2. QED
    BY <2>1, <1>1, <1>2, <1>3
<1>4. CASE Commit(t, current, batch)
  <2> DEFINE F == Fresh(batch)
  <2>1. F \in Seq(Ops) /\ Valid(batch) /\ commits' = Append(commits, F)
    BY <1>1, <1>4, CommitDoes
  <2>2. /\ commits' \in Seq(Seq(Ops)) /\ Len(commits') = Len(commits) + 1
        /\ \A i \in 1..Len(commits) : commits'[i] = commits[i]
        /\ commits'[Len(commits) + 1] = F
        /\ \A n \in 0..Len(commits) : LoggedAt(n)' = LoggedAt(n)
        /\ Logged' = Logged \cup Range(F)
    BY <1>1, <2>1, LogGrows
  <2>3. Range(F) = Range(batch) \ Logged /\ Len(F) \in Nat
    BY <2>1, FreshIs
  <2>4. \A n \in 0..Len(commits) : LogAt(commits', n) = LogAt(commits, n)
    BY <2>2 DEF LogAt, LoggedAt
  <2>5. ASSUME NEW b \in Actors
        PROVE  LoggedOf(b)' \in Nat /\ LoggedOf(b) <= LoggedOf(b)'
    <3> DEFINE T == Logged \cup {F[k] : k \in 1..Len(F)}
    <3>1. Len(F) \in 0..Len(F)
      BY <2>3
    <3>2. Cardinality(Of(b, T)) = LoggedOf(b) + (IF b = batch[1].actor THEN Len(F) ELSE 0)
      BY <3>1, <1>1, <2>1, FreshFollows
    <3>3. T = Logged'
      <4>1. Range(F) = {F[k] : k \in 1..Len(F)}
        BY <2>1, RangeEquality
      <4>2. QED
        BY <4>1, <2>2
    <3>4. LoggedOf(b)' = Cardinality(Of(b, T))
      BY <3>3 DEF LoggedOf, Of
    <3> HIDE DEF T, F
    <3>5. QED
      BY <3>2, <3>4, <1>1, <2>3
  <2> HIDE DEF F
  <2>6. QED
    BY <2>2, <2>3, <2>4, <2>5, <1>1, <1>2
<1>5. QED
  <2>1. Commit(t, current, batch) \/ commits' = commits
    BY DEF Serve, Replay, Refuse, StoreFailure
  <2>2. QED
    BY <2>1, <1>3, <1>4

\* What a tab is sent when a batch is served: the commit if there is one, and
\* before it the answer if the batch came by the tab's own current socket.
Told(u, t, current, batch) ==
    /\ Len(down[u]) \in Nat /\ Len(down'[u]) \in Nat
    /\ Len(down[u]) <= Len(down'[u])
    /\ \A i \in 1..Len(down[u]) : down'[u][i] = down[u][i]
    /\ conn[u] # "joined" => Len(down'[u]) = Len(down[u])
    /\ \A i \in 1..Len(down'[u]) : i > Len(down[u]) =>
           /\ down'[u][i].kind \in {"committed", "accepted", "rejected"}
           /\ down'[u][i].kind # "committed" => u = t /\ current
           /\ down'[u][i].kind = "committed" => i = Len(down'[u])
           /\ down'[u][i].kind \in {"committed", "accepted"} =>
                  down'[u][i].commit = Len(commits')
           /\ down'[u][i].kind = "accepted" =>
                  down'[u][i].ids \subseteq Seqs(Range(batch) \cap Logged')
           /\ down'[u][i] = Rejected("conflict") => ~Valid(batch)
           /\ down'[u][i] = Rejected("storage") => faults'.store = faults.store + 1
    /\ conn[u] = "joined" /\ Logged' # Logged =>
           /\ Len(down'[u]) > Len(down[u])
           /\ down'[u][Len(down'[u])] = CommittedAs(Len(commits'))
    /\ Valid(batch) /\ ~(Range(batch) \subseteq Logged') /\ current /\ u = t =>
           \E i \in 1..Len(down'[u]) : down'[u][i] = Rejected("storage")

\* A submission sends every socket what Told says.
LEMMA DownGrows ==
  ASSUME IInv, NEW t \in Tabs, NEW current \in BOOLEAN, NEW batch \in Seq(Ops),
         Run(batch), current => conn[t] = "joined", Serve(t, current, batch),
         NEW u \in Tabs
  PROVE  Told(u, t, current, batch)
<1>1. /\ TypeOK /\ commits \in Seq(Seq(Ops)) /\ Len(commits) \in Nat
      /\ down[u] \in Seq(Frames) /\ Len(down[u]) \in Nat
  BY Typed DEF IInv
<1>2. CASE Commit(t, current, batch)
  <2> DEFINE F == Fresh(batch)
             n == Len(commits) + 1
             ack == AcceptedAs(n, Seqs(Range(F)))
             com == CommittedAs(n)
  <2>1. /\ F \in Seq(Ops) /\ Valid(batch) /\ commits' = Append(commits, F)
        /\ down' \in [Tabs -> Seq(Frames)]
        /\ conn[u] # "joined" => down'[u] = down[u]
        /\ conn[u] = "joined" =>
               /\ Len(down'[u]) = Len(down[u]) + (IF u = t /\ current THEN 2 ELSE 1)
               /\ \A i \in 1..Len(down[u]) : down'[u][i] = down[u][i]
               /\ down'[u][Len(down'[u])] = com
               /\ u = t /\ current => down'[u][Len(down[u]) + 1] = ack
    BY <1>1, <1>2, CommitDoes
  <2>2. Len(commits') = n /\ Logged' = Logged \cup Range(F)
    BY <1>1, <2>1, LogGrows
  <2>3. Range(F) = Range(batch) \ Logged
    BY FreshIs
  <2>4. Seqs(Range(F)) \subseteq Seqs(Range(batch) \cap Logged')
    BY <2>2, <2>3 DEF Seqs
  <2>5. Range(batch) \subseteq Logged'
    BY <2>2, <2>3
  <2>6. /\ ack.kind = "accepted" /\ ack.commit = n /\ ack.ids = Seqs(Range(F))
        /\ com.kind = "committed" /\ com.commit = n
        /\ \A code : ack # Rejected(code) /\ com # Rejected(code)
    BY DEF AcceptedAs, CommittedAs, Rejected
  <2> HIDE DEF F, n, ack
  <2>7. CASE conn[u] # "joined"
    <3>1. down'[u] = down[u] /\ ~\E i \in 1..Len(down'[u]) : i > Len(down[u])
      BY <2>1, <2>7, <1>1
    <3> HIDE DEF com
    <3>2. QED
      BY <3>1, <2>5, <2>7, <1>1 DEF Told
  <2>8. CASE conn[u] = "joined" /\ ~(u = t /\ current)
    <3>1. Len(down'[u]) = Len(down[u]) + 1
      BY <2>1, <2>8
    <3>2. ASSUME NEW i \in 1..Len(down'[u]), i > Len(down[u])
          PROVE  i = Len(down'[u]) /\ down'[u][i] = com
      BY <3>1, <3>2, <2>1, <2>8, <1>1
    <3> HIDE DEF com
    <3>3. QED
      BY <3>1, <3>2, <2>1, <2>2, <2>5, <2>6, <2>8, <1>1 DEF com, Told
  <2>9. CASE conn[u] = "joined" /\ u = t /\ current
    <3>1. Len(down'[u]) = Len(down[u]) + 2
      BY <2>1, <2>9
    <3>2. ASSUME NEW i \in 1..Len(down'[u]), i > Len(down[u])
          PROVE  \/ i = Len(down[u]) + 1 /\ down'[u][i] = ack
                 \/ i = Len(down'[u]) /\ down'[u][i] = com
      <4>1. i = Len(down[u]) + 1 \/ i = Len(down'[u])
        BY <3>1, <3>2, <1>1
      <4>2. QED
        BY <4>1, <2>1, <2>9
    <3> HIDE DEF com
    <3>3. ASSUME NEW i \in 1..Len(down'[u]), i > Len(down[u])
          PROVE  /\ down'[u][i].kind \in {"committed", "accepted", "rejected"}
                 /\ down'[u][i].kind = "committed" => i = Len(down'[u])
                 /\ down'[u][i].commit = n
                 /\ down'[u][i].kind = "accepted" => down'[u][i].ids = Seqs(Range(F))
                 /\ \A code : down'[u][i] # Rejected(code)
      BY <3>2, <3>3, <2>6
    <3>4. ASSUME NEW i \in 1..Len(down'[u]), i > Len(down[u]),
                 down'[u][i].kind = "accepted"
          PROVE  down'[u][i].ids \subseteq Seqs(Range(batch) \cap Logged')
      BY <3>3, <3>4, <2>4
    <3>5. /\ Len(down'[u]) > Len(down[u]) /\ Len(down'[u]) \in Nat
          /\ \A i \in 1..Len(down[u]) : down'[u][i] = down[u][i]
          /\ down'[u][Len(down'[u])] = CommittedAs(Len(commits'))
      BY <3>1, <2>1, <2>2, <2>9, <1>1 DEF com
    <3>6. ASSUME NEW i \in 1..Len(down'[u]), i > Len(down[u])
          PROVE  /\ down'[u][i].commit = Len(commits')
                 /\ down'[u][i] # Rejected("conflict")
                 /\ down'[u][i] # Rejected("storage")
      BY <3>3, <3>6, <2>2
    <3>7. ASSUME NEW i \in 1..Len(down'[u]), i > Len(down[u])
          PROVE  /\ down'[u][i].kind \in {"committed", "accepted", "rejected"}
                 /\ down'[u][i].kind # "committed" => u = t /\ current
                 /\ down'[u][i].kind = "committed" => i = Len(down'[u])
                 /\ down'[u][i].kind \in {"committed", "accepted"} =>
                        down'[u][i].commit = Len(commits')
                 /\ down'[u][i].kind = "accepted" =>
                        down'[u][i].ids \subseteq Seqs(Range(batch) \cap Logged')
                 /\ down'[u][i] = Rejected("conflict") => ~Valid(batch)
                 /\ down'[u][i] = Rejected("storage") => faults'.store = faults.store + 1
      BY <3>3, <3>4, <3>6, <3>7, <2>9
    <3>8. Len(down[u]) <= Len(down'[u])
      BY <3>5, <1>1
    <3>9. ~(Valid(batch) /\ ~(Range(batch) \subseteq Logged'))
      BY <2>5
    <3> HIDE DEF Seqs
    <3>10. QED
      BY <3>5, <3>7, <3>8, <3>9, <2>9, <1>1, Zenon DEF Told
  <2>10. QED
    BY <2>7, <2>8, <2>9
<1>3. CASE ~Commit(t, current, batch)
  <2>1. \/ Replay(t, current, batch)
        \/ Refuse(t, current, batch)
        \/ StoreFailure(t, current, batch)
    BY <1>3 DEF Serve
  <2>2. /\ commits' = commits
        /\ \E f \in {AcceptedAs(Len(commits), {}), Rejected("conflict"), Rejected("storage")} :
                /\ f \in Frames
                /\ down' = IF current THEN [down EXCEPT ![t] = Append(@, f)] ELSE down
                /\ f.kind = "accepted" => Replay(t, current, batch)
                /\ f = Rejected("conflict") => Refuse(t, current, batch)
                /\ f = Rejected("storage") => faults'.store = faults.store + 1
    BY <1>1, <2>1, AnswerDoes
  <2>3. PICK f \in {AcceptedAs(Len(commits), {}), Rejected("conflict"), Rejected("storage")} :
                /\ f \in Frames
                /\ down' = IF current THEN [down EXCEPT ![t] = Append(@, f)] ELSE down
                /\ f.kind = "accepted" => Replay(t, current, batch)
                /\ f = Rejected("conflict") => Refuse(t, current, batch)
                /\ f = Rejected("storage") => faults'.store = faults.store + 1
    BY <2>2
  <2>4. Logged' = Logged
    BY <2>2, SameLogged
  <2>5. /\ down' \in [Tabs -> Seq(Frames)]
        /\ u # t \/ ~current => down'[u] = down[u]
        /\ current =>
                /\ Len(down'[t]) = Len(down[t]) + 1
                /\ \A i \in 1..Len(down[t]) : down'[t][i] = down[t][i]
                /\ down'[t][Len(down[t]) + 1] = f
    BY <1>1, <2>3, ReplyDoes
  <2>6. /\ f.kind \in {"accepted", "rejected"}
        /\ f.kind = "accepted" => f.commit = Len(commits') /\ f.ids = {}
        /\ f \in {Rejected("conflict"), Rejected("storage")} \/ f.kind = "accepted"
    BY <2>2 DEF AcceptedAs, Rejected
  <2>7. f = Rejected("conflict") => ~Valid(batch)
    BY <2>3 DEF Refuse
  <2>8. f.kind = "accepted" => Range(batch) \subseteq Logged
    <3>1. Range(Fresh(batch)) = Range(batch) \ Logged
      BY FreshIs
    <3>2. Range(<<>>) = {}
      BY DEF Range
    <3>3. QED
      BY <3>1, <3>2, <2>3 DEF Replay
  <2>9. CASE u # t \/ ~current
    BY <2>5, <2>9, <2>4, <1>1 DEF Told
  <2>10. CASE u = t /\ current
    <3>1. ASSUME NEW i \in 1..Len(down'[u]), i > Len(down[u])
          PROVE  down'[u][i] = f
      <4>1. i = Len(down[u]) + 1
        BY <3>1, <2>5, <2>10, <1>1
      <4>2. QED
        BY <4>1, <2>5, <2>10
    <3>2. Len(down[u]) + 1 \in 1..Len(down'[u]) /\ down'[u][Len(down[u]) + 1] = f
      BY <2>5, <2>10, <1>1
    <3>3. conn[u] = "joined"
      BY <2>10
    <3>4. Valid(batch) /\ ~(Range(batch) \subseteq Logged') => f = Rejected("storage")
      BY <2>4, <2>6, <2>7, <2>8
    <3>5. ASSUME NEW i \in 1..Len(down'[u]), i > Len(down[u])
          PROVE  /\ down'[u][i].kind \in {"accepted", "rejected"}
                 /\ down'[u][i].kind = "accepted" =>
                        down'[u][i].commit = Len(commits') /\ down'[u][i].ids = {}
                 /\ down'[u][i] = Rejected("conflict") => ~Valid(batch)
                 /\ down'[u][i] = Rejected("storage") => faults'.store = faults.store + 1
      BY <3>1, <3>5, <2>3, <2>6, <2>7
    <3>6. /\ Len(down'[u]) = Len(down[u]) + 1
          /\ \A i \in 1..Len(down[u]) : down'[u][i] = down[u][i]
      BY <2>5, <2>10
    <3>7. QED
      BY <3>2, <3>3, <3>4, <3>5, <3>6, <2>4, <2>10, <1>1 DEF Told
  <2>11. QED
    BY <2>9, <2>10
<1>4. QED
  BY <1>2, <1>3

\* The store has refused as often as before, or once more.
LEMMA StoreOnward ==
  ASSUME IInv, NEW t \in Tabs, NEW current \in BOOLEAN, NEW batch \in Seq(Ops),
         Serve(t, current, batch)
  PROVE  faults.store \in Nat /\ faults'.store \in Nat /\ faults.store <= faults'.store
<1>1. TypeOK /\ faults \in [drops : 0..MaxDrops, store : 0..MaxStoreFailures]
  BY DEF IInv, TypeOK
<1>2. faults.store \in Nat
  BY <1>1, CollabAssumption
<1>3. CASE Commit(t, current, batch)
  <2>1. faults' = faults
    BY <1>1, <1>3, CommitDoes
  <2>2. QED
    BY <2>1, <1>2
<1>4. CASE ~Commit(t, current, batch)
  <2>1. faults' = faults \/ faults' = [faults EXCEPT !.store = @ + 1]
    BY <1>4 DEF Serve, Replay, Refuse, StoreFailure
  <2>2. faults'.store = faults.store \/ faults'.store = faults.store + 1
    BY <2>1, <1>1
  <2>3. QED
    BY <2>2, <1>2
<1>5. QED
  BY <1>3, <1>4

\* A batch on its way up is served, and is then no longer on its way.
Served(t, current, batch) ==
    /\ Run(batch) /\ batch \in Sent(t) /\ Serve(t, current, batch)
    /\ UNCHANGED <<conn, driver, authored>>
    /\ \A u \in Tabs : Sent(u)' \subseteq Sent(u)
    /\ \A u \in Tabs : u # t \/ ~current => up'[u] = up[u]
    /\ current =>
           /\ conn[t] = "joined" /\ Len(up[t]) \in Nat \ {0}
           /\ batch = up[t][1] /\ Len(up'[t]) = Len(up[t]) - 1
           /\ \A i \in 1..Len(up'[t]) : up'[t][i] = up[t][i + 1]

\* That is what the service does, whichever socket it reads.
LEMMA SubmitDoes ==
  ASSUME IInv, NEW t \in Tabs, Submit(t) \/ SubmitOld(t)
  PROVE  \E current \in BOOLEAN, batch \in Seq(Ops) : Served(t, current, batch)
<1>1. up \in [Tabs -> Seq(Seq(Ops))] /\ old \in [Tabs -> Seq(Seq(Ops))]
  BY DEF IInv, TypeOK
<1>2. ASSUME NEW p \in Seq(Seq(Ops)), p # <<>>
      PROVE  1 \in 1..Len(p) /\ Head(p) = p[1] /\ p[1] \in Range(p)
             /\ Tail(p) \in Seq(Seq(Ops)) /\ Range(Tail(p)) \subseteq Range(p)
  <2>1. 1 \in 1..Len(p) /\ Head(p) = p[1] /\ Tail(p) \in Seq(Seq(Ops))
        /\ Len(p) \in Nat /\ Len(Tail(p)) = Len(p) - 1
        /\ \A i \in 1..Len(Tail(p)) : Tail(p)[i] = p[i + 1]
    BY <1>2
  <2>2. \A i \in 1..Len(Tail(p)) : i + 1 \in 1..Len(p)
    BY <2>1
  <2>3. Range(p) = {p[i] : i \in 1..Len(p)}
        /\ Range(Tail(p)) = {Tail(p)[i] : i \in 1..Len(Tail(p))}
    BY <2>1, RangeEquality
  <2>4. QED
    BY <2>1, <2>2, <2>3
<1>3. CASE Submit(t)
  <2> DEFINE batch == Head(up[t])
  <2>1. /\ up[t] # <<>> /\ Serve(t, TRUE, batch) /\ conn[t] = "joined"
        /\ up' = [up EXCEPT ![t] = Tail(up[t])]
        /\ UNCHANGED <<conn, old, driver, authored>>
    BY <1>3 DEF Submit
  <2>2. /\ 1 \in 1..Len(up[t]) /\ batch = up[t][1] /\ batch \in Range(up[t])
        /\ Range(Tail(up[t])) \subseteq Range(up[t])
    BY <2>1, <1>1, <1>2
  <2>3. batch \in Seq(Ops) /\ Run(batch)
    BY <2>2, OfTab
  <2>4. /\ \A u \in Tabs \ {t} : up'[u] = up[u]
        /\ Len(up[t]) \in Nat \ {0} /\ Len(up'[t]) = Len(up[t]) - 1
        /\ \A i \in 1..Len(up'[t]) : up'[t][i] = up[t][i + 1]
    BY <1>1, <2>1, TailDoes
  <2>5. ASSUME NEW u \in Tabs PROVE Sent(u)' \subseteq Sent(u)
    <3>1. Range(up'[u]) \subseteq Range(up[u])
      <4>1. CASE u = t
        BY <4>1, <2>1, <2>2, <1>1
      <4>2. CASE u # t
        BY <4>2, <2>4
      <4>3. QED
        BY <4>1, <4>2
    <3>2. QED
      BY <3>1, <2>1 DEF Sent
  <2>6. batch \in Sent(t)
    BY <2>2 DEF Sent
  <2> HIDE DEF batch
  <2>7. \A u \in Tabs : u # t \/ ~TRUE => up'[u] = up[u]
    BY <2>4
  <2>8. QED
    BY <2>1, <2>2, <2>3, <2>4, <2>5, <2>6, <2>7 DEF Served
<1>4. CASE SubmitOld(t)
  <2> DEFINE batch == Head(old[t])
  <2>1. /\ old[t] # <<>> /\ Serve(t, FALSE, batch)
        /\ old' = [old EXCEPT ![t] = Tail(old[t])]
        /\ UNCHANGED <<conn, up, driver, authored>>
    BY <1>4 DEF SubmitOld
  <2>2. /\ 1 \in 1..Len(old[t]) /\ batch = old[t][1] /\ batch \in Range(old[t])
        /\ Range(Tail(old[t])) \subseteq Range(old[t])
    BY <2>1, <1>1, <1>2
  <2>3. batch \in Seq(Ops) /\ Run(batch)
    BY <2>2, OfTab
  <2>4. ASSUME NEW u \in Tabs PROVE Sent(u)' \subseteq Sent(u)
    <3>1. Range(old'[u]) \subseteq Range(old[u])
      <4>1. CASE u = t
        BY <4>1, <2>1, <2>2, <1>1
      <4>2. CASE u # t
        BY <4>2, <2>1, <1>1
      <4>3. QED
        BY <4>1, <4>2
    <3>2. QED
      BY <3>1, <2>1 DEF Sent
  <2>5. batch \in Sent(t)
    BY <2>2 DEF Sent
  <2> HIDE DEF batch
  <2>6. \A u \in Tabs : up'[u] = up[u]
    BY <2>1
  <2>7. QED
    BY <2>1, <2>3, <2>4, <2>5, <2>6 DEF Served
<1>5. QED
  BY <1>3, <1>4

\* Served, a batch leaves every tab's own operations its own.
LEMMA ServedHoldsOwn ==
  ASSUME IInv, OInv, OwnActors, NEW t \in Tabs, NEW current \in BOOLEAN,
         NEW batch \in Seq(Ops), Served(t, current, batch), NEW u \in Tabs
  PROVE  HoldsOwn(u)' /\ ContextOK(u)'
<1>1. /\ UNCHANGED <<conn, driver, authored>> /\ Sent(u)' \subseteq Sent(u)
      /\ batch \in Sent(t) /\ Run(batch) /\ Serve(t, current, batch)
  BY DEF Served
<1>2. HoldsOwn(u) /\ ContextOK(u) /\ HoldsOwn(t)
  BY OwnTab
<1>3. /\ Logged \subseteq Logged' /\ Logged' \subseteq Logged \cup Range(batch)
      /\ \A b \in Actors :
             LoggedOf(b) \in Nat /\ LoggedOf(b)' \in Nat /\ LoggedOf(b) <= LoggedOf(b)'
  BY <1>1, LogOnward
<1>4. Range(batch) \subseteq authored[t]
  BY <1>1, <1>2 DEF HoldsOwn
<1>5. Of(ActorOf[u], Logged') \subseteq authored[u]
  <2>1. ASSUME NEW op \in Of(ActorOf[u], Logged') PROVE op \in authored[u]
    <3>1. CASE op \in Logged
      BY <2>1, <3>1, <1>2 DEF HoldsOwn, Of
    <3>2. CASE op \in Range(batch)
      <4>1. op.actor = ActorOf[t]
        BY <3>2, <1>2, <1>4, Mine
      <4>2. u = t
        BY <2>1, <4>1 DEF OwnActors, Of
      <4>3. QED
        BY <3>2, <4>2, <1>4
    <3>3. QED
      BY <2>1, <3>1, <3>2, <1>3 DEF Of
  <2>2. QED
    BY <2>1
<1>6. HoldsOwn(u)'
  <2>1. /\ Dense(authored'[u])
        /\ Of(ActorOf[u], authored'[u]) = authored'[u]
        /\ Of(ActorOf[u], driver'[u].replica) = authored'[u]
        /\ driver'[u].replica \subseteq Logged' \cup authored'[u]
        /\ Of(ActorOf[u], Logged') \subseteq authored'[u]
        /\ \A b \in Sent(u)' : Range(b) \subseteq authored'[u]
        /\ ~driver'[u].joined => authored'[u] = {}
    BY <1>1, <1>2, <1>3, <1>5 DEF HoldsOwn
  <2>2. QED
    BY <2>1 DEF HoldsOwn, Dense, Of
<1>7. ContextOK(u)'
  <2>1. ASSUME NEW op \in authored[u], NEW b \in Actors, b # ActorOf[u]
        PROVE  op.seen[b] <= LoggedOf(b)'
    <3>1. op.seen[b] <= LoggedOf(b)
      BY <2>1, <1>2 DEF ContextOK
    <3>2. op.seen[b] \in Nat
      <4>1. op \in Ops
        BY Typed DEF IInv
      <4>2. QED
        BY <4>1, OpIs
    <3>3. QED
      BY <3>1, <3>2, <1>3
  <2>2. \A op \in authored'[u] :
            /\ op.seen[ActorOf[u]] = op.seq - 1
            /\ \A b \in Actors : b # ActorOf[u] => op.seen[b] <= LoggedOf(b)'
    BY <2>1, <1>1, <1>2 DEF ContextOK
  <2>3. QED
    BY <2>2 DEF ContextOK
<1>8. QED
  BY <1>6, <1>7

\* A tab's own operations, once logged, are numbered up to what is logged.
LEMMA LoggedNumbers ==
  ASSUME IInv, NEW t \in Tabs, HoldsOwn(t), NEW current \in BOOLEAN,
         NEW batch \in Seq(Ops), batch \in Sent(t), Run(batch),
         Serve(t, current, batch)
  PROVE  \A op \in authored[t] \cap Logged' : op.seq <= LoggedOf(ActorOf[t])'
<1> DEFINE a == ActorOf[t]
           S == Of(a, Logged')
<1>1. a \in Actors /\ authored[t] \in SUBSET Ops /\ Logged \in SUBSET Ops
      /\ \A op \in authored[t] : op.actor = a
  BY Mine, LoggedDense DEF IInv
<1>2. Logged' \subseteq Logged \cup Range(batch)
  BY LogOnward
<1>3. LogIsDense' /\ commits' \in Seq(Seq(Ops))
  BY ServeKeeps
<1>4. S \in SUBSET Ops
  <2>1. Range(batch) \subseteq authored[t]
    BY DEF HoldsOwn
  <2>2. QED
    BY <2>1, <1>1, <1>2 DEF Of
<1>5. Dense(S)
  <2>1. Len(commits') \in 0..Len(commits')
    BY <1>3
  <2>2. \A n \in 0..Len(commits') : Dense(Of(a, LoggedAt(n)'))
    BY <1>1, <1>3 DEF LogIsDense, Dense, Of
  <2>3. Logged' = LoggedAt(Len(commits))'
    BY DEF Logged
  <2>4. LoggedAt(Len(commits))' = LogAt(commits', Len(commits'))
    BY DEF LoggedAt, LogAt
  <2>5. \A n : LoggedAt(n)' = LogAt(commits', n)
    BY DEF LoggedAt, LogAt
  <2>6. QED
    BY <2>1, <2>2, <2>3, <2>4, <2>5
<1>6. LoggedOf(a)' = Cardinality(S)
  BY DEF LoggedOf, Of
<1>7. \A op \in authored[t] \cap Logged' : op \in S
  BY <1>1 DEF Of
<1> HIDE DEF S
<1>8. Cardinality(S) \in Nat /\ \A op \in S : op.seq \in 1..Cardinality(S)
  BY <1>4, <1>5, DenseProps
<1>9. QED
  BY <1>6, <1>7, <1>8

\* Its marks and its frames stay as they should be.
LEMMA ServedMarks ==
  ASSUME IInv, OInv, NEW t \in Tabs, NEW current \in BOOLEAN,
         NEW batch \in Seq(Ops), Served(t, current, batch), NEW u \in Tabs
  PROVE  MarksOK(u)' /\ PhaseOK(u)' /\ (Unwelcomed(u)' <=> Unwelcomed(u))
<1>1. /\ UNCHANGED <<conn, driver, authored>>
      /\ batch \in Sent(t) /\ Run(batch) /\ Serve(t, current, batch)
      /\ current => conn[t] = "joined"
  BY DEF Served
<1>2. MarksOK(u) /\ PhaseOK(u) /\ HoldsOwn(t)
  BY OwnTab
<1>3. /\ Len(commits) \in Nat
      /\ \A n \in 0..Len(commits) : LogAt(commits', n) = LogAt(commits, n)
      /\ Logged' \subseteq Logged \cup Range(batch)
      /\ \A b \in Actors :
             LoggedOf(b) \in Nat /\ LoggedOf(b)' \in Nat /\ LoggedOf(b) <= LoggedOf(b)'
  BY <1>1, LogOnward
<1>4. /\ Len(down[u]) \in Nat /\ Len(down'[u]) \in Nat
      /\ Len(down[u]) <= Len(down'[u])
      /\ \A i \in 1..Len(down[u]) : down'[u][i] = down[u][i]
      /\ conn[u] # "joined" => Len(down'[u]) = Len(down[u])
      /\ \A i \in 1..Len(down'[u]) : i > Len(down[u]) =>
             /\ down'[u][i].kind \in {"committed", "accepted", "rejected"}
             /\ down'[u][i].kind # "committed" => u = t /\ current
             /\ down'[u][i].kind = "accepted" =>
                    down'[u][i].ids \subseteq Seqs(Range(batch) \cap Logged')
  <2>1. Told(u, t, current, batch)
    BY <1>1, DownGrows
  <2>2. QED
    BY <2>1 DEF Told
<1>5. ActorOf[u] \in Actors /\ ActorOf[t] \in Actors
  BY Typed DEF IInv
<1>6. \A op \in authored[t] \cap Logged' : op.seq <= LoggedOf(ActorOf[t])'
  BY <1>1, <1>2, LoggedNumbers
<1>7. ASSUME NEW i \in 1..Len(down'[u]), down'[u][i].kind = "accepted",
             NEW n \in down'[u][i].ids
      PROVE  n <= LoggedOf(ActorOf[u])'
  <2>1. CASE i <= Len(down[u])
    <3>1. i \in 1..Len(down[u]) /\ down'[u][i] = down[u][i]
      BY <2>1, <1>4
    <3>2. n <= LoggedOf(ActorOf[u])
      BY <3>1, <1>2, <1>7 DEF MarksOK
    <3>3. n \in Nat
      BY <3>1, <1>7, OfTab, FrameIs
    <3>4. QED
      BY <3>2, <3>3, <1>3, <1>5
  <2>2. CASE i > Len(down[u])
    <3>1. u = t /\ n \in Seqs(Range(batch) \cap Logged')
      BY <2>2, <1>4, <1>7
    <3>2. PICK op \in Range(batch) \cap Logged' : n = op.seq
      BY <3>1 DEF Seqs
    <3>3. op \in authored[t]
      BY <1>1, <1>2 DEF HoldsOwn
    <3>4. QED
      BY <3>1, <3>2, <3>3, <1>6
  <2>3. QED
    BY <2>1, <2>2, <1>4
<1>8. MarksOK(u)'
  <2>1. driver[u].acknowledged_seq \in Nat /\ driver[u].commit_seq \in 0..Len(commits)
    BY Typed, DriverIs, OfTab DEF IInv
  <2>2. driver'[u].acknowledged_seq <= LoggedOf(ActorOf[u])'
    <3>1. driver[u].acknowledged_seq <= LoggedOf(ActorOf[u])
      BY <1>2 DEF MarksOK
    <3>2. QED
      BY <3>1, <2>1, <1>1, <1>3, <1>5
  <2>3. LogAt(commits', driver'[u].commit_seq) \subseteq driver'[u].replica
    BY <2>1, <1>1, <1>2, <1>3 DEF MarksOK
  <2>4. driver'[u].submitted_through <= Cardinality(authored'[u])
    BY <1>1, <1>2 DEF MarksOK
  <2>5. QED
    BY <2>2, <2>3, <2>4, <1>7 DEF MarksOK
<1>9. Unwelcomed(u)' <=> Unwelcomed(u)
  <2>1. CASE Len(down[u]) >= 1
    BY <2>1, <1>4 DEF Unwelcomed
  <2>2. CASE Len(down[u]) = 0
    <3>1. Len(down'[u]) >= 1 => down'[u][1].kind # "welcome"
      BY <2>2, <1>4
    <3>2. QED
      BY <2>2, <3>1 DEF Unwelcomed
  <2>3. QED
    BY <2>1, <2>2, <1>4
<1>10. Unwelcomed(u) => ~(u = t /\ current)
  <2>1. SUFFICES ASSUME Unwelcomed(u), u = t, current PROVE FALSE
    OBVIOUS
  <2>2. Len(up[t]) # 0
    BY <2>1 DEF Served
  <2>3. QED
    BY <2>1, <2>2, <1>2 DEF PhaseOK
<1>11. PhaseOK(u)'
  <2>1. CASE u = t /\ current
    <3>1. conn'[u] = "joined" /\ ~Unwelcomed(u)'
      BY <2>1, <1>1, <1>9, <1>10
    <3>2. \A i \in 2..Len(down'[u]) : down'[u][i].kind # "welcome"
      <4>1. \A i \in 2..Len(down'[u]) : i \in 1..Len(down'[u]) /\
                (i > Len(down[u]) \/ (i \in 2..Len(down[u]) /\ i \in 1..Len(down[u])))
        <5>1. Len(down[u]) \in Nat /\ Len(down'[u]) \in Nat
          BY <1>4
        <5>2. QED
          BY <5>1
      <4>2. QED
        BY <4>1, <1>2, <1>4 DEF PhaseOK
    <3>3. QED
      BY <3>1, <3>2 DEF PhaseOK
  <2>2. CASE ~(u = t /\ current)
    <3>1. up'[u] = up[u]
      BY <2>2 DEF Served
    <3>2. ASSUME NEW i \in 2..Len(down'[u])
          PROVE  /\ down'[u][i].kind # "welcome"
                 /\ Unwelcomed(u) => down'[u][i].kind = "committed"
      <4>1. CASE i > Len(down[u])
        BY <4>1, <2>2, <1>4
      <4>2. CASE ~(i > Len(down[u]))
        <5>1. i \in 2..Len(down[u]) /\ i \in 1..Len(down[u])
          BY <4>2, <1>4
        <5>2. QED
          BY <5>1, <1>2, <1>4 DEF PhaseOK
      <4>3. QED
        BY <4>1, <4>2
    <3>3. conn'[u] \in {"none", "opening"} =>
              Len(down'[u]) = 0 /\ Len(up'[u]) = 0 /\ driver'[u].phase # "live"
      BY <3>1, <1>1, <1>2, <1>4 DEF PhaseOK
    <3>4. Unwelcomed(u)' => Len(up'[u]) = 0 /\ driver'[u].phase # "live"
      BY <3>1, <1>1, <1>2, <1>9 DEF PhaseOK
    <3>5. QED
      BY <3>2, <3>3, <3>4, <1>9 DEF PhaseOK
  <2>3. QED
    BY <2>1, <2>2
<1>12. QED
  BY <1>8, <1>9, <1>11

\* Every joined connection is told of the commit after all before it.
LEMMA ServedTold ==
  ASSUME IInv, OInv, NEW t \in Tabs, NEW current \in BOOLEAN,
         NEW batch \in Seq(Ops), Served(t, current, batch), NEW u \in Tabs
  PROVE  ToldInOrder(u)'
<1> DEFINE m == Len(down[u])
           n == Len(down'[u])
           ToldNow(op, i) == \/ Holds(u, op)'
                             \/ \E j \in 1..i : op \in BringsOf(commits', down'[u][j])
<1>1. /\ UNCHANGED <<conn, driver, authored>>
      /\ batch \in Sent(t) /\ Run(batch) /\ Serve(t, current, batch)
      /\ current => conn[t] = "joined"
  BY DEF Served
<1>2. ToldInOrder(u) /\ HoldsOwn(u)
  BY OwnTab
<1>3. /\ Len(commits) \in Nat
      /\ \A k \in 1..Len(commits) : commits'[k] = commits[k]
      /\ \A k \in 0..Len(commits) : LogAt(commits', k) = LogAt(commits, k)
      /\ Logged' \subseteq Logged \cup Range(batch)
      /\ Logged' = LogAt(commits', Len(commits'))
      /\ \/ Logged' = Logged
         \/ Logged' = Logged \cup Range(commits'[Len(commits')])
  BY <1>1, LogOnward
<1>4. Told(u, t, current, batch)
  BY <1>1, DownGrows
<1>5. /\ m \in Nat /\ n \in Nat /\ m <= n
      /\ \A i \in 1..m : down'[u][i] = down[u][i]
      /\ conn[u] # "joined" => n = m
  BY <1>4 DEF Told
<1>6. Unwelcomed(u)' <=> Unwelcomed(u)
  BY ServedMarks
<1>7. \A op : Holds(u, op) => Holds(u, op)'
  BY <1>1, <1>6 DEF Holds
<1>8. ASSUME NEW j \in 1..m
      PROVE  BringsOf(commits', down'[u][j]) = BringsOf(commits, down[u][j])
             /\ (down[u][j].kind \in {"committed", "accepted"} =>
                    LogAt(commits', down[u][j].commit) = LogAt(commits, down[u][j].commit))
  <2>1. FrameOK(down[u][j], Len(commits)) /\ down'[u][j] = down[u][j]
    BY <1>5, <1>8, OfTab
  <2>2. CASE down[u][j].kind = "welcome"
    BY <2>1, <2>2, <1>3 DEF FrameOK, BringsOf
  <2>3. CASE down[u][j].kind = "committed"
    <3>1. down[u][j].commit \in 1..Len(commits) /\ down[u][j].commit \in 0..Len(commits)
      BY <2>1, <2>3, <1>3 DEF FrameOK
    <3>2. QED
      BY <2>1, <2>3, <3>1, <1>3 DEF BringsOf
  <2>4. CASE down[u][j].kind \notin {"welcome", "committed"}
    BY <2>1, <2>4, <1>3 DEF FrameOK, BringsOf
  <2>5. QED
    BY <2>2, <2>3, <2>4
<1>9. ASSUME NEW op, NEW i \in 0..m, ToldBy(u, op, i)
      PROVE  ToldNow(op, i)
  <2>1. CASE Holds(u, op)
    BY <2>1, <1>7 DEF ToldBy
  <2>2. CASE \E j \in 1..i : op \in BringsOf(commits, down[u][j])
    <3>1. \A j \in 1..i : j \in 1..m
      BY <1>5
    <3>2. QED
      BY <2>2, <3>1, <1>8 DEF ToldBy
  <2>3. QED
    BY <2>1, <2>2, <1>9 DEF ToldBy
<1>10. ASSUME conn[u] = "joined", NEW op \in Logged, NEW i \in Nat, i >= m
       PROVE  ToldNow(op, i)
  <2>1. ToldBy(u, op, m)
    BY <1>2, <1>10 DEF ToldInOrder
  <2>2. m \in 0..m /\ \A j \in 1..m : j \in 1..i
    BY <1>5, <1>10
  <2>3. \A k \in 0..m : ToldBy(u, op, k) =>
            Holds(u, op)' \/ \E j \in 1..k : op \in BringsOf(commits', down'[u][j])
    BY <1>9 DEF ToldBy
  <2>4. Holds(u, op)' \/ \E j \in 1..m : op \in BringsOf(commits', down'[u][j])
    BY <2>1, <2>2, <2>3
  <2>5. QED
    BY <2>2, <2>4 DEF ToldBy
<1>11. ASSUME conn[u] = "joined", NEW op \in Logged'
       PROVE  op \in Logged \/ \E j \in 1..n : op \in BringsOf(commits', down'[u][j])
  <2>1. CASE Logged' = Logged
    BY <2>1, <1>11
  <2>2. CASE Logged' # Logged /\ Logged' = Logged \cup Range(commits'[Len(commits')])
    <3>1. n > m /\ down'[u][n] = CommittedAs(Len(commits'))
      BY <2>2, <1>4, <1>11 DEF Told
    <3>2. BringsOf(commits', down'[u][n]) = Range(commits'[Len(commits')])
      BY <3>1 DEF BringsOf, CommittedAs
    <3>3. n \in 1..n
      BY <3>1, <1>5
    <3>4. QED
      BY <2>2, <3>2, <3>3, <1>11
  <2>3. QED
    BY <2>1, <2>2, <1>3
<1>12. ASSUME conn[u] = "joined", NEW op \in Logged'
       PROVE  ToldNow(op, n)
  <2>1. CASE op \in Logged
    BY <2>1, <1>5, <1>10, <1>12
  <2>2. CASE \E j \in 1..n : op \in BringsOf(commits', down'[u][j])
    BY <2>2 DEF ToldBy
  <2>3. QED
    BY <2>1, <2>2, <1>11, <1>12
<1>13. ASSUME NEW i \in 1..n, down'[u][i].kind \in {"committed", "accepted"},
              NEW op \in LogAt(commits', down'[u][i].commit)
       PROVE  ToldNow(op, i)
  <2>1. CASE i <= m
    <3>1. i \in 1..m /\ i \in 0..m
      BY <2>1, <1>5
    <3>2. ToldBy(u, op, i)
      BY <3>1, <1>2, <1>5, <1>8, <1>13 DEF ToldInOrder
    <3>3. QED
      BY <3>1, <3>2, <1>9
  <2>2. CASE i > m
    <3>1. conn[u] = "joined"
      BY <2>2, <1>5
    <3>2. /\ down'[u][i].kind = "committed" => i = n
          /\ down'[u][i].kind = "accepted" => u = t /\ current
          /\ down'[u][i].commit = Len(commits')
      BY <2>2, <1>4, <1>13 DEF Told
    <3>3. op \in Logged'
      BY <3>2, <1>3, <1>13
    <3>4. CASE down'[u][i].kind = "committed"
      BY <3>1, <3>2, <3>3, <3>4, <1>12
    <3>5. CASE down'[u][i].kind = "accepted"
      <4>1. CASE op \in Logged
        BY <4>1, <3>1, <2>2, <1>5, <1>10
      <4>2. CASE op \in Range(batch)
        <5>1. op \in authored[u]
          BY <4>2, <3>2, <3>5, <1>1, <1>2 DEF HoldsOwn
        <5>2. authored[u] \subseteq driver[u].replica
          BY <1>2, Mine
        <5>3. Holds(u, op)
          BY <5>1, <5>2 DEF Holds
        <5>4. QED
          BY <5>3, <1>7 DEF ToldBy
      <4>3. QED
        BY <3>3, <4>1, <4>2, <1>3
    <3>6. QED
      BY <3>4, <3>5, <1>13
  <2>3. QED
    BY <2>1, <2>2, <1>5
<1>14. ASSUME conn'[u] = "joined", NEW op \in Logged'
       PROVE  \/ Holds(u, op)'
              \/ \E j \in 1..n : op \in BringsOf(commits', down'[u][j])
  BY <1>1, <1>12, <1>14 DEF ToldBy
<1>15. QED
  BY <1>13, <1>14 DEF ToldInOrder, ToldBy

\* While nothing is refused, what is left on the way up leaves no gap.
LEMMA ServedNoGap ==
  ASSUME IInv, OInv, NEW t \in Tabs, NEW current \in BOOLEAN,
         NEW batch \in Seq(Ops), Served(t, current, batch), NEW u \in Tabs
  PROVE  NoGap(u)'
<1> DEFINE L == LoggedOf(ActorOf[u])
           LL == LoggedOf(ActorOf[u])'
           st == driver[u].submitted_through
<1>1. /\ UNCHANGED <<conn, driver, authored>>
      /\ batch \in Sent(t) /\ Run(batch) /\ Serve(t, current, batch)
      /\ current => conn[t] = "joined"
  BY DEF Served
<1>2. NoGap(u) /\ HoldsOwn(u) /\ ContextOK(u)
  BY OwnTab
<1>3. ActorOf[u] \in Actors
  BY Typed DEF IInv
<1>4. L \in Nat /\ LL \in Nat /\ L <= LL
  BY <1>1, <1>3, LogOnward
<1>5. Told(u, t, current, batch)
  BY <1>1, DownGrows
<1>6. Broken(u) => Broken(u)'
  <2>1. /\ Len(down[u]) \in Nat /\ Len(down'[u]) \in Nat /\ Len(down[u]) <= Len(down'[u])
        /\ \A i \in 1..Len(down[u]) : down'[u][i] = down[u][i]
    BY <1>5 DEF Told
  <2>2. \A i \in 1..Len(down[u]) : i \in 1..Len(down'[u])
    BY <2>1
  <2>3. QED
    BY <2>1, <2>2, <1>1 DEF Broken, StorageAt, Rejected
<1>7. SUFFICES ASSUME conn'[u] \in {"opening", "joined"}, ~Broken(u)'
               PROVE  /\ \/ driver'[u].submitted_through <= LL
                         \/ \E j \in 1..Len(up'[u]) : \E op \in Range(up'[u][j]) :
                                op.seq = driver'[u].submitted_through
                      /\ \A i \in 1..Len(up'[u]) :
                          \/ up'[u][i][1].seq <= LL + 1
                          \/ \E j \in 1..(i - 1) : \E op \in Range(up'[u][j]) :
                                 op.seq = up'[u][i][1].seq - 1
  BY DEF NoGap, Carried
<1>8. /\ \/ st <= L
         \/ \E j \in 1..Len(up[u]) : \E op \in Range(up[u][j]) : op.seq = st
      /\ \A i \in 1..Len(up[u]) :
            \/ up[u][i][1].seq <= L + 1
            \/ \E j \in 1..(i - 1) : \E op \in Range(up[u][j]) :
                   op.seq = up[u][i][1].seq - 1
  BY <1>1, <1>2, <1>6, <1>7 DEF NoGap, Carried
<1>9. st \in Nat /\ driver'[u].submitted_through = st
  BY <1>1, Typed, DriverIs DEF IInv
<1>10. ASSUME NEW i \in 1..Len(up[u])
       PROVE  up[u][i] \in Seq(Ops) /\ 1 \in 1..Len(up[u][i])
              /\ up[u][i][1].seq \in Nat
  <2>1. up[u][i] \in Seq(Ops) /\ Run(up[u][i])
    BY OfTab
  <2>2. 1 \in 1..Len(up[u][i])
    BY <2>1 DEF Run
  <2>3. up[u][i][1] \in Ops
    BY <2>1, <2>2
  <2>4. QED
    BY <2>1, <2>2, <2>3, OpIs
<1> HIDE DEF L, LL, st
<1>11. CASE ~(u = t /\ current)
  <2>1. up'[u] = up[u]
    BY <1>11 DEF Served
  <2>2. st <= L => st <= LL
    BY <1>4, <1>9
  <2>3. ASSUME NEW i \in 1..Len(up[u]), up[u][i][1].seq <= L + 1
        PROVE  up[u][i][1].seq <= LL + 1
    BY <2>3, <1>4, <1>10
  <2>4. QED
    BY <2>1, <2>2, <2>3, <1>8, <1>9
<1>12. CASE u = t /\ current
  <2>1. /\ Len(up[u]) \in Nat \ {0} /\ batch = up[u][1] /\ Len(up'[u]) = Len(up[u]) - 1
        /\ \A i \in 1..Len(up'[u]) : up'[u][i] = up[u][i + 1]
    BY <1>12 DEF Served
  <2>2. 1 \in 1..Len(up[u]) /\ 1..(1 - 1) = {}
    BY <2>1
  <2>3. batch[1].seq <= L + 1
    BY <2>1, <2>2, <1>8
  <2>4. Range(batch) \subseteq authored[u]
    BY <1>1, <1>2, <1>12 DEF HoldsOwn
  <2>5. Valid(batch)
    BY <2>3, <2>4, <1>1, <1>2, ValidWithoutGap DEF L
  <2>6. Range(batch) \subseteq Logged'
    BY <2>5, <1>5, <1>7, <1>12 DEF Told, Broken, StorageAt, Rejected
  <2>7. \A op \in Range(batch) : op.seq <= LL
    BY <2>4, <2>6, <1>1, <1>2, <1>12, LoggedNumbers DEF LL
  <2>8. \/ st <= LL
        \/ \E j \in 1..Len(up'[u]) : \E op \in Range(up'[u][j]) : op.seq = st
    <3>1. CASE st <= L
      BY <3>1, <1>4, <1>9
    <3>2. CASE \E j \in 1..Len(up[u]) : \E op \in Range(up[u][j]) : op.seq = st
      <4>1. PICK j \in 1..Len(up[u]) : \E op \in Range(up[u][j]) : op.seq = st
        BY <3>2
      <4>2. CASE j = 1
        BY <4>1, <4>2, <2>1, <2>7
      <4>3. CASE j # 1
        <5> DEFINE k == j - 1
        <5>1. k \in 1..Len(up'[u]) /\ k + 1 = j
          BY <4>3, <2>1
        <5> HIDE DEF k
        <5>2. up'[u][k] = up[u][j]
          BY <5>1, <2>1
        <5>3. QED
          BY <5>1, <5>2, <4>1
      <4>4. QED
        BY <4>2, <4>3
    <3>3. QED
      BY <3>1, <3>2, <1>8
  <2>9. ASSUME NEW i \in 1..Len(up'[u])
        PROVE  \/ up'[u][i][1].seq <= LL + 1
               \/ \E j \in 1..(i - 1) : \E op \in Range(up'[u][j]) :
                      op.seq = up'[u][i][1].seq - 1
    <3> DEFINE s == up'[u][i][1].seq
    <3>1. up'[u][i] = up[u][i + 1] /\ i + 1 \in 1..Len(up[u])
      BY <2>1
    <3>2. \/ s <= L + 1
          \/ \E j \in 1..i : \E op \in Range(up[u][j]) : op.seq = s - 1
      <4>1. (i + 1) - 1 = i
        OBVIOUS
      <4>2. QED
        BY <3>1, <4>1, <1>8
    <3>3. s \in Nat
      BY <3>1, <1>10
    <3> HIDE DEF s
    <3>4. CASE s <= L + 1
      BY <3>3, <3>4, <1>4 DEF s
    <3>5. CASE \E j \in 1..i : \E op \in Range(up[u][j]) : op.seq = s - 1
      <4>1. PICK j \in 1..i : \E op \in Range(up[u][j]) : op.seq = s - 1
        BY <3>5
      <4>2. CASE j = 1
        <5>1. s - 1 <= LL
          BY <4>1, <4>2, <2>1, <2>7
        <5>2. QED
          BY <5>1, <3>3, <1>4 DEF s
      <4>3. CASE j # 1
        <5> DEFINE k == j - 1
        <5>1. k \in 1..(i - 1) /\ k \in 1..Len(up'[u]) /\ k + 1 = j
          BY <4>3, <2>1
        <5> HIDE DEF k
        <5>2. up'[u][k] = up[u][j]
          BY <5>1, <2>1
        <5>3. QED
          BY <5>1, <5>2, <4>1 DEF s
      <4>4. QED
        BY <4>2, <4>3
    <3>6. QED
      BY <3>2, <3>4, <3>5
  <2>10. QED
    BY <2>8, <2>9, <1>9
<1>13. QED
  BY <1>11, <1>12

\* Only the store refuses a tab's batch, or a refusal before it does.
LEMMA ServedRefusals ==
  ASSUME IInv, OInv, NEW t \in Tabs, NEW current \in BOOLEAN,
         NEW batch \in Seq(Ops), Served(t, current, batch), NEW u \in Tabs
  PROVE  RefusalsOK(u)'
<1>1. /\ UNCHANGED <<conn, driver, authored>>
      /\ batch \in Sent(t) /\ Run(batch) /\ Serve(t, current, batch)
      /\ current => conn[t] = "joined"
  BY DEF Served
<1>2. RefusalsOK(u) /\ NoGap(t) /\ HoldsOwn(t) /\ ContextOK(t)
  BY OwnTab
<1>3. faults.store \in Nat /\ faults'.store \in Nat /\ faults.store <= faults'.store
  BY <1>1, StoreOnward
<1>4. Told(u, t, current, batch)
  BY <1>1, DownGrows
<1>5. /\ Len(down[u]) \in Nat /\ Len(down'[u]) \in Nat /\ Len(down[u]) <= Len(down'[u])
      /\ \A i \in 1..Len(down[u]) : down'[u][i] = down[u][i]
  BY <1>4 DEF Told
<1>6. driver[u].refusals \in Nat /\ MaxRefusalRecoveries \in Nat
  BY CollabAssumption, Typed, DriverIs DEF IInv
<1>7. ASSUME NEW i \in 1..Len(down'[u]), down'[u][i] = Rejected("storage")
      PROVE  /\ faults'.store > 0
             /\ driver'[u].blocked = "no" => driver'[u].refusals < faults'.store
  <2>1. CASE i <= Len(down[u])
    <3>1. i \in 1..Len(down[u]) /\ StorageAt(u, i)
      BY <2>1, <1>5, <1>7 DEF StorageAt
    <3>2. /\ faults.store > 0
          /\ driver[u].blocked = "no" => driver[u].refusals < faults.store
      BY <3>1, <1>2 DEF RefusalsOK
    <3>3. QED
      BY <3>2, <1>1, <1>3, <1>6
  <2>2. CASE i > Len(down[u])
    <3>1. faults'.store = faults.store + 1
      BY <2>2, <1>4, <1>7 DEF Told
    <3>2. driver[u].refusals <= faults.store
      BY <1>2 DEF RefusalsOK
    <3>3. QED
      BY <3>1, <3>2, <1>1, <1>3, <1>6
  <2>3. QED
    BY <2>1, <2>2, <1>5
<1>8. ASSUME NEW i \in 1..Len(down'[u]), down'[u][i] = Rejected("conflict")
      PROVE  \/ driver'[u].blocked # "no"
             \/ \E j \in 1..(i - 1) : down'[u][j] = Rejected("storage")
  <2>1. CASE i <= Len(down[u])
    <3>1. i \in 1..Len(down[u]) /\ down[u][i] = Rejected("conflict")
      BY <2>1, <1>5, <1>8
    <3>2. driver[u].blocked # "no" \/ \E j \in 1..(i - 1) : StorageAt(u, j)
      BY <3>1, <1>2 DEF RefusalsOK
    <3>3. \A j \in 1..(i - 1) : j \in 1..Len(down[u])
      BY <3>1, <1>5
    <3>4. QED
      BY <3>2, <3>3, <1>1, <1>5 DEF StorageAt
  <2>2. CASE i > Len(down[u])
    <3>1. ~Valid(batch) /\ u = t /\ current
      <4>1. Rejected("conflict").kind = "rejected"
        BY DEF Rejected
      <4>2. down'[u][i].kind = "rejected"
        BY <4>1, <1>8
      <4>3. QED
        BY <4>2, <2>2, <1>4, <1>8 DEF Told
    <3>2. Broken(u)
      <4>1. SUFFICES ASSUME ~Broken(u) PROVE FALSE
        OBVIOUS
      <4>2. /\ conn[u] = "joined" /\ Len(up[u]) \in Nat \ {0} /\ batch = up[u][1]
        BY <3>1 DEF Served
      <4>3. 1 \in 1..Len(up[u]) /\ 1..(1 - 1) = {}
        BY <4>2
      <4>4. batch[1].seq <= LoggedOf(ActorOf[u]) + 1
        BY <4>1, <4>2, <4>3, <3>1, <1>2 DEF NoGap, Carried
      <4>5. Range(batch) \subseteq authored[t]
        BY <1>1, <1>2 DEF HoldsOwn
      <4>6. Valid(batch)
        BY <4>4, <4>5, <3>1, <1>1, <1>2, ValidWithoutGap
      <4>7. QED
        BY <4>6, <3>1
    <3>3. ASSUME NEW j \in 1..Len(down[u]), StorageAt(u, j)
          PROVE  j \in 1..(i - 1) /\ down'[u][j] = Rejected("storage")
      BY <3>3, <2>2, <1>5 DEF StorageAt
    <3>4. QED
      BY <3>2, <3>3, <1>1 DEF Broken
  <2>3. QED
    BY <2>1, <2>2, <1>5
<1>9. /\ driver'[u].blocked \in {"no", "refused"}
      /\ driver'[u].blocked = "refused" => faults'.store > 0
      /\ driver'[u].refusals <= faults'.store
      /\ driver'[u].phase = "closed" => faults'.store >= MaxRefusalRecoveries
  BY <1>1, <1>2, <1>3, <1>6 DEF RefusalsOK
<1>10. QED
  BY <1>7, <1>8, <1>9 DEF RefusalsOK, StorageAt, Rejected

\* Serving a batch keeps it.
LEMMA SubmitKeepsOwn ==
  ASSUME IInv, OInv, OwnActors, NEW t \in Tabs, Submit(t) \/ SubmitOld(t)
  PROVE  OInv'
<1>1. PICK current \in BOOLEAN, batch \in Seq(Ops) : Served(t, current, batch)
  BY SubmitDoes
<1>2. ASSUME NEW u \in Tabs PROVE Own(u)'
  <2>1. HoldsOwn(u)' /\ ContextOK(u)'
    BY <1>1, ServedHoldsOwn
  <2>2. MarksOK(u)' /\ PhaseOK(u)'
    BY <1>1, ServedMarks
  <2>3. ToldInOrder(u)'
    BY <1>1, ServedTold
  <2>4. NoGap(u)'
    BY <1>1, ServedNoGap
  <2>5. RefusalsOK(u)'
    BY <1>1, ServedRefusals
  <2>6. QED
    BY <2>1, <2>2, <2>3, <2>4, <2>5 DEF Own
<1>3. QED
  BY <1>2 DEF OInv

----------------------------------------------------------------------------
(***************************************************************************)
(* The theorems                                                            *)
(***************************************************************************)

\* Every step keeps it.
LEMMA NextOInv ==
  ASSUME IInv, OInv, OwnActors, [Next]_vars
  PROVE  OInv'
<1>1. CASE UNCHANGED vars
  <2>1. UNCHANGED <<commits, conn, up, old, down, driver, authored, faults>>
    BY <1>1 DEF vars
  <2>2. \A t \in Tabs : Own(t)'
    BY <2>1, OwnStays DEF OInv
  <2>3. QED
    BY <2>2 DEF OInv
<1>2. CASE Restart
  BY <1>2, RestartKeepsOwn
<1>3. ASSUME NEW t \in Tabs,
             \/ Author(t)
             \/ Begin(t)
             \/ Join(t)
             \/ Ingest(t)
             \/ \E expired \in BOOLEAN : Outbox(t, expired)
             \/ Submit(t)
             \/ SubmitOld(t)
             \/ Leave(t)
             \/ DropDoomed(t)
             \/ Drop(t)
      PROVE  OInv'
  BY <1>3, AuthorKeepsOwn, BeginKeepsOwn, JoinKeepsOwn, IngestKeepsOwn, OutboxKeepsOwn,
     SubmitKeepsOwn, LeaveKeepsOwn, CloseKeepsOwn
<1>4. QED
  BY <1>1, <1>2, <1>3 DEF Next

\* With an actor for every tab, OInv holds in every reachable state.
LEMMA OwnInductive == OwnActors => (Spec => [](IInv /\ OInv))
<1>1. Init => IInv /\ OInv
  BY InitIInv, InitOInv
<1>2. OwnActors /\ IInv /\ OInv /\ [Next]_vars => (IInv /\ OInv)'
  BY NextIInv, NextOInv
<1>3. CASE OwnActors
  <2>1. IInv /\ OInv /\ [Next]_vars => (IInv /\ OInv)'
    BY <1>2, <1>3
  <2>2. QED
    BY <1>1, <2>1, PTL DEF Spec
<1>4. QED
  BY <1>3

\* Nothing a user typed is lost: it is in the log or the tab still holds it,
\* through drops, restarts, refusals and rejoins (collab.rs welcome).
THEOREM NothingTypedIsLost == OwnActors => (Spec => []TypedIsNeverLost)
<1>1. OInv => TypedIsNeverLost
  BY DEF OInv, Own, HoldsOwn, TypedIsNeverLost, Of
<1>2. QED
  BY <1>1, OwnInductive, PTL

\* What a tab counts as acknowledged is logged, and it holds the log up to the
\* commit it names (collab.rs Accepted, Committed).
THEOREM MarksAreHonest == OwnActors => (Spec => []WatermarksAreHonest)
<1>1. IInv /\ OInv => WatermarksAreHonest
  <2>1. SUFFICES ASSUME IInv, OInv, NEW t \in Tabs
                 PROVE  /\ {op \in authored[t] : op.seq <= driver[t].acknowledged_seq}
                               \subseteq Logged
                        /\ LoggedAt(driver[t].commit_seq) \subseteq driver[t].replica
    BY DEF WatermarksAreHonest
  <2>2. HoldsOwn(t) /\ MarksOK(t)
    BY <2>1, OwnTab
  <2>3. driver[t].acknowledged_seq <= LoggedOf(ActorOf[t])
        /\ driver[t].acknowledged_seq \in Nat /\ LoggedOf(ActorOf[t]) \in Nat
    BY <2>1, <2>2, Mine, Typed, DriverIs DEF MarksOK, IInv
  <2>4. \A op \in authored[t] : op.seq \in Nat
        /\ (op \in Logged <=> op.seq <= LoggedOf(ActorOf[t]))
    BY <2>1, <2>2, Mine, OpIs
  <2>5. LoggedAt(driver[t].commit_seq) \subseteq driver[t].replica
    BY <2>2 DEF MarksOK, LogAt, LoggedAt
  <2>6. QED
    BY <2>3, <2>4, <2>5
<1>2. QED
  BY <1>1, OwnInductive, PTL

\* A joined connection misses no commit, whoever submitted it and on whichever
\* socket (document.rs join, handle).
THEOREM NoCommitIsMissed == OwnActors => (Spec => []JoinedMissesNothing)
<1>1. IInv /\ OInv => JoinedMissesNothing
  <2>1. SUFFICES ASSUME IInv, OInv, NEW t \in Tabs, conn[t] = "joined",
                        NEW op \in Logged
                 PROVE  \/ op \in driver[t].replica
                        \/ \E f \in Range(down[t]) : op \in Brings(f)
    BY DEF JoinedMissesNothing
  <2>2. HoldsOwn(t) /\ ToldInOrder(t)
    BY <2>1, OwnTab
  <2>3. Holds(t, op) \/ \E j \in 1..Len(down[t]) : op \in BringsOf(commits, down[t][j])
    BY <2>1, <2>2 DEF ToldInOrder, ToldBy
  <2>4. CASE Holds(t, op)
    BY <2>1, <2>2, <2>4, Mine DEF Holds
  <2>5. CASE \E j \in 1..Len(down[t]) : op \in BringsOf(commits, down[t][j])
    <3>1. PICK j \in 1..Len(down[t]) : op \in BringsOf(commits, down[t][j])
      BY <2>5
    <3>2. down[t][j] \in Range(down[t])
      <4>1. down[t] \in Seq(Frames)
        BY <2>1, Typed DEF IInv
      <4>2. QED
        BY <4>1, RangeEquality
    <3>3. Brings(down[t][j]) = BringsOf(commits, down[t][j])
      BY DEF Brings, BringsOf, LogAt, LoggedAt
    <3>4. QED
      BY <3>1, <3>2, <3>3
  <2>6. QED
    BY <2>3, <2>4, <2>5
<1>2. QED
  BY <1>1, OwnInductive, PTL

\* A tab is refused only because the store failed first, once for each failure
\* at most; the cross-checks of its outbox never fire (collab.rs Rejected,
\* outbox).
THEOREM OnlyTheStoreRefuses == OwnActors => (Spec => []RefusalsAreStoreFailures)
<1>1. IInv /\ OInv => RefusalsAreStoreFailures
  <2>1. SUFFICES ASSUME IInv, OInv, NEW t \in Tabs
                 PROVE  /\ driver[t].refusals <= faults.store
                        /\ driver[t].phase = "closed" => faults.store >= MaxRefusalRecoveries
                        /\ Rejected("conflict") \in Range(down[t]) => faults.store > 0
                        /\ driver[t].blocked \in {"no", "refused"}
    BY DEF RefusalsAreStoreFailures
  <2>2. RefusalsOK(t)
    BY <2>1, OwnTab
  <2>3. ASSUME Rejected("conflict") \in Range(down[t]) PROVE faults.store > 0
    <3>1. down[t] \in Seq(Frames) /\ Len(down[t]) \in Nat
      BY <2>1, Typed DEF IInv
    <3>2. PICK i \in 1..Len(down[t]) : down[t][i] = Rejected("conflict")
      BY <2>3, <3>1, RangeEquality
    <3>3. driver[t].blocked # "no" \/ \E j \in 1..(i - 1) : StorageAt(t, j)
      BY <3>2, <2>2 DEF RefusalsOK
    <3>4. \A j \in 1..(i - 1) : j \in 1..Len(down[t])
      BY <3>1
    <3>5. QED
      BY <3>3, <3>4, <2>2 DEF RefusalsOK
  <2>4. QED
    BY <2>2, <2>3 DEF RefusalsOK
<1>2. QED
  BY <1>1, OwnInductive, PTL

=============================================================================
