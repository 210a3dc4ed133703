------------------------- MODULE DocumentLogProofs -------------------------
(***************************************************************************)
(* Proofs about DocumentLog for every set of services, actors and batches  *)
(* and every bound: its invariants, and that it implements AbstractLog.    *)
(*                                                                         *)
(* The invariants are not inductive by themselves.  IInv adds what a call  *)
(* in progress has established by each of its phases (CallOK) and that     *)
(* what a service holds in memory is one history, counted by commit_seq    *)
(* and still a prefix of the head (MemoryOK).                              *)
(***************************************************************************)
EXTENDS DocumentLog, SequenceTheorems, TLAPS

Committing == {"snapshot", "segment", "manifest", "record", "swap", "swapped"}

MemoryOK(s) ==
    mem[s] # None =>
        /\ mem[s].operations = mem[s].head
        /\ mem[s].commit_seq = Len(mem[s].operations)
        /\ head # None
        /\ Prefix(mem[s].operations, head)

\* What a commit in progress builds on: nothing for the genesis commit, else
\* the head this service remembers, extended by one batch.
BaseOK(s) ==
    \/ /\ pend[s].expected = None
       /\ pend[s].target = <<>>
       /\ pend[s].phase # "segment"
       /\ mem[s] = None
    \/ /\ pend[s].expected # None
       /\ mem[s] # None
       /\ pend[s].expected = mem[s].head
       /\ \E b \in Batches :
            /\ pend[s].target = Append(pend[s].expected, b)
            /\ b.first <= b.last
            /\ Continues(pend[s].expected, Len(pend[s].expected), b)

\* Which objects a commit in progress has already put.
ObjectsOK(s) ==
    /\ pend[s].phase # "snapshot" => pend[s].operations \in snapshots
    /\ pend[s].expected # None /\ pend[s].phase \notin {"snapshot", "segment"}
        => pend[s].target \in segments
    /\ pend[s].phase \in {"record", "swap", "swapped"}
        => pend[s].target \in manifests
    /\ pend[s].phase = "swapped" => head # None /\ Prefix(pend[s].target, head)

CallOK(s) ==
    /\ pend[s].phase \in Committing =>
        /\ pend[s].operations = pend[s].target
        /\ BaseOK(s)
        /\ ObjectsOK(s)
    /\ pend[s].phase = "loading" =>
        /\ pend[s].operations = pend[s].target
        /\ mem[s] = None
        /\ head # None
        /\ Prefix(pend[s].target, head)

IInv ==
    /\ TypeOK
    /\ HeadIsLoadable
    /\ AcknowledgedSurvives
    /\ \A s \in Services : MemoryOK(s) /\ CallOK(s)

----------------------------------------------------------------------------
(***************************************************************************)
(* Lemmas on histories                                                     *)
(***************************************************************************)

\* Appending a batch keeps everything before it.
LEMMA AppendPrefix ==
    ASSUME NEW h \in Histories, NEW b \in Batches
    PROVE  /\ Append(h, b) \in Histories
           /\ Len(Append(h, b)) = Len(h) + 1
           /\ Append(h, b)[Len(h) + 1] = b
           /\ Prefix(h, Append(h, b))
  BY AppendProperties DEF Histories, Prefix

\* Prefix is reflexive and transitive.
LEMMA PrefixOrder ==
    ASSUME NEW r \in Histories, NEW s \in Histories, NEW t \in Histories
    PROVE  /\ Prefix(r, r)
           /\ Prefix(r, s) /\ Prefix(s, t) => Prefix(r, t)
  BY DEF Histories, Prefix

\* A history and its prefix have the same beginnings.
LEMMA PrefixSubSeq ==
    ASSUME NEW s \in Histories, NEW t \in Histories, Prefix(s, t),
           NEW n \in 0..Len(s)
    PROVE  SubSeq(s, 1, n) = SubSeq(t, 1, n)
<1>1. \A i \in 1..n : s[i] \in Batches /\ t[i] \in Batches /\ s[i] = t[i]
  BY ElementOfSeq DEF Prefix, Histories
<1>2. /\ SubSeq(s, 1, n) \in Seq(Batches)
      /\ SubSeq(t, 1, n) \in Seq(Batches)
      /\ Len(SubSeq(s, 1, n)) = Len(SubSeq(t, 1, n))
      /\ \A i \in 1..Len(SubSeq(s, 1, n)) :
            SubSeq(s, 1, n)[i] = SubSeq(t, 1, n)[i]
  BY <1>1, SubSeqProperties
<1>3. QED
  BY <1>2, SeqEqual

\* The whole of a history is the beginning of any history it is a prefix of.
LEMMA PrefixIsSubSeq ==
    ASSUME NEW s \in Histories, NEW t \in Histories, Prefix(s, t)
    PROVE  SubSeq(t, 1, Len(s)) = s
<1>1. Len(s) \in 0..Len(s)
  BY DEF Histories
<1>2. SubSeq(s, 1, Len(s)) = s
  BY SubSeqFull DEF Histories
<1>3. QED
  BY <1>1, <1>2, PrefixSubSeq

\* Two prefixes of one history of the same length are equal.
LEMMA PrefixDetermined ==
    ASSUME NEW r \in Histories, NEW s \in Histories, NEW t \in Histories,
           Prefix(r, t), Prefix(s, t), Len(r) = Len(s)
    PROVE  r = s
  BY SeqEqual DEF Histories, Prefix

\* A loadable history stays loadable when one well-numbered batch follows it
\* and the segment and the manifest of that commit are stored.
LEMMA AppendLoadable ==
    ASSUME NEW h \in Histories, NEW b \in Batches, Loadable(h),
           b.first <= b.last, Continues(h, Len(h), b),
           Append(h, b) \in manifests, Append(h, b) \in segments
    PROVE  Loadable(Append(h, b))
<1> DEFINE t == Append(h, b)
<1>1. /\ t \in Histories
      /\ Len(t) = Len(h) + 1
      /\ t[Len(h) + 1] = b
      /\ Prefix(h, t)
      /\ Len(h) \in Nat
  BY AppendPrefix DEF Histories
<1>2. SubSeq(t, 1, Len(t)) = t
  BY <1>1, SubSeqFull DEF Histories
<1>3. ASSUME NEW n \in 0..Len(t)
      PROVE  SubSeq(t, 1, n) \in manifests
  <2>1. CASE n \in 0..Len(h)
    BY <1>1, <2>1, PrefixSubSeq DEF Loadable
  <2>2. CASE n = Len(t)
    BY <1>2, <2>2
  <2>3. QED
    BY <1>1, <2>1, <2>2
<1>4. ASSUME NEW n \in 1..Len(t)
      PROVE  SubSeq(t, 1, n) \in segments
  <2>1. CASE n \in 1..Len(h)
    <3>1. n \in 0..Len(h)
      BY <1>1, <2>1
    <3>2. SubSeq(h, 1, n) = SubSeq(t, 1, n)
      BY <1>1, <3>1, PrefixSubSeq
    <3>3. QED
      BY <2>1, <3>2 DEF Loadable
  <2>2. CASE n = Len(t)
    BY <1>2, <2>2
  <2>3. QED
    BY <1>1, <2>1, <2>2
<1>5. Dense(t)
  <2>1. ASSUME NEW n \in 1..Len(h)
        PROVE  t[n].first <= t[n].last /\ Continues(t, n - 1, t[n])
    <3>1. t[n] = h[n] /\ \A i \in 1..(n - 1) : t[i] = h[i]
      BY <1>1 DEF Prefix
    <3>2. h[n].first <= h[n].last /\ Continues(h, n - 1, h[n])
      BY DEF Loadable, Dense
    <3>3. QED
      BY <3>1, <3>2 DEF Continues
  <2>2. t[Len(t)].first <= t[Len(t)].last /\ Continues(t, Len(t) - 1, t[Len(t)])
    <3>1. \A i \in 1..Len(h) : t[i] = h[i]
      BY <1>1 DEF Prefix
    <3>2. Len(t) - 1 = Len(h) /\ t[Len(t)] = b
      BY <1>1
    <3>3. QED
      BY <3>1, <3>2 DEF Continues
  <2>3. QED
    BY <1>1, <2>1, <2>2 DEF Dense
<1>6. QED
  BY <1>3, <1>4, <1>5 DEF Loadable

\* A prefix of a loadable history is loadable.
LEMMA PrefixLoadable ==
    ASSUME NEW s \in Histories, NEW t \in Histories, Prefix(s, t), Loadable(t)
    PROVE  Loadable(s)
<1>1. Len(s) \in Nat /\ Len(t) \in Nat /\ Len(s) <= Len(t)
  BY DEF Histories, Prefix
<1>2. \A n \in 0..Len(s) : SubSeq(s, 1, n) = SubSeq(t, 1, n)
  BY PrefixSubSeq
<1>3. Dense(s)
  <2>1. ASSUME NEW n \in 1..Len(s)
        PROVE  s[n].first <= s[n].last /\ Continues(s, n - 1, s[n])
    <3>1. n \in 1..Len(t) /\ s[n] = t[n] /\ \A i \in 1..(n - 1) : s[i] = t[i]
      BY <1>1 DEF Prefix
    <3>2. t[n].first <= t[n].last /\ Continues(t, n - 1, t[n])
      BY <3>1 DEF Loadable, Dense
    <3>3. QED
      BY <3>1, <3>2 DEF Continues
  <2>2. QED
    BY <2>1 DEF Dense
<1>4. \A n \in 0..Len(s) : n \in 0..Len(t) /\ (n # 0 => n \in 1..Len(t))
  BY <1>1
<1>5. \A n \in 0..Len(s) : SubSeq(s, 1, n) \in manifests
  BY <1>2, <1>4 DEF Loadable
<1>6. \A n \in 1..Len(s) : SubSeq(s, 1, n) \in segments
  <2>1. \A n \in 1..Len(s) : n \in 0..Len(s) /\ n \in 1..Len(t)
    BY <1>1
  <2>2. QED
    BY <1>2, <2>1 DEF Loadable
<1>7. QED
  BY <1>3, <1>5, <1>6 DEF Loadable

\* Storing more objects never makes a history unloadable.
LEMMA LoadableGrows ==
    ASSUME NEW h, Loadable(h), snapshots \subseteq snapshots',
           segments \subseteq segments', manifests \subseteq manifests'
    PROVE  Loadable(h)'
  BY DEF Loadable

----------------------------------------------------------------------------
(***************************************************************************)
(* Type correctness                                                        *)
(***************************************************************************)

LEMMA TypeInit == Init => TypeOK
  BY EmptySeq DEF Init, TypeOK, Idle, Calls, Phases, Histories

LEMMA TypeStep == TypeOK /\ [Next]_vars => TypeOK'
<1> SUFFICES ASSUME TypeOK, [Next]_vars PROVE TypeOK'
  OBVIOUS
<1>e. <<>> \in Histories
  BY EmptySeq DEF Histories
<1>i. Idle \in Calls
  BY <1>e DEF Idle, Calls, Phases
<1>p. \A s \in Services : /\ pend[s] \in Calls
                          /\ pend[s].operations \in Histories
                          /\ pend[s].target \in Histories
                          /\ pend[s].expected \in Histories \cup {None}
  BY DEF TypeOK, Calls
<1>m. \A s \in Services : mem[s] # None => mem[s] \in Logs
  BY DEF TypeOK
<1>1. ASSUME NEW s \in Services, BeginCreate(s) PROVE TypeOK'
  BY <1>1, <1>e DEF BeginCreate, TypeOK, Calls, Phases, store
<1>2. ASSUME NEW s \in Services, NEW b \in Batches, BeginAppend(s, b)
      PROVE  TypeOK'
  <2>1. mem[s].operations \in Histories /\ mem[s].head \in Histories
    BY <1>2, <1>m DEF BeginAppend, Logs
  <2>2. /\ Append(mem[s].operations, b) \in Histories
        /\ Append(mem[s].head, b) \in Histories
    BY <2>1, AppendPrefix
  <2>3. QED
    BY <1>2, <2>1, <2>2 DEF BeginAppend, TypeOK, Calls, Phases, store
<1>3. ASSUME NEW s \in Services, WriteSnapshot(s) PROVE TypeOK'
  BY <1>3, <1>p DEF WriteSnapshot, TypeOK, Calls, Phases
<1>4. ASSUME NEW s \in Services, WriteSegment(s) PROVE TypeOK'
  BY <1>4, <1>p DEF WriteSegment, TypeOK, Calls, Phases
<1>5. ASSUME NEW s \in Services, WriteManifest(s) PROVE TypeOK'
  BY <1>5, <1>p DEF WriteManifest, TypeOK, Calls, Phases
<1>6. ASSUME NEW s \in Services, WriteRecord(s) PROVE TypeOK'
  BY <1>6, <1>p DEF WriteRecord, TypeOK, Calls, Phases, store
<1>7. ASSUME NEW s \in Services, Swap(s) PROVE TypeOK'
  BY <1>7, <1>p, <1>i DEF Swap, TypeOK, Calls, Phases, store
<1>8. ASSUME NEW s \in Services, Advance(s) PROVE TypeOK'
  <2>1. (IF mem[s] = None THEN 0 ELSE mem[s].commit_seq + 1) \in Nat
    BY <1>m DEF Logs
  <2>2. QED
    BY <1>8, <2>1, <1>p, <1>i DEF Advance, TypeOK, Logs, store
<1>9. ASSUME NEW s \in Services, BeginLoad(s) PROVE TypeOK'
  BY <1>9 DEF BeginLoad, TypeOK, Calls, Phases, store
<1>10. ASSUME NEW s \in Services, FinishLoad(s) PROVE TypeOK'
  <2>1. Len(pend[s].target) \in Nat
    BY <1>p DEF Histories
  <2>2. QED
    BY <1>10, <2>1, <1>p, <1>i DEF FinishLoad, LoadCounting, TypeOK, Logs, store
<1>11. ASSUME NEW s \in Services, StoreError(s) PROVE TypeOK'
  BY <1>11, <1>i DEF StoreError, TypeOK, store
<1>12. ASSUME NEW s \in Services, Crash(s) PROVE TypeOK'
  BY <1>12, <1>i DEF Crash, TypeOK, store
<1>13. CASE UNCHANGED vars
  BY <1>13 DEF vars, TypeOK
<1>14. QED
  BY <1>1, <1>2, <1>3, <1>4, <1>5, <1>6, <1>7, <1>8, <1>9, <1>10, <1>11,
     <1>12, <1>13 DEF Next

\* Every reachable state of the commit protocol is well typed.
THEOREM TypeCorrect == Spec => []TypeOK
  BY TypeInit, TypeStep, PTL DEF Spec

----------------------------------------------------------------------------
(***************************************************************************)
(* The inductive invariant                                                 *)
(***************************************************************************)

\* What every action does to the shared state: objects are only added, and
\* the head stays or moves to a history that extends it.
Grows ==
    /\ snapshots \subseteq snapshots'
    /\ segments \subseteq segments'
    /\ manifests \subseteq manifests'
    /\ \/ head' = head
       \/ head' # None /\ (head # None => Prefix(head, head'))

\* A service that takes no step keeps its part of the invariant while others
\* add objects and extend the head.
LEMMA Bystander ==
    ASSUME TypeOK, TypeOK', Grows, NEW r \in Services, MemoryOK(r), CallOK(r),
           mem'[r] = mem[r], pend'[r] = pend[r]
    PROVE  MemoryOK(r)' /\ CallOK(r)'
<1>1. \A h \in Histories : head # None /\ Prefix(h, head)
                             => head' # None /\ Prefix(h, head')
  BY PrefixOrder DEF Grows, TypeOK
<1>2. pend[r].target \in Histories
  BY DEF TypeOK, Calls
<1>3. MemoryOK(r)'
  BY <1>1 DEF MemoryOK, TypeOK, Logs
<1>4. ASSUME pend'[r].phase \in Committing
      PROVE  pend'[r].operations = pend'[r].target /\ BaseOK(r)' /\ ObjectsOK(r)'
  <2>1. pend[r].operations = pend[r].target /\ BaseOK(r) /\ ObjectsOK(r)
    BY <1>4 DEF CallOK
  <2>2. BaseOK(r)'
    BY <2>1 DEF BaseOK, Continues
  <2>3. ObjectsOK(r)'
    BY <2>1, <1>1, <1>2 DEF ObjectsOK, Grows
  <2>4. QED
    BY <2>1, <2>2, <2>3
<1>5. ASSUME pend'[r].phase = "loading"
      PROVE  /\ pend'[r].operations = pend'[r].target
             /\ mem'[r] = None
             /\ head' # None
             /\ Prefix(pend'[r].target, head')
  BY <1>1, <1>2, <1>5 DEF CallOK
<1>6. QED
  BY <1>3, <1>4, <1>5 DEF CallOK

\* The parts of the invariant that only speak of objects, head and acked.
LEMMA SharedStep ==
    ASSUME TypeOK, TypeOK', Grows, HeadIsLoadable, AcknowledgedSurvives,
           head' = head, acked' = acked
    PROVE  HeadIsLoadable' /\ AcknowledgedSurvives'
  BY LoadableGrows DEF HeadIsLoadable, AcknowledgedSurvives, Grows

LEMMA InvInit == Init => IInv
<1> SUFFICES ASSUME Init PROVE IInv
  OBVIOUS
<1>1. TypeOK
  BY TypeInit
<1>2. HeadIsLoadable /\ AcknowledgedSurvives
  BY DEF Init, HeadIsLoadable, AcknowledgedSurvives
<1>3. \A s \in Services : MemoryOK(s) /\ CallOK(s)
  BY DEF Init, MemoryOK, CallOK, Idle, Committing
<1>4. QED
  BY <1>1, <1>2, <1>3 DEF IInv

\* The first step of a commit: the service extends what it remembers.
LEMMA BeginStep ==
    ASSUME IInv, TypeOK', NEW s \in Services,
           BeginCreate(s) \/ (\E b \in Batches : BeginAppend(s, b)) \/ BeginLoad(s)
    PROVE  IInv'
<1> USE DEF IInv
<1>g. Grows /\ head' = head /\ acked' = acked /\ mem' = mem
  BY DEF BeginCreate, BeginAppend, BeginLoad, Grows, store
<1>1. HeadIsLoadable' /\ AcknowledgedSurvives'
  BY <1>g, SharedStep
<1>2. ASSUME NEW r \in Services, r # s
      PROVE  MemoryOK(r)' /\ CallOK(r)'
  <2>1. pend'[r] = pend[r]
    BY <1>2 DEF BeginCreate, BeginAppend, BeginLoad, TypeOK
  <2>2. QED
    BY <1>g, <2>1, Bystander
<1>3. MemoryOK(s)'
  BY <1>g DEF MemoryOK
<1>4. CASE BeginCreate(s)
  <2>1. pend'[s] = [phase |-> "snapshot", operations |-> <<>>,
                    target |-> <<>>, expected |-> None]
    BY <1>4 DEF BeginCreate, TypeOK
  <2>2. mem'[s] = None
    BY <1>4 DEF BeginCreate
  <2>3. QED
    BY <2>1, <2>2, <1>1, <1>2, <1>3 DEF CallOK, BaseOK, ObjectsOK, Committing
<1>5. ASSUME NEW b \in Batches, BeginAppend(s, b)
      PROVE  IInv'
  <2>1. pend'[s] = [phase |-> "snapshot",
                    operations |-> Append(mem[s].operations, b),
                    target |-> Append(mem[s].head, b),
                    expected |-> mem[s].head]
    BY <1>5 DEF BeginAppend, TypeOK
  <2>2. mem[s] # None /\ mem[s].operations = mem[s].head
    BY <1>5 DEF BeginAppend, MemoryOK
  <2>3. mem[s].head # None
    BY <2>2, NoneAssumption DEF TypeOK, Logs, Histories
  <2>4. BaseOK(s)'
    BY <2>1, <2>2, <2>3, <1>5, <1>g DEF BeginAppend, BaseOK, Continues
  <2>5. QED
    BY <2>1, <2>2, <2>4, <1>1, <1>2, <1>3 DEF CallOK, ObjectsOK, Committing
<1>6. CASE BeginLoad(s)
  <2>1. pend'[s] = [phase |-> "loading", operations |-> head,
                    target |-> head, expected |-> None]
    BY <1>6 DEF BeginLoad, TypeOK
  <2>2. mem'[s] = None /\ head' # None /\ head \in Histories
    BY <1>6 DEF BeginLoad, TypeOK
  <2>3. Prefix(head, head')
    BY <1>g, <2>2, PrefixOrder
  <2>4. QED
    BY <2>1, <2>2, <2>3, <1>1, <1>2, <1>3 DEF CallOK, Committing
<1>7. QED
  BY <1>4, <1>5, <1>6

\* The steps that put an object, in the order the code puts them.
LEMMA WriteStep ==
    ASSUME IInv, TypeOK', NEW s \in Services,
           WriteSnapshot(s) \/ WriteSegment(s) \/ WriteManifest(s) \/ WriteRecord(s)
    PROVE  IInv'
<1> USE DEF IInv
<1>g. Grows /\ head' = head /\ acked' = acked /\ mem' = mem
  BY DEF WriteSnapshot, WriteSegment, WriteManifest, WriteRecord, Grows, store
<1>1. HeadIsLoadable' /\ AcknowledgedSurvives'
  BY <1>g, SharedStep
<1>2. ASSUME NEW r \in Services, r # s
      PROVE  MemoryOK(r)' /\ CallOK(r)'
  <2>1. pend'[r] = pend[r]
    BY <1>2 DEF WriteSnapshot, WriteSegment, WriteManifest, WriteRecord, TypeOK
  <2>2. QED
    BY <1>g, <2>1, Bystander
<1>3. MemoryOK(s)'
  BY <1>g DEF MemoryOK
<1>4. /\ pend'[s].operations = pend[s].operations
      /\ pend'[s].target = pend[s].target
      /\ pend'[s].expected = pend[s].expected
      /\ pend'[s].phase =
            CASE pend[s].phase = "snapshot" ->
                    IF pend[s].expected = None THEN "manifest" ELSE "segment"
              [] pend[s].phase = "segment" -> "manifest"
              [] pend[s].phase = "manifest" -> "record"
              [] pend[s].phase = "record" -> "swap"
  BY DEF WriteSnapshot, WriteSegment, WriteManifest, WriteRecord, TypeOK, Calls
<1>5. pend[s].operations = pend[s].target /\ BaseOK(s) /\ ObjectsOK(s)
  BY DEF WriteSnapshot, WriteSegment, WriteManifest, WriteRecord, CallOK,
         Committing
<1>6. BaseOK(s)'
  <2>1. CASE pend[s].expected = None
    <3>1. pend'[s].phase # "segment"
      BY <1>4, <2>1
         DEF WriteSnapshot, WriteSegment, WriteManifest, WriteRecord
    <3>2. pend[s].target = <<>> /\ mem[s] = None
      BY <1>5, <2>1 DEF BaseOK
    <3>3. QED
      BY <3>1, <3>2, <2>1, <1>4, <1>g DEF BaseOK
  <2>2. CASE pend[s].expected # None
    <3>1. /\ mem[s] # None
          /\ pend[s].expected = mem[s].head
          /\ \E b \in Batches :
                /\ pend[s].target = Append(pend[s].expected, b)
                /\ b.first <= b.last
                /\ Continues(pend[s].expected, Len(pend[s].expected), b)
      BY <1>5, <2>2 DEF BaseOK
    <3>2. /\ mem'[s] = mem[s]
          /\ pend'[s].target = pend[s].target
          /\ pend'[s].expected = pend[s].expected
      BY <1>4, <1>g
    <3>3. QED
      BY <3>1, <3>2, <2>2 DEF BaseOK
  <2>3. QED
    BY <2>1, <2>2
<1>7. ObjectsOK(s)'
  BY <1>4, <1>5, <1>g
     DEF ObjectsOK, BaseOK, WriteSnapshot, WriteSegment, WriteManifest,
         WriteRecord, store
<1>8. CallOK(s)'
  BY <1>4, <1>5, <1>6, <1>7
     DEF CallOK, WriteSnapshot, WriteSegment, WriteManifest, WriteRecord
<1>9. QED
  BY <1>1, <1>2, <1>3, <1>8

\* The swap: when the head is still the expected one, everything the target
\* needs is stored, so the head moves to a loadable history.
LEMMA SwapStep ==
    ASSUME IInv, TypeOK', NEW s \in Services, Swap(s)
    PROVE  IInv'
<1> USE DEF IInv
<1>0. /\ pend[s].phase = "swap"
      /\ pend[s].operations = pend[s].target
      /\ BaseOK(s)
      /\ ObjectsOK(s)
      /\ pend[s].target \in Histories
  BY DEF Swap, CallOK, Committing, TypeOK, Calls
<1>1. CASE head # pend[s].expected
  <2>1. Grows /\ head' = head /\ acked' = acked /\ mem' = mem
    BY <1>1 DEF Swap, Grows, store
  <2>2. HeadIsLoadable' /\ AcknowledgedSurvives'
    BY <2>1, SharedStep
  <2>3. \A r \in Services : r # s => pend'[r] = pend[r]
    BY <1>1 DEF Swap, TypeOK
  <2>4. MemoryOK(s)'
    BY <2>1 DEF MemoryOK
  <2>5. CallOK(s)'
    BY <1>1 DEF Swap, TypeOK, CallOK, Idle, Committing
  <2>6. QED
    BY <2>1, <2>2, <2>3, <2>4, <2>5, Bystander
<1>2. CASE head = pend[s].expected
  <2>1. /\ head' = pend[s].target
        /\ snapshots' = snapshots
        /\ segments' = segments
        /\ manifests' = manifests
        /\ mem' = mem
        /\ acked' = acked
    BY <1>2 DEF Swap, store
  <2>2. /\ pend'[s] = [pend[s] EXCEPT !.phase = "swapped"]
        /\ \A r \in Services : r # s => pend'[r] = pend[r]
    BY <1>2 DEF Swap, TypeOK
  <2>3. head' # None /\ head' \in Histories
    BY <1>0, <2>1, NoneAssumption DEF Histories
  <2>4. head # None => Prefix(head, head')
    BY <1>0, <1>2, <2>1, AppendPrefix DEF BaseOK, TypeOK
  <2>5. Grows
    BY <2>1, <2>3, <2>4 DEF Grows
  <2>6. AcknowledgedSurvives'
    BY <2>1, <2>3, <2>4, PrefixOrder DEF AcknowledgedSurvives, TypeOK
  <2>7. HeadIsLoadable'
    <3>1. pend[s].target \in manifests /\ pend[s].target \in snapshots
      BY <1>0 DEF ObjectsOK
    <3>2. CASE pend[s].expected = None
      <4>1. pend[s].target = <<>>
        BY <1>0, <3>2 DEF BaseOK
      <4>2. Len(<<>>) = 0 /\ SubSeq(<<>>, 1, 0) = <<>>
        BY EmptySeq, SubSeqEmpty
      <4>3. Loadable(<<>>)
        <5>1. \A n \in 0..Len(<<>>) : n = 0
          BY <4>2
        <5>2. \A n \in 1..Len(<<>>) : FALSE
          BY <4>2
        <5>3. <<>> \in snapshots /\ <<>> \in manifests
          BY <3>1, <4>1
        <5>4. \A n \in 0..Len(<<>>) : SubSeq(<<>>, 1, n) \in manifests
          BY <5>1, <5>3, <4>2
        <5>5. Dense(<<>>)
          BY <5>2 DEF Dense
        <5>6. QED
          BY <5>2, <5>3, <5>4, <5>5 DEF Loadable
      <4>4. QED
        BY <2>1, <4>1, <4>3 DEF HeadIsLoadable, Loadable
    <3>3. CASE pend[s].expected # None
      <4>1. PICK b \in Batches :
              /\ pend[s].target = Append(pend[s].expected, b)
              /\ b.first <= b.last
              /\ Continues(pend[s].expected, Len(pend[s].expected), b)
        BY <1>0, <3>3 DEF BaseOK
      <4>2. Loadable(head) /\ head \in Histories
        BY <1>2, <3>3 DEF HeadIsLoadable, TypeOK
      <4>3. pend[s].target \in segments
        BY <1>0, <3>3 DEF ObjectsOK
      <4>4. Loadable(pend[s].target)
        BY <1>2, <3>1, <4>1, <4>2, <4>3, AppendLoadable
      <4>5. QED
        BY <2>1, <4>4 DEF HeadIsLoadable, Loadable
    <3>4. QED
      BY <3>2, <3>3
  <2>8. MemoryOK(s)'
    BY <2>1, <2>3, <2>4, PrefixOrder DEF MemoryOK, TypeOK, Logs
  <2>9. CallOK(s)'
    <3>1. /\ pend'[s].phase = "swapped"
          /\ pend'[s].operations = pend[s].operations
          /\ pend'[s].target = pend[s].target
          /\ pend'[s].expected = pend[s].expected
      BY <2>2 DEF TypeOK, Calls
    <3>2. BaseOK(s)'
      BY <1>0, <2>1, <3>1 DEF BaseOK, Continues
    <3>3. ObjectsOK(s)'
      BY <1>0, <2>1, <2>3, <3>1, PrefixOrder DEF ObjectsOK
    <3>4. QED
      BY <1>0, <3>1, <3>2, <3>3 DEF CallOK
  <2>10. QED
    BY <2>1, <2>2, <2>5, <2>6, <2>7, <2>8, <2>9, Bystander
<1>3. QED
  BY <1>1, <1>2

\* The steps that end a call: memory advances, is rebuilt, or is dropped.
LEMMA EndStep ==
    ASSUME IInv, TypeOK', NEW s \in Services,
           Advance(s) \/ FinishLoad(s) \/ StoreError(s) \/ Crash(s)
    PROVE  IInv'
<1> USE DEF IInv
<1>g. Grows /\ head' = head
  BY DEF Advance, FinishLoad, LoadCounting, StoreError, Crash, Grows, store
<1>1. ASSUME NEW r \in Services, r # s
      PROVE  MemoryOK(r)' /\ CallOK(r)'
  <2>1. pend'[r] = pend[r] /\ mem'[r] = mem[r]
    BY <1>1 DEF Advance, FinishLoad, LoadCounting, StoreError, Crash, TypeOK
  <2>2. QED
    BY <1>g, <2>1, Bystander
<1>2. CallOK(s)'
  BY DEF Advance, FinishLoad, LoadCounting, StoreError, Crash, TypeOK, CallOK, Idle, Committing
<1>3. CASE Advance(s)
  <2>1. /\ pend[s].operations = pend[s].target
        /\ BaseOK(s)
        /\ ObjectsOK(s)
        /\ pend[s].phase = "swapped"
        /\ pend[s].target \in Histories
    BY <1>3 DEF Advance, CallOK, Committing, TypeOK, Calls
  <2>2. head # None /\ Prefix(pend[s].target, head)
    BY <2>1 DEF ObjectsOK
  <2>3. AcknowledgedSurvives'
    BY <1>3, <1>g, <2>2 DEF Advance, AcknowledgedSurvives
  <2>4. HeadIsLoadable'
    BY <1>g, LoadableGrows DEF HeadIsLoadable, Grows
  <2>5. mem'[s] = [operations |-> pend[s].operations,
                   head |-> pend[s].target,
                   commit_seq |-> IF mem[s] = None THEN 0
                                  ELSE mem[s].commit_seq + 1]
    BY <1>3 DEF Advance, TypeOK
  <2>6. mem'[s].commit_seq = Len(pend[s].target)
    <3>1. CASE pend[s].expected = None
      BY <3>1, <2>1, <2>5, EmptySeq DEF BaseOK
    <3>2. CASE pend[s].expected # None
      <4>1. /\ mem[s] # None
            /\ mem[s].head \in Histories
            /\ Len(pend[s].target) = Len(mem[s].head) + 1
        BY <3>2, <2>1, AppendPrefix DEF BaseOK, TypeOK, Logs
      <4>2. mem[s].commit_seq = Len(mem[s].head)
        BY <4>1 DEF MemoryOK
      <4>3. QED
        BY <2>5, <4>1, <4>2
    <3>3. QED
      BY <3>1, <3>2
  <2>7. MemoryOK(s)'
    BY <2>1, <2>2, <2>5, <2>6, <1>g DEF MemoryOK
  <2>8. QED
    BY <1>1, <1>2, <2>3, <2>4, <2>7
<1>4. CASE FinishLoad(s)
  <2>1. HeadIsLoadable' /\ AcknowledgedSurvives'
    BY <1>g, <1>4, SharedStep DEF FinishLoad, LoadCounting
  <2>2. /\ pend[s].operations = pend[s].target
        /\ head # None
        /\ Prefix(pend[s].target, head)
    BY <1>4 DEF FinishLoad, LoadCounting, CallOK
  <2>3. mem'[s] # None =>
            mem'[s] = [operations |-> pend[s].operations,
                       head |-> pend[s].target,
                       commit_seq |-> Len(pend[s].target)]
    BY <1>4 DEF FinishLoad, LoadCounting, TypeOK
  <2>4. MemoryOK(s)'
    BY <2>2, <2>3, <1>g DEF MemoryOK
  <2>5. QED
    BY <1>1, <1>2, <2>1, <2>4
<1>5. CASE StoreError(s) \/ Crash(s)
  <2>1. HeadIsLoadable' /\ AcknowledgedSurvives'
    BY <1>g, <1>5, SharedStep DEF StoreError, Crash
  <2>2. mem'[s] = mem[s] \/ mem'[s] = None
    BY <1>5 DEF StoreError, Crash, TypeOK
  <2>3. MemoryOK(s)'
    BY <2>2, <1>g DEF MemoryOK
  <2>4. QED
    BY <1>1, <1>2, <2>1, <2>3
<1>6. QED
  BY <1>3, <1>4, <1>5

\* IInv is inductive.
LEMMA InvStep == IInv /\ [Next]_vars => IInv'
<1> SUFFICES ASSUME IInv, [Next]_vars PROVE IInv'
  OBVIOUS
<1>t. TypeOK'
  BY TypeStep DEF IInv
<1>1. CASE UNCHANGED vars
  <2>1. Grows /\ head' = head /\ acked' = acked /\ mem' = mem /\ pend' = pend
    BY <1>1 DEF vars, Grows
  <2>2. QED
    BY <2>1, <1>t, SharedStep, Bystander DEF IInv
<1>2. CASE Next
  BY <1>2, <1>t, BeginStep, WriteStep, SwapStep, EndStep DEF Next
<1>3. QED
  BY <1>1, <1>2

LEMMA InvCorrect == Spec => []IInv
  BY InvInit, InvStep, PTL DEF Spec

\* Whatever crashed or failed, the head names a document load() can rebuild.
THEOREM HeadAlwaysLoadable == Spec => []HeadIsLoadable
<1>1. IInv => HeadIsLoadable
  BY DEF IInv
<1>2. QED
  BY <1>1, InvCorrect, PTL

\* A commit reported to its caller stays in the history for ever.
THEOREM AcknowledgedNeverLost == Spec => []AcknowledgedSurvives
<1>1. IInv => AcknowledgedSurvives
  BY DEF IInv
<1>2. QED
  BY <1>1, InvCorrect, PTL

\* What any service serves from memory is a prefix of the committed history.
THEOREM ServedAlwaysCommitted == Spec => []ServedIsCommitted
<1>1. IInv => ServedIsCommitted
  BY DEF IInv, MemoryOK, ServedIsCommitted
<1>2. QED
  BY <1>1, InvCorrect, PTL

\* Two services with the same commit_seq serve the same log.
THEOREM CommitSeqAlwaysNamesHistory == Spec => []CommitSeqNamesHistory
<1>1. IInv => CommitSeqNamesHistory
  BY PrefixDetermined
     DEF IInv, MemoryOK, CommitSeqNamesHistory, TypeOK, Logs
<1>2. QED
  BY <1>1, InvCorrect, PTL

----------------------------------------------------------------------------
(***************************************************************************)
(* The refinement                                                          *)
(***************************************************************************)

\* What AbstractLog sees of the services' memories.
View == [s \in Services |-> IF mem[s] = None THEN None ELSE mem[s].operations]

LEMMA RefineInit == Init => Promise!Init
  BY DEF Init, Promise!Init

\* A service that comes to hold a prefix of the head in memory, no shorter
\* than what it held, takes an Observe step.
LEMMA RefineObserve ==
    ASSUME IInv, NEW s \in Services, NEW h \in Histories,
           head # None, head' = head, Prefix(h, head),
           mem[s] # None => Len(h) >= Len(mem[s].operations),
           View' = [View EXCEPT ![s] = h]
    PROVE  Promise!Observe(s)
<1>1. head \in Histories /\ Len(h) \in 0..Len(head)
  BY DEF IInv, TypeOK, Prefix, Histories
<1>2. SubSeq(head, 1, Len(h)) = h
  BY <1>1, PrefixIsSubSeq
<1>3. View[s] # None => Len(h) >= Len(View[s])
  BY DEF View
<1>4. View' = [View EXCEPT ![s] = SubSeq(head, 1, Len(h))]
  BY <1>2
<1>5. QED
  BY <1>1, <1>3, <1>4 DEF Promise!Observe, View

LEMMA RefineStep == IInv /\ [Next]_vars => [Promise!Next]_(Promise!vars)
<1> SUFFICES ASSUME IInv, [Next]_vars PROVE [Promise!Next]_(Promise!vars)
  OBVIOUS
<1>t. TypeOK /\ TypeOK'
  BY TypeStep DEF IInv
<1>1. ASSUME head' = head, mem' = mem
      PROVE  UNCHANGED Promise!vars
  BY <1>1 DEF Promise!vars
<1>2. CASE UNCHANGED vars
  BY <1>1, <1>2 DEF vars
<1>3. ASSUME NEW s \in Services,
             \/ BeginCreate(s) \/ (\E b \in Batches : BeginAppend(s, b))
             \/ BeginLoad(s) \/ WriteSnapshot(s) \/ WriteSegment(s)
             \/ WriteManifest(s) \/ WriteRecord(s) \/ StoreError(s)
      PROVE  UNCHANGED Promise!vars
  BY <1>1, <1>3 DEF BeginCreate, BeginAppend, BeginLoad, WriteSnapshot,
     WriteSegment, WriteManifest, WriteRecord, StoreError, store
<1>4. ASSUME NEW s \in Services, Swap(s)
      PROVE  [Promise!Next]_(Promise!vars)
  <2>1. CASE head # pend[s].expected
    BY <1>1, <1>4, <2>1 DEF Swap
  <2>2. CASE head = pend[s].expected
    <3>1. head' = pend[s].target /\ mem' = mem /\ View' = View
      BY <1>4, <2>2 DEF Swap, View
    <3>2. BaseOK(s)
      BY <1>4 DEF Swap, IInv, CallOK, Committing
    <3>3. CASE pend[s].expected = None
      <4>1. Promise!Create
        BY <2>2, <3>1, <3>2, <3>3 DEF BaseOK, Promise!Create, View
      <4>2. QED
        BY <4>1 DEF Promise!Next
    <3>4. CASE pend[s].expected # None
      <4>1. PICK b \in Batches : pend[s].target = Append(pend[s].expected, b)
        BY <3>2, <3>4 DEF BaseOK
      <4>2. mem[s] # None /\ pend[s].expected = mem[s].operations
        BY <3>2, <3>4 DEF BaseOK, IInv, MemoryOK
      <4>3. View[s] = head
        BY <2>2, <4>2 DEF View
      <4>4. Promise!Commit(s, b)
        BY <2>2, <3>1, <3>4, <4>1, <4>3 DEF Promise!Commit, View
      <4>5. QED
        BY <4>4 DEF Promise!Next
    <3>5. QED
      BY <3>3, <3>4
  <2>3. QED
    BY <2>1, <2>2
<1>5. ASSUME NEW s \in Services, Advance(s)
      PROVE  Promise!Next
  <2>1. /\ pend[s].target \in Histories
        /\ pend[s].operations = pend[s].target
        /\ BaseOK(s)
        /\ head # None
        /\ Prefix(pend[s].target, head)
    BY <1>5, <1>t DEF Advance, IInv, CallOK, ObjectsOK, Committing, TypeOK, Calls
  <2>2. mem' = [mem EXCEPT ![s] =
                   [operations |-> pend[s].target,
                    head |-> pend[s].target,
                    commit_seq |-> IF mem[s] = None THEN 0
                                   ELSE mem[s].commit_seq + 1]]
    BY <1>5, <2>1 DEF Advance
  <2>3. mem'[s] # None /\ mem'[s].operations = pend[s].target
    <3>1. mem'[s].operations = pend[s].target /\ mem'[s].head = pend[s].target
      BY <2>2, <1>t DEF TypeOK
    <3>2. mem'[s] \in Logs
      <4>1. mem'[s] = [operations |-> pend[s].target,
                       head |-> pend[s].target,
                       commit_seq |-> IF mem[s] = None THEN 0
                                      ELSE mem[s].commit_seq + 1]
        BY <2>2, <1>t DEF TypeOK
      <4>2. mem[s] # None => mem[s].commit_seq \in Nat
        BY <1>t DEF TypeOK, Logs
      <4>3. QED
        BY <4>1, <4>2, <2>1 DEF Logs
    <3>3. QED
      BY <3>1, <3>2, NoneAssumption
  <2>4. View' = [View EXCEPT ![s] = pend[s].target]
    BY <2>2, <2>3, <1>t DEF View, TypeOK
  <2>5. mem[s] # None => Len(pend[s].target) >= Len(mem[s].operations)
    <3>1. ASSUME mem[s] # None
          PROVE  Len(pend[s].target) = Len(mem[s].operations) + 1
      <4>1. /\ mem[s].operations = mem[s].head
            /\ mem[s].head \in Histories
        BY <3>1, <1>t DEF IInv, MemoryOK, TypeOK, Logs
      <4>2. \E b \in Batches : pend[s].target = Append(mem[s].head, b)
        BY <2>1, <3>1 DEF BaseOK
      <4>3. QED
        BY <4>1, <4>2, AppendPrefix
    <3>2. mem[s] # None => Len(mem[s].operations) \in Nat
      BY <1>t DEF TypeOK, Logs, Histories
    <3>3. QED
      BY <3>1, <3>2
  <2>6. head' = head
    BY <1>5 DEF Advance
  <2>7. Promise!Observe(s)
    BY <2>1, <2>4, <2>5, <2>6, RefineObserve
  <2>8. QED
    BY <2>7 DEF Promise!Next
<1>6. ASSUME NEW s \in Services, FinishLoad(s)
      PROVE  [Promise!Next]_(Promise!vars)
  <2>1. /\ pend[s].target \in Histories
        /\ pend[s].operations = pend[s].target
        /\ mem[s] = None
        /\ head # None
        /\ Prefix(pend[s].target, head)
        /\ head' = head
    BY <1>6, <1>t DEF FinishLoad, LoadCounting, IInv, CallOK, TypeOK, Calls
  <2>2. CASE ~Loadable(pend[s].target)
    BY <1>1, <1>6, <2>1, <2>2, <1>t DEF FinishLoad, LoadCounting, TypeOK
  <2>3. CASE Loadable(pend[s].target)
    <3>1. mem' = [mem EXCEPT ![s] =
                     [operations |-> pend[s].target,
                      head |-> pend[s].target,
                      commit_seq |-> Len(pend[s].target)]]
      BY <1>6, <2>1, <2>3 DEF FinishLoad, LoadCounting
    <3>2. mem'[s] # None /\ mem'[s].operations = pend[s].target
      <4>1. mem'[s] = [operations |-> pend[s].target,
                       head |-> pend[s].target,
                       commit_seq |-> Len(pend[s].target)]
        BY <3>1, <1>t DEF TypeOK
      <4>2. mem'[s] \in Logs
        BY <4>1, <2>1 DEF Logs, Histories
      <4>3. QED
        BY <4>1, <4>2, NoneAssumption
    <3>3. View' = [View EXCEPT ![s] = pend[s].target]
      BY <3>1, <3>2, <1>t DEF View, TypeOK
    <3>4. Promise!Observe(s)
      BY <2>1, <3>3, RefineObserve
    <3>5. QED
      BY <3>4 DEF Promise!Next
  <2>4. QED
    BY <2>2, <2>3
<1>7. ASSUME NEW s \in Services, Crash(s)
      PROVE  Promise!Next
  <2>1. head' = head /\ View' = [View EXCEPT ![s] = None]
    BY <1>7, <1>t DEF Crash, View, TypeOK
  <2>2. Promise!Forget(s)
    BY <2>1 DEF Promise!Forget, View
  <2>3. QED
    BY <2>2 DEF Promise!Next
<1>8. QED
  BY <1>2, <1>3, <1>4, <1>5, <1>6, <1>7 DEF Next

\* The commit protocol, with its crashes, failed calls and competing services,
\* implements the one-step promise of AbstractLog.
THEOREM Implements == Spec => ImplementsPromise
  BY RefineInit, RefineStep, InvCorrect, PTL
     DEF Spec, ImplementsPromise, Promise!Spec

=============================================================================
