------------------------ MODULE MirroredVolumeProofs ------------------------
(***************************************************************************)
(* Proofs about MirroredVolume: type correctness, that the owner's memory  *)
(* is what is durable with what is pending written over it, that a durable *)
(* head never dangles, and that durable storage is a whole copy of its     *)
(* owner's memory (AbstractVolume), for any tabs, objects, sessions and    *)
(* bounds.                                                                 *)
(***************************************************************************)
EXTENDS MirroredVolume, FiniteSetTheorems, WellFoundedInduction, TLAPS

----------------------------------------------------------------------------
(***************************************************************************)
(* The inductive invariant                                                 *)
(***************************************************************************)

\* Whoever reads or writes the store holds the lock; nothing happens to a
\* volume before its tab is ready, and only a persistent tab flushes.
PhaseOK(t) ==
    /\ phase[t] \in {"hydrating", "promoting", "persistent"} => owner = t
    /\ session[t] # None => phase[t] = "persistent"
    /\ phase[t] \in {"closed", "hydrating"} => volume[t] = NewVolume
    /\ saving[t] # NotSaving => Running(t)
    /\ phase[t] # "persistent" => flush[t] = Idle
    /\ phase[t] = "capped" => ~volume[t].mirroring
    /\ phase[t] = "waiting" => volume[t].mirroring

\* A pending mutation is numbered beyond the watermark, and is the key's value.
VolumeOK(v) ==
    /\ v.durableSeq <= v.seq
    /\ \A k \in Keys :
        /\ v.pending[k].seq <= v.seq
        /\ v.pending[k].seq # 0 =>
            /\ v.mirroring
            /\ v.durableSeq < v.pending[k].seq
            /\ v.pending[k].value = v.entries[k]

\* Before the store is adopted, what a volume holds is what it has pending.
Own(v) == v.mirroring =>
              \A k \in Keys : v.entries[k] # None <=> v.pending[k].seq # 0

OwnOnly(t) ==
    phase[t] \in {"closed", "hydrating", "waiting", "promoting"} => Own(volume[t])

\* Afterwards, what is not pending is durable.
Agrees(t) ==
    Mirrored(t) =>
        \A k \in Keys : volume[t].pending[k].seq = 0 =>
                            volume[t].entries[k] = durable[k]

\* The batch in the transaction is the volume, but for what was written since.
CopyOK(t) ==
    /\ flush[t].batch # None =>
        /\ flush[t].on /\ volume[t].mirroring
        /\ flush[t].through <= volume[t].seq
        /\ \A k \in Keys : volume[t].pending[k].seq <= flush[t].through =>
                               flush[t].batch[k] = volume[t].entries[k]
    /\ flush[t].committed => flush[t].batch # None /\ durable = flush[t].batch

TabOK(t) ==
    /\ PhaseOK(t)
    /\ VolumeOK(volume[t])
    /\ OwnOnly(t)
    /\ Agrees(t)
    /\ CopyOK(t)

IInv == TypeOK /\ \A t \in Tabs : TabOK(t)

----------------------------------------------------------------------------
(***************************************************************************)
(* The volume                                                              *)
(***************************************************************************)

\* A bounded set of numbers has a greatest one.
LEMMA Greatest ==
  ASSUME NEW S \in SUBSET Nat, S # {}, NEW n \in Nat, \A s \in S : s <= n
  PROVE  \E m \in S : \A s \in S : s <= m
<1> DEFINE Above(m) == {s \in S : s >= m}
           Aboves == {Above(m) : m \in S}
<1>1. IsFiniteSet(S)
  BY FS_BoundedSetOfNaturals
<1>2. Aboves \subseteq FiniteSubsetsOf(S)
  BY <1>1, FS_FiniteSubsetsOfFinite
<1>3. Aboves # {}
  OBVIOUS
<1>4. PICK A \in Aboves : \A B \in Aboves : ~(<<B, A>> \in StrictSubsetOrdering(S))
  BY <1>2, <1>3, FS_StrictSubsetOrderingWellFounded, WFMin
<1>5. PICK m \in S : A = Above(m)
  OBVIOUS
<1>6. ASSUME NEW s \in S, s > m PROVE FALSE
  <2>1. Above(s) \in Aboves
    OBVIOUS
  <2>2. \A i \in S : i \in Nat
    OBVIOUS
  <2>3. ASSUME NEW i \in Above(s) PROVE i \in Above(m)
    <3>1. i \in S /\ i >= s
      OBVIOUS
    <3>2. i >= m
      BY <3>1, <2>2, <1>6
    <3>3. QED
      BY <3>1, <3>2
  <2>4. m \in Above(m) /\ m \notin Above(s)
    BY <1>6, <2>2, SMT
  <2>5. <<Above(s), A>> \in StrictSubsetOrdering(S)
    BY <2>3, <2>4, <1>5 DEF StrictSubsetOrdering
  <2>6. QED
    BY <1>4, <2>1, <2>5
<1>7. QED
  BY <1>6

\* What every call on a volume does: the keys it changes are pending under a
\* number that is new.
Grown(v, w) ==
    /\ w \in Volumes /\ VolumeOK(w)
    /\ w.mirroring = v.mirroring /\ v.seq <= w.seq
    /\ \A k \in Keys :
        \/ w.entries[k] = v.entries[k] /\ w.pending[k] = v.pending[k]
        \/ w.mirroring => w.pending[k].seq > v.seq

\* A call that writes nothing.
LEMMA SameGrows ==
  ASSUME NEW v \in Volumes, VolumeOK(v)
  PROVE  Grown(v, v)
BY DEF Grown, Volumes

\* put: the key is pending under a number beyond every other.
LEMMA PutGrows ==
  ASSUME NEW v \in Volumes, VolumeOK(v), NEW k \in Keys,
         NEW x \in Values \cup {None}
  PROVE  /\ Grown(v, Put(v, k, x))
         /\ \A j \in Keys : Put(v, k, x).entries[j] =
                              IF j = k THEN x ELSE v.entries[j]
         /\ Own(v) /\ x # None => Own(Put(v, k, x))
<1> DEFINE w == Put(v, k, x)
<1>1. CASE v.mirroring
  <2>1. w = [entries |-> [v.entries EXCEPT ![k] = x],
             pending |-> [v.pending EXCEPT ![k] = [seq |-> v.seq + 1, value |-> x]],
             seq |-> v.seq + 1, durableSeq |-> v.durableSeq,
             mirroring |-> v.mirroring]
    BY <1>1 DEF Put, Recorded, Volumes
  <2>2. w \in Volumes
    BY <2>1 DEF Volumes, Contents
  <2>3. VolumeOK(w)
    BY <1>1, <2>1 DEF VolumeOK, Volumes, Contents
  <2>4. QED
    BY <1>1, <2>1, <2>2, <2>3 DEF Grown, Own, Volumes, Contents
<1>2. CASE ~v.mirroring
  <2>1. w = [entries |-> [v.entries EXCEPT ![k] = x],
             pending |-> v.pending,
             seq |-> v.seq + 1, durableSeq |-> v.seq + 1,
             mirroring |-> v.mirroring]
    BY <1>2 DEF Put, Recorded, Volumes
  <2>2. w \in Volumes
    BY <2>1 DEF Volumes, Contents
  <2>3. VolumeOK(w)
    BY <1>2, <2>1 DEF VolumeOK, Volumes, Contents
  <2>4. QED
    BY <1>2, <2>1, <2>2, <2>3 DEF Grown, Own, Volumes, Contents
<1>3. QED
  BY <1>1, <1>2

\* An object is written under its hash, unless it is there.
LEMMA PutIfAbsentGrows ==
  ASSUME NEW v \in Volumes, VolumeOK(v), NEW o \in Objects
  PROVE  /\ Grown(v, PutIfAbsent(v, o))
         /\ \A j \in Keys : PutIfAbsent(v, o).entries[j] =
                IF j = o /\ v.entries[o] = None THEN o ELSE v.entries[j]
         /\ Own(v) => Own(PutIfAbsent(v, o))
<1>1. o \in Keys /\ o \in Values \cup {None} /\ o # None
  BY VolumeAssumption DEF Keys, Values
<1>2. CASE v.entries[o] # None
  BY <1>2, SameGrows DEF PutIfAbsent
<1>3. CASE v.entries[o] = None
  <2>1. PutIfAbsent(v, o) = Put(v, o, o)
    BY <1>3 DEF PutIfAbsent
  <2>2. QED
    BY <1>1, <1>3, <2>1, PutGrows
<1>4. QED
  BY <1>2, <1>3

\* A segment has finitely many frames.
LEMMA FramesFinite ==
  ASSUME NEW v, NEW s
  PROVE  IsFiniteSet(FramesOf(v, s))
<1> DEFINE F == FramesOf(v, s)
           index == [f \in F |-> f[2]]
<1>1. IsFiniteSet(0..MaxFrame)
  BY VolumeAssumption, FS_Interval
<1>2. index \in Injection(F, 0..MaxFrame)
  <2>1. \A f \in F : f[2] \in 0..MaxFrame /\ f = <<s, f[2]>>
    BY DEF FramesOf, Frames
  <2>2. QED
    BY <2>1 DEF Injection, IsInjective
<1>3. QED
  BY <1>1, <1>2, FS_Injection

\* Every frame of a segment is deleted under a number of its own.
LEMMA DeletePrefixGrows ==
  ASSUME NEW v \in Volumes, VolumeOK(v), NEW s
  PROVE  /\ Grown(v, DeletePrefix(v, s))
         /\ \A k \in Keys : DeletePrefix(v, s).entries[k] =
                IF k \in FramesOf(v, s) THEN None ELSE v.entries[k]
<1> DEFINE w == DeletePrefix(v, s)
           gone == FramesOf(v, s)
           n == Cardinality(gone)
           before(f) == Cardinality({g \in gone : g[2] <= f[2]})
           deleted(f) == [seq |-> v.seq + before(f), value |-> None]
<1>1. n \in Nat /\ (gone = {} => n = 0)
  BY FramesFinite, FS_CardinalityType, FS_EmptySet
<1>2. ASSUME NEW f \in gone PROVE before(f) \in 1..n
  <2> DEFINE B == {g \in gone : g[2] <= f[2]}
  <2>1. IsFiniteSet(B) /\ Cardinality(B) <= n
    BY FramesFinite, FS_Subset
  <2>2. f[2] <= f[2]
    BY VolumeAssumption DEF FramesOf, Frames
  <2>3. B # {}
    BY <2>2
  <2>4. Cardinality(B) \in Nat /\ Cardinality(B) # 0
    BY <2>1, <2>3, FS_CardinalityType, FS_EmptySet
  <2>5. QED
    BY <1>1, <2>1, <2>4
<1>3. gone \subseteq Keys
  BY DEF FramesOf, Keys
<1> HIDE DEF before, n
<1>4. CASE v.mirroring
  <2>1. w = [entries |-> [k \in Keys |-> IF k \in gone THEN None ELSE v.entries[k]],
             pending |-> [k \in Keys |-> IF k \in gone THEN deleted(k)
                                         ELSE v.pending[k]],
             seq |-> v.seq + n, durableSeq |-> v.durableSeq,
             mirroring |-> v.mirroring]
    <3> DEFINE e == [k \in Keys |-> IF k \in gone THEN None ELSE v.entries[k]]
               p == [k \in Keys |-> IF k \in gone THEN deleted(k) ELSE v.pending[k]]
    <3>1. w = [v EXCEPT !.entries = e, !.pending = p, !.seq = v.seq + n,
                        !.durableSeq = v.durableSeq]
      BY <1>4 DEF DeletePrefix, Volumes, before, n
    <3> HIDE DEF e, p, w, deleted, gone
    <3>2. w = [entries |-> e, pending |-> p, seq |-> v.seq + n,
               durableSeq |-> v.durableSeq, mirroring |-> v.mirroring]
      BY <3>1 DEF Volumes
    <3>3. QED
      BY <3>2 DEF e, p
  <2> HIDE DEF gone, w
  <2>2. w \in Volumes
    BY <1>1, <1>2, <2>1 DEF Volumes, Contents
  <2>3. VolumeOK(w)
    BY <1>1, <1>2, <1>4, <2>1 DEF VolumeOK, Volumes, Contents
  <2>4. QED
    BY <1>1, <1>2, <1>4, <2>1, <2>2, <2>3 DEF Grown, Volumes, Contents, w, gone
<1>5. CASE ~v.mirroring
  <2>1. w = [entries |-> [k \in Keys |-> IF k \in gone THEN None ELSE v.entries[k]],
             pending |-> [k \in Keys |-> v.pending[k]],
             seq |-> v.seq + n,
             durableSeq |-> IF gone = {} THEN v.durableSeq ELSE v.seq + n,
             mirroring |-> v.mirroring]
    <3> DEFINE e == [k \in Keys |-> IF k \in gone THEN None ELSE v.entries[k]]
               p == [k \in Keys |-> v.pending[k]]
               d == IF gone = {} THEN v.durableSeq ELSE v.seq + n
    <3>1. w = [v EXCEPT !.entries = e, !.pending = p, !.seq = v.seq + n,
                        !.durableSeq = d]
      BY <1>5 DEF DeletePrefix, Volumes, n
    <3> HIDE DEF e, p, d, w, gone
    <3>2. w = [entries |-> e, pending |-> p, seq |-> v.seq + n,
               durableSeq |-> d, mirroring |-> v.mirroring]
      BY <3>1 DEF Volumes
    <3>3. QED
      BY <3>2 DEF e, p, d
  <2> HIDE DEF gone, w
  <2>2. w \in Volumes
    BY <1>1, <2>1 DEF Volumes, Contents
  <2>3. VolumeOK(w)
    BY <1>1, <1>5, <2>1 DEF VolumeOK, Volumes, Contents
  <2>4. QED
    BY <1>1, <1>5, <2>1, <2>2, <2>3 DEF Grown, Volumes, Contents, w, gone
<1>6. QED
  BY <1>4, <1>5

\* The volume of a page that has just begun.
LEMMA NewIsOK == NewVolume \in Volumes /\ VolumeOK(NewVolume) /\ Own(NewVolume)
BY DEF NewVolume, NotPending, Volumes, Contents, VolumeOK, Own

\* What is pending is not touched when the store is adopted.
LEMMA HydratedIsOK ==
  ASSUME NEW v \in Volumes, VolumeOK(v), Own(v), NEW c \in Contents
  PROVE  /\ Hydrated(v, c) \in Volumes /\ VolumeOK(Hydrated(v, c))
         /\ \A k \in Keys : Hydrated(v, c).entries[k] =
                IF v.entries[k] = None THEN c[k] ELSE v.entries[k]
         /\ Hydrated(v, c).pending = v.pending
         /\ Hydrated(v, c).mirroring = v.mirroring
         /\ v.mirroring => \A k \in Keys : v.pending[k].seq = 0 =>
                               Hydrated(v, c).entries[k] = c[k]
<1> DEFINE w == Hydrated(v, c)
<1>1. w = [entries |-> [k \in Keys |-> IF v.entries[k] = None THEN c[k]
                                       ELSE v.entries[k]],
           pending |-> v.pending, seq |-> v.seq, durableSeq |-> v.durableSeq,
           mirroring |-> v.mirroring]
  BY DEF Hydrated, Volumes
<1>2. w \in Volumes
  BY <1>1 DEF Volumes, Contents
<1>3. VolumeOK(w)
  BY <1>1 DEF VolumeOK, Own, Volumes, Contents
<1>4. QED
  BY <1>1, <1>2, <1>3 DEF Own, Volumes, Contents

\* A volume that is mirrored no more has nothing pending.
LEMMA UnmirroredIsOK ==
  ASSUME NEW v \in Volumes
  PROVE  /\ Unmirrored(v) \in Volumes /\ VolumeOK(Unmirrored(v))
         /\ ~Unmirrored(v).mirroring /\ Own(Unmirrored(v))
         /\ Unmirrored(v).entries = v.entries
<1> DEFINE w == Unmirrored(v)
<1>1. w = [entries |-> v.entries, pending |-> [k \in Keys |-> NotPending],
           seq |-> v.seq, durableSeq |-> v.seq, mirroring |-> FALSE]
  <2> DEFINE p == [k \in Keys |-> NotPending]
  <2>1. w = [v EXCEPT !.mirroring = FALSE, !.pending = p, !.durableSeq = v.seq]
    BY DEF Unmirrored
  <2> HIDE DEF p, w
  <2>2. w = [entries |-> v.entries, pending |-> p, seq |-> v.seq,
             durableSeq |-> v.seq, mirroring |-> FALSE]
    BY <2>1 DEF Volumes
  <2>3. QED
    BY <2>2 DEF p, w
<1>2. QED
  BY <1>1 DEF NotPending, Volumes, Contents, VolumeOK, Own

\* An acknowledgement leaves what was written since.
LEMMA AcknowledgedIsOK ==
  ASSUME NEW v \in Volumes, VolumeOK(v), NEW n \in Nat
  PROVE  /\ Acknowledged(v, n) \in Volumes /\ VolumeOK(Acknowledged(v, n))
         /\ Acknowledged(v, n).entries = v.entries
         /\ Acknowledged(v, n).mirroring = v.mirroring
         /\ \A k \in Keys : v.pending[k].seq > n =>
                Acknowledged(v, n).pending[k] = v.pending[k]
<1> DEFINE w == Acknowledged(v, n)
<1>1. w = [entries |-> v.entries,
           pending |-> [k \in Keys |-> IF v.pending[k].seq > n
                                       THEN v.pending[k] ELSE NotPending],
           seq |-> v.seq,
           durableSeq |-> IF n > v.durableSeq
                          THEN IF n < v.seq THEN n ELSE v.seq
                          ELSE v.durableSeq,
           mirroring |-> v.mirroring]
  <2> DEFINE p == [k \in Keys |-> IF v.pending[k].seq > n
                                   THEN v.pending[k] ELSE NotPending]
             d == IF n > v.durableSeq THEN IF n < v.seq THEN n ELSE v.seq
                  ELSE v.durableSeq
  <2>1. w = [v EXCEPT !.pending = p, !.durableSeq = d]
    BY DEF Acknowledged, Volumes
  <2> HIDE DEF p, d, w
  <2>2. w = [entries |-> v.entries, pending |-> p, seq |-> v.seq,
             durableSeq |-> d, mirroring |-> v.mirroring]
    BY <2>1 DEF Volumes
  <2>3. QED
    BY <2>2 DEF p, d, w
<1>2. w \in Volumes
  BY <1>1 DEF NotPending, Volumes, Contents
<1>3. VolumeOK(w)
  BY <1>1 DEF NotPending, VolumeOK, Volumes, Contents
<1>4. QED
  BY <1>1, <1>2, <1>3 DEF Volumes, Contents

----------------------------------------------------------------------------
(***************************************************************************)
(* The steps                                                               *)
(***************************************************************************)

\* A step of t leaves the other tabs alone, and the store if one of them owns it.
OnlyOf(t) == \A u \in Tabs \ {t} :
    /\ phase'[u] = phase[u] /\ volume'[u] = volume[u] /\ saving'[u] = saving[u]
    /\ session'[u] = session[u] /\ flush'[u] = flush[u]
    /\ owner = u => owner' = u /\ durable' = durable

\* What a step of t must show is of t alone.
LEMMA Elsewhere ==
  ASSUME IInv, NEW t \in Tabs, OnlyOf(t), TypeOK', TabOK(t)'
  PROVE  IInv'
<1>1. ASSUME NEW u \in Tabs \ {t} PROVE TabOK(u)'
  <2>1. /\ TabOK(u)
        /\ phase'[u] = phase[u] /\ volume'[u] = volume[u]
        /\ saving'[u] = saving[u] /\ session'[u] = session[u]
        /\ flush'[u] = flush[u]
        /\ owner = u => owner' = u /\ durable' = durable
    BY DEF IInv, OnlyOf
  <2>2. PhaseOK(u)' /\ VolumeOK(volume[u])' /\ OwnOnly(u)'
    BY <2>1 DEF TabOK, PhaseOK, VolumeOK, OwnOnly, Own, Running
  <2>3. Agrees(u)'
    BY <2>1 DEF TabOK, PhaseOK, Agrees, Mirrored
  <2>4. CopyOK(u)'
    BY <2>1 DEF TabOK, PhaseOK, CopyOK, Idle
  <2>5. QED
    BY <2>2, <2>3, <2>4 DEF TabOK
<1>2. QED
  BY <1>1 DEF IInv

\* A loop that does not run.
LEMMA IdleType == Idle \in Flushes
BY DEF Idle, Flushes

\* A loop that has just started has no batch.
LEMMA Looping ==
  /\ [Idle EXCEPT !.on = TRUE] \in Flushes
  /\ [Idle EXCEPT !.on = TRUE].batch = None
  /\ ~[Idle EXCEPT !.on = TRUE].committed
<1>1. \A i \in Flushes : [i EXCEPT !.on = TRUE] \in Flushes
  BY DEF Flushes
<1>2. QED
  BY <1>1, IdleType DEF Idle

\* A command of t has changed its volume, and scheduled the loop, or not yet.
LEMMA Mutated ==
  ASSUME IInv, NEW t \in Tabs, phase[t] \notin {"closed", "hydrating"},
         volume' = [volume EXCEPT ![t] = volume'[t]],
         Grown(volume[t], volume'[t]),
         phase[t] = "persistent" \/ (Own(volume[t]) => Own(volume'[t])),
         flush' = flush \/ flush' = Scheduled(t, volume'[t]),
         saving' = [saving EXCEPT ![t] = saving'[t]], saving'[t] \in Savings,
         saving'[t] # NotSaving => Running(t),
         session' = [session EXCEPT ![t] = session'[t]],
         session'[t] \in Sessions \cup {None},
         session'[t] # None => phase[t] = "persistent",
         UNCHANGED <<phase, owner, durable>>
  PROVE  IInv'
<1> USE DEF IInv
<1>1. \/ flush' = flush
      \/ /\ flush' = [flush EXCEPT ![t] = [Idle EXCEPT !.on = TRUE]]
         /\ phase[t] = "persistent"
  BY DEF Scheduled
<1>3. TypeOK'
  <2>1. volume'[t] \in Volumes
    BY DEF Grown
  <2>2. flush' \in [Tabs -> Flushes]
    BY <1>1, Looping DEF TypeOK
  <2>3. volume' \in [Tabs -> Volumes]
    BY <2>1 DEF TypeOK
  <2>4. saving' \in [Tabs -> Savings] /\ session' \in [Tabs -> Sessions \cup {None}]
    BY DEF TypeOK
  <2>5. QED
    BY <2>2, <2>3, <2>4 DEF TypeOK
<1>4. OnlyOf(t)
  BY <1>1 DEF OnlyOf, TypeOK
<1>5. PhaseOK(t)'
  BY <1>1 DEF TabOK, PhaseOK, Running, TypeOK, Grown
<1>6. VolumeOK(volume[t])'
  BY DEF Grown
<1>7. OwnOnly(t)'
  BY DEF TabOK, OwnOnly, TypeOK
<1>8. /\ volume[t] \in Volumes /\ volume'[t] \in Volumes
      /\ \A k \in Keys : volume'[t].mirroring
             /\ volume'[t].pending[k].seq <= volume[t].seq =>
             /\ volume'[t].entries[k] = volume[t].entries[k]
             /\ volume'[t].pending[k] = volume[t].pending[k]
  BY DEF Grown, TypeOK, Volumes
<1>9. Agrees(t)'
  <2>1. SUFFICES ASSUME Mirrored(t)', NEW k \in Keys, volume'[t].pending[k].seq = 0
                 PROVE  volume'[t].entries[k] = durable[k]
    BY DEF Agrees
  <2>2. Mirrored(t)
    BY <2>1 DEF Mirrored, Grown
  <2>3. 0 <= volume[t].seq
    BY <1>8 DEF Volumes
  <2>4. volume'[t].entries[k] = volume[t].entries[k] /\ volume[t].pending[k].seq = 0
    BY <1>8, <2>1, <2>3 DEF Mirrored
  <2>5. QED
    BY <2>2, <2>4 DEF TabOK, Agrees
<1>10. CopyOK(t)'
  <2>1. CASE flush' = flush
    <3>1. /\ CopyOK(t) /\ flush[t].through \in Nat
          /\ volume[t].seq \in Nat /\ volume'[t].seq \in Nat
          /\ volume[t].seq <= volume'[t].seq
          /\ volume'[t].mirroring = volume[t].mirroring
          /\ \A k \in Keys : volume'[t].pending[k].seq \in Nat
      BY <1>8 DEF TabOK, Grown, TypeOK, Volumes, Flushes
    <3>2. ASSUME flush[t].batch # None, NEW k \in Keys,
                 volume'[t].pending[k].seq <= flush[t].through
          PROVE  flush[t].batch[k] = volume'[t].entries[k]
      BY <1>8, <3>1, <3>2 DEF CopyOK
    <3>3. QED
      BY <2>1, <3>1, <3>2 DEF CopyOK
  <2>2. CASE flush' # flush
    BY <1>1, <2>2, Looping DEF CopyOK, TypeOK
  <2>3. QED
    BY <2>1, <2>2
<1>11. QED
  BY <1>3, <1>4, <1>5, <1>6, <1>7, <1>9, <1>10, Elsewhere DEF TabOK

\* What the invariant says of one tab.
LEMMA OfTab ==
  ASSUME IInv, NEW t \in Tabs
  PROVE  /\ volume[t] \in Volumes /\ VolumeOK(volume[t])
         /\ flush[t] \in Flushes /\ saving[t] \in Savings
         /\ phase[t] \in Phases /\ session[t] \in Sessions \cup {None}
         /\ PhaseOK(t) /\ OwnOnly(t) /\ Agrees(t) /\ CopyOK(t)
BY DEF IInv, TypeOK, TabOK

\* A save writes its snapshot.
LEMMA BeginSaveInv ==
  ASSUME IInv, NEW t \in Tabs, BeginSave(t)
  PROVE  IInv'
<1>1. PICK m \in Manifests :
          /\ volume' = [volume EXCEPT ![t] = PutIfAbsent(@, SnapshotOf[m])]
          /\ saving' = [saving EXCEPT ![t] =
                 [step |-> "manifest", manifest |-> m, expected |-> ParentOf[m]]]
  BY DEF BeginSave
<1>2. SnapshotOf[m] \in Objects /\ ParentOf[m] \in Manifests \cup {None}
  BY VolumeAssumption DEF Objects
<1>3. /\ volume'[t] = PutIfAbsent(volume[t], SnapshotOf[m])
      /\ saving'[t] = [step |-> "manifest", manifest |-> m,
                       expected |-> ParentOf[m]]
  BY <1>1 DEF IInv, TypeOK
<1>4. Grown(volume[t], volume'[t]) /\ (Own(volume[t]) => Own(volume'[t]))
  BY <1>2, <1>3, OfTab, PutIfAbsentGrows
<1>5. saving'[t] \in Savings
  BY <1>2, <1>3 DEF Savings
<1>6. session' = [session EXCEPT ![t] = session'[t]]
      /\ session'[t] \in Sessions \cup {None}
      /\ (session'[t] # None => phase[t] = "persistent")
  BY OfTab DEF BeginSave, IInv, TypeOK, PhaseOK
<1>7. volume' = [volume EXCEPT ![t] = volume'[t]]
      /\ saving' = [saving EXCEPT ![t] = saving'[t]]
  BY <1>1, <1>3
<1>8. Running(t) /\ phase[t] \notin {"closed", "hydrating"}
      /\ UNCHANGED <<phase, flush, owner, durable>>
  BY DEF BeginSave, Running
<1>9. QED
  BY <1>4, <1>5, <1>6, <1>7, <1>8, Mutated

\* A tab in the middle of a save is running.
LEMMA SavingRuns ==
  ASSUME IInv, NEW t \in Tabs, saving[t].step \in {"manifest", "head"}
  PROVE  /\ Running(t) /\ phase[t] \notin {"closed", "hydrating"}
         /\ saving[t].manifest \in Manifests /\ saving[t] # NotSaving
         /\ [saving[t] EXCEPT !.step = "head"] \in Savings
<1>1. saving[t] # NotSaving
  BY DEF NotSaving
<1>2. Running(t)
  BY <1>1, OfTab DEF PhaseOK
<1>3. saving[t] \in [step : {"manifest", "head"}, manifest : Manifests,
                     expected : Manifests \cup {None}]
  BY <1>1, OfTab DEF Savings
<1>4. [saving[t] EXCEPT !.step = "head"] \in
          [step : {"manifest", "head"}, manifest : Manifests,
           expected : Manifests \cup {None}]
  BY <1>3
<1>5. QED
  BY <1>1, <1>2, <1>3, <1>4 DEF Running, Savings

\* A save writes its manifest.
LEMMA WriteManifestInv ==
  ASSUME IInv, NEW t \in Tabs, WriteManifest(t)
  PROVE  IInv'
<1>1. /\ volume'[t] = PutIfAbsent(volume[t], saving[t].manifest)
      /\ saving'[t] = [saving[t] EXCEPT !.step = "head"]
      /\ volume' = [volume EXCEPT ![t] = volume'[t]]
      /\ saving' = [saving EXCEPT ![t] = saving'[t]]
  BY DEF WriteManifest, IInv, TypeOK
<1>2. /\ Running(t) /\ phase[t] \notin {"closed", "hydrating"}
      /\ saving[t].manifest \in Objects /\ saving'[t] \in Savings
  BY <1>1, SavingRuns DEF WriteManifest, Objects
<1>3. Grown(volume[t], volume'[t]) /\ (Own(volume[t]) => Own(volume'[t]))
  BY <1>1, <1>2, OfTab, PutIfAbsentGrows
<1>4. session' = [session EXCEPT ![t] = session'[t]]
      /\ session'[t] \in Sessions \cup {None}
      /\ (session'[t] # None => phase[t] = "persistent")
  BY OfTab DEF WriteManifest, IInv, TypeOK, PhaseOK
<1>5. UNCHANGED <<phase, flush, owner, durable>>
  BY DEF WriteManifest
<1>6. QED
  BY <1>1, <1>2, <1>3, <1>4, <1>5, Mutated

\* Hashes, heads and frames are values; None is not.
LEMMA NotNone ==
  /\ Head \in Keys /\ Frames \subseteq Keys \cap Values
  /\ Manifests \subseteq Values /\ None \notin Values
BY VolumeAssumption DEF Keys, Values, Objects

\* A save swaps the head, or finds another there.
LEMMA SwapHeadInv ==
  ASSUME IInv, NEW t \in Tabs, SwapHead(t)
  PROVE  IInv'
<1>1. /\ volume' = [volume EXCEPT ![t] = volume'[t]]
      /\ \/ volume'[t] = volume[t]
         \/ volume'[t] = Put(volume[t], Head, saving[t].manifest)
      /\ flush' = Scheduled(t, volume'[t])
      /\ saving'[t] = NotSaving
      /\ saving' = [saving EXCEPT ![t] = saving'[t]]
  BY DEF SwapHead, EndCommand, IInv, TypeOK
<1>2. /\ phase[t] \notin {"closed", "hydrating"}
      /\ saving[t].manifest \in Values
  BY SavingRuns, NotNone DEF SwapHead
<1>3. Grown(volume[t], volume'[t]) /\ (Own(volume[t]) => Own(volume'[t]))
  BY <1>1, <1>2, OfTab, PutGrows, SameGrows, NotNone
<1>4. session' = [session EXCEPT ![t] = session'[t]]
      /\ session'[t] \in Sessions \cup {None}
      /\ (session'[t] # None => phase[t] = "persistent")
  BY OfTab DEF SwapHead, IInv, TypeOK, PhaseOK
<1>5. UNCHANGED <<phase, owner, durable>> /\ NotSaving \in Savings
  BY DEF SwapHead, Savings
<1>6. QED
  BY <1>1, <1>2, <1>3, <1>4, <1>5, Mutated

\* The commands that are not saves.
LEMMA QuietMutated ==
  ASSUME IInv, NEW t \in Tabs, phase[t] \notin {"closed", "hydrating"},
         volume' = [volume EXCEPT ![t] = volume'[t]],
         Grown(volume[t], volume'[t]),
         phase[t] = "persistent" \/ (Own(volume[t]) => Own(volume'[t])),
         flush' = Scheduled(t, volume'[t]),
         session' = [session EXCEPT ![t] = session'[t]],
         session'[t] \in Sessions \cup {None},
         session'[t] # None => phase[t] = "persistent",
         UNCHANGED <<phase, saving, owner, durable>>
  PROVE  IInv'
<1>1. saving' = [saving EXCEPT ![t] = saving'[t]] /\ saving'[t] \in Savings
      /\ (saving'[t] # NotSaving => Running(t))
  BY OfTab DEF IInv, TypeOK, PhaseOK
<1>2. QED
  BY <1>1, Mutated

\* A segment is begun.
LEMMA BeginSegmentInv ==
  ASSUME IInv, NEW t \in Tabs, BeginSegment(t)
  PROVE  IInv'
<1>1. PICK s \in Sessions :
          /\ session' = [session EXCEPT ![t] = s]
          /\ EndCommand(t, Put(volume[t], <<s, 0>>, <<s, 0>>))
  BY DEF BeginSegment
<1>2. <<s, 0>> \in Frames
  BY VolumeAssumption DEF Frames
<1>3. /\ volume' = [volume EXCEPT ![t] = volume'[t]]
      /\ volume'[t] = Put(volume[t], <<s, 0>>, <<s, 0>>)
      /\ flush' = Scheduled(t, volume'[t])
      /\ session'[t] = s /\ session' = [session EXCEPT ![t] = session'[t]]
  BY <1>1 DEF EndCommand, IInv, TypeOK
<1>4. Grown(volume[t], volume'[t])
  BY <1>2, <1>3, OfTab, PutGrows, NotNone
<1>5. phase[t] = "persistent" /\ UNCHANGED <<phase, saving, owner, durable>>
  BY DEF BeginSegment
<1>6. QED
  BY <1>3, <1>4, <1>5, QuietMutated

\* A segment gets its next frame; only an owner has a segment.
LEMMA AppendFrameInv ==
  ASSUME IInv, NEW t \in Tabs, AppendFrame(t)
  PROVE  IInv'
<1>1. PICK i \in 1..MaxFrame :
          EndCommand(t, Put(volume[t], <<session[t], i>>, <<session[t], i>>))
  BY DEF AppendFrame
<1>2. /\ phase[t] = "persistent" /\ session[t] \in Sessions
      /\ UNCHANGED <<phase, saving, session, owner, durable>>
  BY OfTab DEF AppendFrame, PhaseOK
<1>3. <<session[t], i>> \in Frames
  BY <1>2, VolumeAssumption DEF Frames
<1>4. /\ volume' = [volume EXCEPT ![t] = volume'[t]]
      /\ volume'[t] = Put(volume[t], <<session[t], i>>, <<session[t], i>>)
      /\ flush' = Scheduled(t, volume'[t])
      /\ session' = [session EXCEPT ![t] = session'[t]]
  BY <1>1, <1>2 DEF EndCommand, IInv, TypeOK
<1>5. Grown(volume[t], volume'[t])
  BY <1>3, <1>4, OfTab, PutGrows, NotNone
<1>6. QED
  BY <1>2, <1>4, <1>5, QuietMutated

\* A segment goes.
LEMMA RemoveSegmentInv ==
  ASSUME IInv, NEW t \in Tabs, RemoveSegment(t)
  PROVE  IInv'
<1>1. PICK s \in Sessions :
          /\ session' = [session EXCEPT ![t] = IF @ = s THEN None ELSE @]
          /\ EndCommand(t, DeletePrefix(volume[t], s))
  BY DEF RemoveSegment
<1>2. /\ volume' = [volume EXCEPT ![t] = volume'[t]]
      /\ volume'[t] = DeletePrefix(volume[t], s)
      /\ flush' = Scheduled(t, volume'[t])
      /\ session' = [session EXCEPT ![t] = session'[t]]
      /\ session'[t] \in Sessions \cup {None}
  BY <1>1 DEF EndCommand, IInv, TypeOK
<1>3. Grown(volume[t], volume'[t])
  BY <1>2, OfTab, DeletePrefixGrows
<1>4. phase[t] = "persistent" /\ UNCHANGED <<phase, saving, owner, durable>>
  BY DEF RemoveSegment
<1>5. QED
  BY <1>2, <1>3, <1>4, QuietMutated

\* A command that writes nothing may still start the loop.
LEMMA OtherCommandInv ==
  ASSUME IInv, NEW t \in Tabs, OtherCommand(t)
  PROVE  IInv'
<1>1. /\ volume' = [volume EXCEPT ![t] = volume'[t]]
      /\ volume'[t] = volume[t]
      /\ flush' = Scheduled(t, volume'[t])
      /\ session' = [session EXCEPT ![t] = session'[t]]
      /\ session'[t] = session[t]
  BY DEF OtherCommand, EndCommand, IInv, TypeOK
<1>2. Grown(volume[t], volume'[t])
  BY <1>1, OfTab, SameGrows
<1>3. phase[t] \notin {"closed", "hydrating"}
      /\ UNCHANGED <<phase, saving, owner, durable>>
  BY DEF OtherCommand, Running
<1>4. session'[t] \in Sessions \cup {None}
      /\ (session'[t] # None => phase[t] = "persistent")
  BY <1>1, OfTab DEF PhaseOK
<1>5. QED
  BY <1>1, <1>2, <1>3, <1>4, QuietMutated

----------------------------------------------------------------------------
(* Attaching the volume to IndexedDB.                                      *)

\* The lock was free, so no other tab is attached.
LEMMA OpenAsOwnerInv ==
  ASSUME IInv, NEW t \in Tabs, OpenAsOwner(t)
  PROVE  IInv'
<1> USE DEF OpenAsOwner
<1>1. TypeOK'
  BY DEF IInv, TypeOK, Phases
<1>2. OnlyOf(t)
  BY VolumeAssumption DEF OnlyOf, IInv, TypeOK
<1>3. phase'[t] = "hydrating" /\ owner' = t
  BY DEF IInv, TypeOK
<1>4. TabOK(t)'
  BY <1>3, OfTab DEF TabOK, PhaseOK, VolumeOK, OwnOnly, Own, Agrees, Mirrored,
                     CopyOK, Running
<1>5. QED
  BY <1>1, <1>2, <1>4, Elsewhere

\* A new volume is its own, and is mirrored.
LEMMA OpenAndWaitInv ==
  ASSUME IInv, NEW t \in Tabs, OpenAndWait(t)
  PROVE  IInv'
<1> USE DEF OpenAndWait
<1>1. TypeOK'
  BY DEF IInv, TypeOK, Phases
<1>2. OnlyOf(t)
  BY DEF OnlyOf, IInv, TypeOK
<1>3. phase'[t] = "waiting"
  BY DEF IInv, TypeOK
<1>4. TabOK(t)'
  BY <1>3, OfTab DEF TabOK, PhaseOK, VolumeOK, OwnOnly, Own, Agrees, Mirrored,
                     CopyOK, Running, NewVolume
<1>5. QED
  BY <1>1, <1>2, <1>4, Elsewhere

\* A volume without a database is not mirrored.
LEMMA OpenInMemoryInv ==
  ASSUME IInv, NEW t \in Tabs, OpenInMemory(t)
  PROVE  IInv'
<1> USE DEF OpenInMemory
<1>1. /\ phase'[t] = "memory" /\ volume'[t] = Unmirrored(volume[t])
      /\ volume'[t] \in Volumes /\ VolumeOK(volume[t])'
  BY OfTab, UnmirroredIsOK DEF IInv, TypeOK, VolumeOK
<1>2. TypeOK'
  BY <1>1 DEF IInv, TypeOK, Phases
<1>3. OnlyOf(t)
  BY DEF OnlyOf, IInv, TypeOK
<1>4. /\ phase[t] = "closed" /\ flush'[t] = Idle
      /\ session'[t] = None /\ saving'[t] = NotSaving
  BY OfTab DEF PhaseOK, Running
<1>5. PhaseOK(t)' /\ OwnOnly(t)' /\ Agrees(t)'
  BY <1>1, <1>4 DEF PhaseOK, OwnOnly, Agrees, Mirrored
<1>6. CopyOK(t)'
  BY <1>4 DEF CopyOK, Idle
<1>7. QED
  BY <1>1, <1>2, <1>3, <1>5, <1>6, Elsewhere DEF TabOK

\* The lock passes to a tab whose volume is its own, or given up.
LEMMA GrantLockInv ==
  ASSUME IInv, NEW t \in Tabs, GrantLock(t)
  PROVE  IInv'
<1> USE DEF GrantLock
<1>1. TypeOK'
  BY DEF IInv, TypeOK, Phases
<1>2. OnlyOf(t)
  BY VolumeAssumption DEF OnlyOf, IInv, TypeOK
<1>3. \/ phase'[t] = "promoting" /\ phase[t] = "waiting"
      \/ phase'[t] = "capped" /\ phase[t] = "capped" /\ ~volume[t].mirroring
  BY OfTab DEF IInv, TypeOK, PhaseOK
<1>4. /\ flush'[t] = Idle /\ session'[t] = None /\ owner' = t
      /\ (phase'[t] = "capped" => saving'[t] = NotSaving)
  BY <1>3, OfTab DEF PhaseOK, Running, IInv, TypeOK
<1>5. PhaseOK(t)'
  BY <1>3, <1>4 DEF PhaseOK, Running
<1>6. VolumeOK(volume[t])' /\ OwnOnly(t)' /\ Agrees(t)'
  BY <1>3, OfTab DEF VolumeOK, OwnOnly, Own, Agrees, Mirrored
<1>7. CopyOK(t)'
  BY <1>4 DEF CopyOK, Idle
<1>8. QED
  BY <1>1, <1>2, <1>5, <1>6, <1>7, Elsewhere DEF TabOK

\* What was there is kept, and what the tab has written outranks it.
LEMMA HydrateInv ==
  ASSUME IInv, NEW t \in Tabs, Hydrate(t)
  PROVE  IInv'
<1> USE DEF Hydrate
<1>1. /\ phase[t] \in {"hydrating", "promoting"} /\ phase'[t] = "persistent"
      /\ volume'[t] = Hydrated(volume[t], durable) /\ session'[t] = None
      /\ owner = t
  BY OfTab DEF IInv, TypeOK, PhaseOK
<1>2. flush[t] = Idle /\ flush'[t] \in Flushes
      /\ flush'[t].batch = None /\ ~flush'[t].committed
  <2>1. flush[t] = Idle
    BY <1>1, OfTab DEF PhaseOK
  <2>2. flush'[t] = Idle \/ flush'[t] = [Idle EXCEPT !.on = TRUE]
    BY <2>1 DEF IInv, TypeOK
  <2>3. QED
    BY <2>1, <2>2, IdleType, Looping DEF Idle
<1>3. Own(volume[t]) /\ durable \in Contents
  BY <1>1, OfTab DEF OwnOnly, IInv, TypeOK
<1>4. /\ volume'[t] \in Volumes /\ VolumeOK(volume'[t])
      /\ volume'[t].pending = volume[t].pending
      /\ volume'[t].mirroring = volume[t].mirroring
      /\ volume[t].mirroring => \A k \in Keys :
             volume[t].pending[k].seq = 0 => volume'[t].entries[k] = durable[k]
  BY <1>1, <1>3, OfTab, HydratedIsOK
<1>5. flush' = [flush EXCEPT ![t] = flush'[t]]
  BY DEF IInv, TypeOK
<1>6. TypeOK'
  BY <1>2, <1>4, <1>5 DEF IInv, TypeOK, Phases
<1>7. OnlyOf(t)
  BY <1>5 DEF OnlyOf, IInv, TypeOK
<1>8. PhaseOK(t)' /\ OwnOnly(t)'
  BY <1>1, OfTab DEF PhaseOK, OwnOnly, Running
<1>9. Agrees(t)'
  BY <1>1, <1>4 DEF Agrees, Mirrored
<1>10. CopyOK(t)'
  BY <1>2 DEF CopyOK
<1>11. VolumeOK(volume[t])'
  BY <1>4 DEF VolumeOK
<1>12. QED
  BY <1>6, <1>7, <1>8, <1>9, <1>10, <1>11, Elsewhere DEF TabOK

\* A tab that could not read the store is attached to nothing.
LEMMA FailHydrateInv ==
  ASSUME IInv, NEW t \in Tabs, FailHydrate(t)
  PROVE  IInv'
<1> USE DEF FailHydrate
<1>1. TypeOK'
  BY DEF IInv, TypeOK, Phases
<1>2. OnlyOf(t)
  BY DEF OnlyOf, IInv, TypeOK
<1>3. /\ phase'[t] = "stranded" /\ flush'[t] = Idle
      /\ session'[t] = None /\ saving'[t] = NotSaving
  BY OfTab DEF IInv, TypeOK, PhaseOK
<1>4. PhaseOK(t)' /\ OwnOnly(t)' /\ Agrees(t)'
  BY <1>3 DEF PhaseOK, OwnOnly, Agrees, Mirrored
<1>5. CopyOK(t)'
  BY <1>3 DEF CopyOK, Idle
<1>6. VolumeOK(volume[t])'
  BY OfTab DEF VolumeOK
<1>7. QED
  BY <1>1, <1>2, <1>4, <1>5, <1>6, Elsewhere DEF TabOK

\* A volume whose queue is given up is not mirrored.
LEMMA OverCapInv ==
  ASSUME IInv, NEW t \in Tabs, OverCap(t)
  PROVE  IInv'
<1> USE DEF OverCap
<1>1. /\ volume'[t] = Unmirrored(volume[t]) /\ volume'[t] \in Volumes
      /\ VolumeOK(volume[t])' /\ ~volume'[t].mirroring /\ Own(volume[t])'
  BY OfTab, UnmirroredIsOK DEF IInv, TypeOK, VolumeOK, Own
<1>2. TypeOK'
  BY <1>1 DEF IInv, TypeOK, Phases
<1>3. OnlyOf(t)
  BY DEF OnlyOf, IInv, TypeOK
<1>4. /\ \/ phase'[t] = "capped"
         \/ phase'[t] = "promoting" /\ owner = t
      /\ flush'[t] = Idle /\ session'[t] = None /\ saving'[t] = NotSaving
  BY OfTab DEF IInv, TypeOK, PhaseOK
<1>5. PhaseOK(t)' /\ OwnOnly(t)' /\ Agrees(t)'
  BY <1>1, <1>4 DEF PhaseOK, OwnOnly, Agrees, Mirrored
<1>6. CopyOK(t)'
  BY <1>4 DEF CopyOK, Idle
<1>7. QED
  BY <1>1, <1>2, <1>3, <1>5, <1>6, Elsewhere DEF TabOK

\* The store changes only under the tab that owns it.
LEMMA CloseInv ==
  ASSUME IInv, NEW t \in Tabs, Close(t)
  PROVE  IInv'
<1> USE DEF Close
<1>1. /\ phase'[t] = "closed" /\ volume'[t] = NewVolume
      /\ saving'[t] = NotSaving /\ session'[t] = None /\ flush'[t] = Idle
  BY DEF IInv, TypeOK
<1>2. durable' = durable \/ (flush[t].batch # None /\ durable' = flush[t].batch)
  OBVIOUS
<1>3. durable' # durable => owner = t
  BY <1>2, OfTab DEF PhaseOK, Idle
<1>4. TypeOK'
  <2>1. durable' \in Contents
    BY <1>2, OfTab DEF Flushes, IInv, TypeOK
  <2>2. /\ phase' \in [Tabs -> Phases] /\ volume' \in [Tabs -> Volumes]
        /\ saving' \in [Tabs -> Savings]
        /\ session' \in [Tabs -> Sessions \cup {None}]
        /\ flush' \in [Tabs -> Flushes] /\ owner' \in Tabs \cup {None}
    BY NewIsOK, IdleType DEF IInv, TypeOK, Phases, Savings
  <2>3. QED
    BY <2>1, <2>2 DEF TypeOK
<1>5. OnlyOf(t)
  BY <1>3, VolumeAssumption DEF OnlyOf, IInv, TypeOK
<1>6. VolumeOK(volume[t])' /\ OwnOnly(t)'
  BY <1>1, NewIsOK DEF VolumeOK, OwnOnly, Own
<1>7. PhaseOK(t)' /\ Agrees(t)'
  BY <1>1 DEF PhaseOK, Agrees, Mirrored
<1>8. CopyOK(t)'
  BY <1>1 DEF CopyOK, Idle
<1>9. QED
  BY <1>4, <1>5, <1>6, <1>7, <1>8, Elsewhere DEF TabOK

----------------------------------------------------------------------------
(* The loop of schedule_flush.                                             *)

\* Only the owner has a batch.
LEMMA Flushing ==
  ASSUME IInv, NEW t \in Tabs, flush[t].on \/ flush[t].batch # None
  PROVE  phase[t] = "persistent" /\ owner = t
BY OfTab DEF PhaseOK, Idle

\* A step of the loop that leaves memory and store alone.
LEMMA Flushed ==
  ASSUME IInv, NEW t \in Tabs, phase[t] = "persistent",
         flush' = [flush EXCEPT ![t] = flush'[t]], flush'[t] \in Flushes,
         CopyOK(t)',
         UNCHANGED <<phase, volume, saving, session, owner, durable>>
  PROVE  IInv'
<1>1. TypeOK'
  BY DEF IInv, TypeOK
<1>2. OnlyOf(t)
  BY DEF OnlyOf, IInv, TypeOK
<1>3. PhaseOK(t)' /\ VolumeOK(volume[t])' /\ OwnOnly(t)' /\ Agrees(t)'
  BY OfTab DEF PhaseOK, VolumeOK, OwnOnly, Own, Agrees, Mirrored, Running
<1>4. QED
  BY <1>1, <1>2, <1>3, Elsewhere DEF TabOK

\* The owner's memory is the store with what is pending over it.
LEMMA Whole ==
  ASSUME IInv, NEW t \in Tabs, Mirrored(t)
  PROVE  /\ Overlaid(durable, volume[t].pending) \in Contents
         /\ volume[t].entries = Overlaid(durable, volume[t].pending)
<1> DEFINE v == volume[t]
           b == Overlaid(durable, v.pending)
<1>1. v \in Volumes /\ VolumeOK(v) /\ durable \in Contents
  BY OfTab DEF IInv, TypeOK
<1>2. b \in Contents
  BY <1>1 DEF Overlaid, Contents, Volumes
<1>3. \A k \in Keys : v.pending[k].seq = 0 => v.entries[k] = durable[k]
  BY OfTab DEF Agrees
<1>4. \A k \in Keys : v.entries[k] = b[k]
  BY <1>1, <1>3 DEF Overlaid, VolumeOK
<1>5. v.entries \in Contents
  BY <1>1 DEF Volumes
<1>6. QED
  BY <1>2, <1>4, <1>5 DEF Contents

\* A batch is the whole memory of its tab.
LEMMA TakenWhole ==
  ASSUME IInv, NEW t \in Tabs, TakeBatch(t)
  PROVE  /\ Mirrored(t) /\ volume[t].entries \in Contents
         /\ Overlaid(durable, volume[t].pending) = volume[t].entries
<1>1. phase[t] = "persistent"
  BY Flushing DEF TakeBatch
<1>2. volume[t].mirroring
  BY OfTab DEF TakeBatch, PendingKeys, VolumeOK
<1>3. QED
  BY <1>1, <1>2, Whole DEF Mirrored

\* The batch runs to the last number given, and is the memory.
LEMMA TakeBatchInv ==
  ASSUME IInv, NEW t \in Tabs, TakeBatch(t)
  PROVE  IInv'
<1> DEFINE v == volume[t]
           b == Overlaid(durable, v.pending)
           Last(n) == /\ \E k \in Keys : v.pending[k].seq = n
                      /\ \A k \in Keys : v.pending[k].seq <= n
           n0 == CHOOSE n \in 0..v.seq : Last(n)
<1>1. /\ phase[t] = "persistent"
      /\ v \in Volumes /\ VolumeOK(v) /\ durable \in Contents
  BY Flushing, OfTab DEF TakeBatch, IInv, TypeOK
<1>2. PICK k0 \in Keys : v.pending[k0].seq # 0
  BY DEF TakeBatch, PendingKeys
<1>3. v.mirroring
  BY <1>1, <1>2 DEF VolumeOK
<1>4. \E n \in 0..v.seq : Last(n)
  <2> DEFINE S == {v.pending[k].seq : k \in Keys}
  <2>1. S \in SUBSET Nat /\ S # {} /\ v.seq \in Nat /\ \A s \in S : s <= v.seq
    BY <1>1, <1>2 DEF Volumes, VolumeOK
  <2>2. \E m \in S : \A s \in S : s <= m
    BY <2>1, Greatest
  <2>3. PICK m \in S : \A s \in S : s <= m
    BY <2>2
  <2>4. m \in 0..v.seq /\ \E k \in Keys : v.pending[k].seq = m
    BY <2>1
  <2>5. \A k \in Keys : v.pending[k].seq <= m
    BY <2>3
  <2>6. QED
    BY <2>4, <2>5
<1>5. n0 \in 0..v.seq /\ Last(n0)
  BY <1>4
<1> HIDE DEF n0
<1>6. b \in Contents /\ \A k \in Keys : b[k] = v.entries[k]
  BY TakenWhole
<1> HIDE DEF b
<1>7. flush'[t] = [flush[t] EXCEPT !.batch = b, !.through = n0]
      /\ flush' = [flush EXCEPT ![t] = flush'[t]]
  <2>1. flush' = [flush EXCEPT ![t].batch = b, ![t].through = n0]
    BY DEF TakeBatch, n0, b
  <2>2. QED
    BY <2>1 DEF IInv, TypeOK
<1>8. /\ flush'[t] \in Flushes /\ flush'[t].batch = b /\ flush'[t].through = n0
      /\ flush'[t].committed = flush[t].committed /\ flush'[t].on = flush[t].on
  <2>1. n0 \in Nat
    BY <1>1, <1>5 DEF Volumes
  <2>2. QED
    BY <1>6, <1>7, <2>1, OfTab DEF Flushes
<1>9. CopyOK(t)'
  <2>1. ~flush[t].committed
    BY OfTab DEF CopyOK, TakeBatch
  <2>2. n0 <= v.seq
    BY <1>1, <1>5 DEF Volumes
  <2>3. QED
    BY <1>3, <1>6, <1>8, <2>1, <2>2 DEF CopyOK, TakeBatch
<1>10. QED
  BY <1>1, <1>7, <1>8, <1>9, Flushed DEF TakeBatch

\* The loop ends with no batch.
LEMMA EndFlushInv ==
  ASSUME IInv, NEW t \in Tabs, EndFlush(t)
  PROVE  IInv'
<1>1. flush'[t] = Idle /\ flush' = [flush EXCEPT ![t] = flush'[t]]
  BY DEF EndFlush, IInv, TypeOK
<1>2. CopyOK(t)'
  BY <1>1 DEF CopyOK, Idle
<1>3. phase[t] = "persistent"
  BY Flushing DEF EndFlush
<1>4. QED
  BY <1>1, <1>2, <1>3, Flushed, IdleType DEF EndFlush

\* What an aborted batch held is still pending.
LEMMA AbortInv ==
  ASSUME IInv, NEW t \in Tabs, Abort(t)
  PROVE  IInv'
<1>1. flush'[t] = [Idle EXCEPT !.failed = TRUE]
      /\ flush' = [flush EXCEPT ![t] = flush'[t]]
  BY DEF Abort, IInv, TypeOK
<1>2. \A i \in Flushes : /\ [i EXCEPT !.failed = TRUE] \in Flushes
                         /\ [i EXCEPT !.failed = TRUE].batch = i.batch
                         /\ [i EXCEPT !.failed = TRUE].committed = i.committed
  BY DEF Flushes
<1>3. flush'[t] \in Flushes /\ flush'[t].batch = None /\ ~flush'[t].committed
  BY <1>1, <1>2, IdleType DEF Idle
<1>4. CopyOK(t)'
  BY <1>3 DEF CopyOK
<1>5. phase[t] = "persistent"
  BY Flushing DEF Abort
<1>6. QED
  BY <1>1, <1>3, <1>4, <1>5, Flushed DEF Abort

\* What was not written since the batch was taken is now durable.
LEMMA CommitInv ==
  ASSUME IInv, NEW t \in Tabs, Commit(t)
  PROVE  IInv'
<1> USE DEF Commit
<1>1. phase[t] = "persistent" /\ owner = t
  BY Flushing
<1>2. flush'[t] = [flush[t] EXCEPT !.committed = TRUE]
      /\ flush' = [flush EXCEPT ![t] = flush'[t]]
  BY DEF IInv, TypeOK
<1>3. /\ flush'[t] \in Flushes /\ flush'[t].batch = flush[t].batch
      /\ flush'[t].through = flush[t].through
      /\ flush[t].batch \in Contents
  <2>1. flush[t] \in Flushes /\ flush[t].batch # None
    BY OfTab
  <2>2. \A i \in Flushes : /\ [i EXCEPT !.committed = TRUE] \in Flushes
                           /\ [i EXCEPT !.committed = TRUE].batch = i.batch
                           /\ [i EXCEPT !.committed = TRUE].through = i.through
                           /\ i.batch # None => i.batch \in Contents
    BY DEF Flushes
  <2>3. QED
    BY <1>2, <2>1, <2>2
<1>4. TypeOK'
  BY <1>2, <1>3 DEF IInv, TypeOK
<1>5. OnlyOf(t)
  BY <1>1, <1>2 DEF OnlyOf, IInv, TypeOK
<1>6. PhaseOK(t)' /\ VolumeOK(volume[t])' /\ OwnOnly(t)'
  BY <1>1, OfTab DEF PhaseOK, VolumeOK, OwnOnly, Own, Running
<1>7. CopyOK(t)'
  BY <1>3, OfTab DEF CopyOK
<1>8. Agrees(t)'
  <2>1. ASSUME NEW k \in Keys, volume[t].pending[k].seq = 0
        PROVE  volume[t].entries[k] = durable'[k]
    <3>1. 0 <= flush[t].through
      BY OfTab DEF Flushes
    <3>2. QED
      BY <2>1, <3>1, OfTab DEF CopyOK
  <2>2. QED
    BY <2>1 DEF Agrees
<1>9. QED
  BY <1>4, <1>5, <1>6, <1>7, <1>8, Elsewhere DEF TabOK

\* What an acknowledgement drops is in the store.
LEMMA AcknowledgeInv ==
  ASSUME IInv, NEW t \in Tabs, Acknowledge(t)
  PROVE  IInv'
<1> USE DEF Acknowledge
<1> DEFINE v == volume[t]
           n == flush[t].through
<1>1. /\ flush[t].batch # None /\ durable = flush[t].batch
      /\ n \in Nat /\ v \in Volumes /\ VolumeOK(v)
  BY OfTab DEF CopyOK, Flushes
<1>2. phase[t] = "persistent" /\ owner = t
  BY <1>1, Flushing
<1>3. volume'[t] = Acknowledged(v, n) /\ flush'[t] = [Idle EXCEPT !.on = TRUE]
  BY DEF IInv, TypeOK
<1>4. /\ volume'[t] \in Volumes /\ VolumeOK(volume[t])'
      /\ volume'[t].entries = v.entries /\ volume'[t].mirroring = v.mirroring
      /\ \A k \in Keys : v.pending[k].seq > n =>
             volume'[t].pending[k] = v.pending[k]
  BY <1>1, <1>3, AcknowledgedIsOK DEF VolumeOK
<1>5. TypeOK'
  BY <1>3, <1>4, Looping DEF IInv, TypeOK
<1>6. OnlyOf(t)
  BY DEF OnlyOf, IInv, TypeOK
<1>7. PhaseOK(t)' /\ OwnOnly(t)'
  BY <1>2, OfTab DEF PhaseOK, OwnOnly, Running
<1>8. CopyOK(t)'
  BY <1>3, Looping DEF CopyOK
<1>9. Agrees(t)'
  <2>1. ASSUME NEW k \in Keys, volume'[t].pending[k].seq = 0
        PROVE  volume'[t].entries[k] = durable[k]
    <3>1. v.pending[k].seq \in Nat
      BY <1>1 DEF Volumes
    <3>2. v.pending[k].seq <= n
      BY <1>1, <1>4, <2>1, <3>1
    <3>3. QED
      BY <1>1, <1>4, <3>2, OfTab DEF CopyOK
  <2>2. QED
    BY <2>1 DEF Agrees
<1>10. QED
  BY <1>4, <1>5, <1>6, <1>7, <1>8, <1>9, Elsewhere DEF TabOK

----------------------------------------------------------------------------
(***************************************************************************)
(* Types, and memory                                                       *)
(***************************************************************************)

\* No tab is open.
LEMMA InitInv == Init => IInv
<1> SUFFICES ASSUME Init PROVE IInv
  OBVIOUS
<1>1. TypeOK
  BY NewIsOK, IdleType DEF Init, TypeOK, Phases, Savings, Contents
<1>2. ASSUME NEW t \in Tabs PROVE TabOK(t)
  <2>1. /\ phase[t] = "closed" /\ volume[t] = NewVolume /\ saving[t] = NotSaving
        /\ session[t] = None /\ flush[t] = Idle
    BY DEF Init
  <2>2. PhaseOK(t) /\ OwnOnly(t) /\ Agrees(t) /\ VolumeOK(volume[t])
    BY <2>1, NewIsOK DEF PhaseOK, OwnOnly, Agrees, Mirrored
  <2>3. CopyOK(t)
    BY <2>1 DEF CopyOK, Idle
  <2>4. QED
    BY <2>2, <2>3 DEF TabOK
<1>3. QED
  BY <1>1, <1>2 DEF IInv

\* Every step keeps the invariant, one lemma per action.
LEMMA StepInv == IInv /\ [Next]_vars => IInv'
<1> SUFFICES ASSUME IInv, [Next]_vars PROVE IInv'
  OBVIOUS
<1>1. CASE UNCHANGED vars
  BY <1>1 DEF vars, IInv, TypeOK, TabOK, PhaseOK, VolumeOK, OwnOnly, Own,
              Agrees, Mirrored, CopyOK, Running
<1>2. ASSUME NEW t \in Tabs,
             \/ OpenAsOwner(t) \/ OpenAndWait(t) \/ OpenInMemory(t)
             \/ GrantLock(t) \/ Hydrate(t) \/ FailHydrate(t) \/ OverCap(t)
             \/ Close(t)
      PROVE  IInv'
  BY <1>2, OpenAsOwnerInv, OpenAndWaitInv, OpenInMemoryInv, GrantLockInv,
     HydrateInv, FailHydrateInv, OverCapInv, CloseInv
<1>3. ASSUME NEW t \in Tabs,
             \/ BeginSave(t) \/ WriteManifest(t) \/ SwapHead(t)
             \/ BeginSegment(t) \/ AppendFrame(t) \/ RemoveSegment(t)
             \/ OtherCommand(t)
      PROVE  IInv'
  BY <1>3, BeginSaveInv, WriteManifestInv, SwapHeadInv, BeginSegmentInv,
     AppendFrameInv, RemoveSegmentInv, OtherCommandInv
<1>4. ASSUME NEW t \in Tabs,
             \/ TakeBatch(t) \/ EndFlush(t) \/ Commit(t) \/ Abort(t)
             \/ Acknowledge(t)
      PROVE  IInv'
  BY <1>4, TakeBatchInv, EndFlushInv, CommitInv, AbortInv, AcknowledgeInv
<1>5. QED
  BY <1>1, <1>2, <1>3, <1>4 DEF Next

\* The inductive invariant holds throughout.
LEMMA InvAlways == Spec => []IInv
BY InitInv, StepInv, PTL DEF Spec

\* Every variable keeps its type: a batch is always a whole store, and never a
\* queue of part of one (mirrored.rs, VolumeState).
THEOREM TypeCorrect == Spec => []TypeOK
<1>1. IInv => TypeOK
  BY DEF IInv
<1>2. QED
  BY <1>1, InvAlways, PTL

\* Whatever is flushed, acknowledged, adopted or written, in whatever order:
\* what the owning tab reads is what is durable with what is pending over it,
\* and nothing pending is counted durable (mirrored.rs acknowledge, hydrate).
THEOREM MemoryAlwaysDurablePlusPending == Spec => []MemoryIsDurablePlusPending
<1>1. IInv => MemoryIsDurablePlusPending
  <2> SUFFICES ASSUME IInv, NEW t \in Tabs
               PROVE  /\ Mirrored(t) => volume[t].entries =
                                            Overlaid(durable, volume[t].pending)
                      /\ \A k \in PendingKeys(volume[t]) :
                             volume[t].durableSeq < volume[t].pending[k].seq
    BY DEF MemoryIsDurablePlusPending
  <2>1. \A k \in PendingKeys(volume[t]) :
            volume[t].durableSeq < volume[t].pending[k].seq
    BY OfTab DEF PendingKeys, VolumeOK
  <2>2. QED
    BY <2>1, Whole
<1>2. QED
  BY <1>1, InvAlways, PTL

----------------------------------------------------------------------------
(***************************************************************************)
(* The head                                                                *)
(***************************************************************************)

\* A store whose head and manifests lead to what is there.
Sound(c) ==
    /\ c[Head] \in Manifests \cup {None}
    /\ c[Head] # None => c[c[Head]] # None
    /\ \A m \in Manifests : c[m] # None =>
           /\ c[SnapshotOf[m]] # None
           /\ ParentOf[m] # None => c[ParentOf[m]] # None

\* A save has written what its next step will name.
SaveOK(t) == saving[t] # NotSaving =>
    /\ volume[t].entries[SnapshotOf[saving[t].manifest]] # None
    /\ ParentOf[saving[t].manifest] # None =>
           volume[t].entries[ParentOf[saving[t].manifest]] # None
    /\ saving[t].step = "head" => volume[t].entries[saving[t].manifest] # None

TabSound(t) ==
    /\ Sound(volume[t].entries)
    /\ flush[t].batch # None => Sound(flush[t].batch)
    /\ SaveOK(t)

SInv == Sound(durable) /\ \A t \in Tabs : TabSound(t)

\* Where the objects and the manifests are, for the leaves below.
LEMMA Names ==
  /\ \A m \in Manifests : /\ m \in Objects /\ m \in Keys /\ m # Head /\ m # None
                          /\ SnapshotOf[m] \in Snapshots
                          /\ ParentOf[m] \in Manifests \cup {None}
  /\ \A s \in Snapshots : /\ s \in Objects /\ s \in Keys /\ s # Head
                          /\ s \notin Manifests
  /\ \A f \in Frames : f \notin Objects /\ f # Head
  /\ Head \in Keys
BY VolumeAssumption DEF Objects, Keys

\* A store with the same objects and the same head is as sound.
LEMMA SameObjects ==
  ASSUME NEW c, Sound(c), NEW d, d[Head] = c[Head],
         \A o \in Objects : (d[o] = None) <=> (c[o] = None)
  PROVE  Sound(d)
<1>1. d[Head] \in Manifests \cup {None} /\ (d[Head] # None => d[d[Head]] # None)
  BY Names DEF Sound
<1>2. ASSUME NEW m \in Manifests, d[m] # None
      PROVE  d[SnapshotOf[m]] # None /\ (ParentOf[m] # None => d[ParentOf[m]] # None)
  BY <1>2, Names DEF Sound
<1>3. QED
  BY <1>1, <1>2 DEF Sound

\* What a step of t must show of the stores is of t and the durable one.
LEMMA SoundElsewhere ==
  ASSUME IInv, SInv, NEW t \in Tabs,
         volume' = [volume EXCEPT ![t] = volume'[t]],
         saving' = [saving EXCEPT ![t] = saving'[t]],
         flush' = [flush EXCEPT ![t] = flush'[t]],
         Sound(durable'), Sound(volume'[t].entries),
         flush'[t].batch # None => Sound(flush'[t].batch), SaveOK(t)'
  PROVE  SInv'
<1>1. ASSUME NEW u \in Tabs, u # t PROVE TabSound(u)'
  <2>1. volume'[u] = volume[u] /\ saving'[u] = saving[u] /\ flush'[u] = flush[u]
    BY <1>1 DEF IInv, TypeOK
  <2>2. QED
    BY <2>1 DEF SInv, TabSound, SaveOK, Sound
<1>2. TabSound(t)'
  BY DEF TabSound, Sound
<1>3. QED
  BY <1>1, <1>2 DEF SInv, Sound

\* A step that neither takes a batch nor writes the store, and loses no object.
LEMMA SoundStep ==
  ASSUME IInv, SInv, NEW t \in Tabs,
         volume' = [volume EXCEPT ![t] = volume'[t]],
         saving' = [saving EXCEPT ![t] = saving'[t]],
         flush' = [flush EXCEPT ![t] = flush'[t]],
         flush'[t].batch \in {None, flush[t].batch},
         durable' = durable, Sound(volume'[t].entries), SaveOK(t)'
  PROVE  SInv'
<1>1. flush'[t].batch # None => Sound(flush'[t].batch)
  BY DEF SInv, TabSound
<1>2. QED
  BY <1>1, SoundElsewhere DEF SInv

\* Scheduling the loop drops no batch that is not already gone.
LEMMA ScheduledBatch ==
  ASSUME IInv, NEW t \in Tabs, NEW v
  PROVE  /\ Scheduled(t, v) = [flush EXCEPT ![t] = Scheduled(t, v)[t]]
         /\ Scheduled(t, v)[t].batch \in {None, flush[t].batch}
<1>1. flush \in [Tabs -> Flushes]
  BY DEF IInv, TypeOK
<1>2. CASE Scheduled(t, v) = flush
  BY <1>1, <1>2
<1>3. CASE Scheduled(t, v) = [flush EXCEPT ![t] = [Idle EXCEPT !.on = TRUE]]
  BY <1>1, <1>3, Looping
<1>4. QED
  BY <1>2, <1>3 DEF Scheduled

\* A step that changes nothing a save could name.
LEMMA SoundStill ==
  ASSUME IInv, SInv, NEW t \in Tabs, volume' = volume, saving' = saving,
         flush' = [flush EXCEPT ![t] = flush'[t]],
         flush'[t].batch \in {None, flush[t].batch}, durable' = durable
  PROVE  SInv'
<1>1. Sound(volume'[t].entries) /\ SaveOK(t)'
  BY DEF SInv, TabSound, SaveOK
<1>2. volume' = [volume EXCEPT ![t] = volume'[t]]
      /\ saving' = [saving EXCEPT ![t] = saving'[t]]
  BY DEF IInv, TypeOK
<1>3. QED
  BY <1>1, <1>2, SoundStep

\* A tab with no save under way.
LEMMA SoundIdle ==
  ASSUME IInv, SInv, NEW t \in Tabs,
         volume' = [volume EXCEPT ![t] = volume'[t]],
         saving' = saving, saving[t] = NotSaving,
         flush' = [flush EXCEPT ![t] = flush'[t]],
         flush'[t].batch \in {None, flush[t].batch},
         durable' = durable, Sound(volume'[t].entries)
  PROVE  SInv'
<1>1. SaveOK(t)' /\ saving' = [saving EXCEPT ![t] = saving'[t]]
  BY DEF SaveOK, IInv, TypeOK
<1>2. QED
  BY <1>1, SoundStep

\* The snapshot of a save is written under the head it goes on from.
LEMMA BeginSaveSound ==
  ASSUME IInv, SInv, NEW t \in Tabs, BeginSave(t)
  PROVE  SInv'
<1> DEFINE c == volume[t].entries
           d == volume'[t].entries
<1>1. PICK m \in Manifests :
          /\ ParentOf[m] = c[Head]
          /\ volume' = [volume EXCEPT ![t] = PutIfAbsent(@, SnapshotOf[m])]
          /\ saving' = [saving EXCEPT ![t] =
                 [step |-> "manifest", manifest |-> m, expected |-> ParentOf[m]]]
  BY DEF BeginSave
<1>2. /\ volume'[t] = PutIfAbsent(volume[t], SnapshotOf[m])
      /\ saving'[t] = [step |-> "manifest", manifest |-> m,
                       expected |-> ParentOf[m]]
      /\ volume' = [volume EXCEPT ![t] = volume'[t]]
      /\ saving' = [saving EXCEPT ![t] = saving'[t]]
      /\ flush' = [flush EXCEPT ![t] = flush'[t]] /\ flush' = flush
  BY <1>1 DEF BeginSave, IInv, TypeOK
<1>3. \A j \in Keys : d[j] = IF j = SnapshotOf[m] /\ c[j] = None
                             THEN j ELSE c[j]
  BY <1>2, Names, OfTab, PutIfAbsentGrows
<1>4. SnapshotOf[m] # None
  BY Names, NotNone DEF Values, Objects
<1>5. Sound(c)
  BY DEF SInv, TabSound
<1>6. \A j \in Keys : c[j] # None => d[j] # None
  BY <1>3
<1>7. Sound(d)
  <2>1. d[Head] = c[Head] /\ \A n \in Manifests : d[n] = c[n]
    BY <1>3, Names
  <2>2. QED
    BY <1>5, <1>6, <2>1, Names DEF Sound
<1>8. SaveOK(t)'
  <2>1. d[SnapshotOf[m]] # None
    BY <1>3, <1>4, Names
  <2>2. ParentOf[m] # None => d[ParentOf[m]] # None
    BY <1>1, <1>5, <1>6, Names DEF Sound
  <2>3. QED
    BY <1>2, <2>1, <2>2 DEF SaveOK
<1>9. QED
  BY <1>2, <1>7, <1>8, SoundStep DEF BeginSave

\* The manifest is written after the snapshot and the parent it names.
LEMMA WriteManifestSound ==
  ASSUME IInv, SInv, NEW t \in Tabs, WriteManifest(t)
  PROVE  SInv'
<1> DEFINE c == volume[t].entries
           d == volume'[t].entries
           m == saving[t].manifest
<1>1. /\ volume'[t] = PutIfAbsent(volume[t], m)
      /\ saving'[t] = [saving[t] EXCEPT !.step = "head"]
      /\ volume' = [volume EXCEPT ![t] = volume'[t]]
      /\ saving' = [saving EXCEPT ![t] = saving'[t]]
      /\ flush' = [flush EXCEPT ![t] = flush'[t]] /\ flush' = flush
  BY DEF WriteManifest, IInv, TypeOK
<1>2. m \in Manifests /\ saving[t] # NotSaving
  BY SavingRuns DEF WriteManifest
<1>3. \A j \in Keys : d[j] = IF j = m /\ c[j] = None THEN j ELSE c[j]
  BY <1>1, <1>2, Names, OfTab, PutIfAbsentGrows
<1>4. /\ Sound(c) /\ c[SnapshotOf[m]] # None
      /\ ParentOf[m] # None => c[ParentOf[m]] # None
  BY <1>2 DEF SInv, TabSound, SaveOK
<1>5. \A j \in Keys : c[j] # None => d[j] # None
  BY <1>3
<1>6. d[SnapshotOf[m]] # None /\ d[m] # None
      /\ (ParentOf[m] # None => d[ParentOf[m]] # None)
  BY <1>2, <1>3, <1>4, <1>5, Names
<1>7. Sound(d)
  <2>1. d[Head] = c[Head] /\ \A n \in Manifests : n # m => d[n] = c[n]
    BY <1>2, <1>3, Names
  <2>2. d[Head] \in Manifests \cup {None} /\ (d[Head] # None => d[d[Head]] # None)
    BY <1>4, <1>5, <2>1, Names DEF Sound
  <2>3. ASSUME NEW n \in Manifests, d[n] # None
        PROVE  d[SnapshotOf[n]] # None
               /\ (ParentOf[n] # None => d[ParentOf[n]] # None)
    BY <1>4, <1>5, <1>6, <2>1, <2>3, Names DEF Sound
  <2>4. QED
    BY <2>2, <2>3 DEF Sound
<1>8. SaveOK(t)'
  <2>1. saving'[t].manifest = m
    BY <1>1, <1>2, OfTab DEF Savings
  <2>2. QED
    BY <1>6, <2>1 DEF SaveOK
<1>9. QED
  BY <1>1, <1>7, <1>8, SoundStep DEF WriteManifest

\* The head is swapped for a manifest that is there.
LEMMA SwapHeadSound ==
  ASSUME IInv, SInv, NEW t \in Tabs, SwapHead(t)
  PROVE  SInv'
<1> DEFINE c == volume[t].entries
           d == volume'[t].entries
           m == saving[t].manifest
<1>1. /\ volume' = [volume EXCEPT ![t] = volume'[t]]
      /\ \/ volume'[t] = volume[t]
         \/ volume'[t] = Put(volume[t], Head, m)
      /\ flush' = Scheduled(t, volume'[t])
      /\ saving'[t] = NotSaving
      /\ saving' = [saving EXCEPT ![t] = saving'[t]]
  BY DEF SwapHead, EndCommand, IInv, TypeOK
<1>2. m \in Manifests /\ saving[t] # NotSaving
  BY SavingRuns DEF SwapHead
<1>3. Sound(c) /\ c[m] # None
  BY <1>2 DEF SInv, TabSound, SaveOK, SwapHead
<1>4. Sound(d)
  <2>1. CASE volume'[t] = volume[t]
    BY <1>3, <2>1
  <2>2. CASE volume'[t] = Put(volume[t], Head, m)
    <3>1. m \in Values \cup {None} /\ Head \in Keys
      BY <1>2, NotNone
    <3>2. \A j \in Keys : d[j] = IF j = Head THEN m ELSE c[j]
      BY <2>2, <3>1, OfTab, PutGrows
    <3>3. d[Head] = m /\ (\A n \in Manifests : d[n] = c[n])
          /\ \A n \in Snapshots : d[n] = c[n]
      BY <3>2, Names
    <3>4. QED
      BY <1>2, <1>3, <3>3, Names DEF Sound
  <2>3. QED
    BY <1>1, <2>1, <2>2
<1>5. SaveOK(t)'
  BY <1>1 DEF SaveOK
<1>6. flush' = [flush EXCEPT ![t] = flush'[t]]
      /\ flush'[t].batch \in {None, flush[t].batch}
  BY <1>1, ScheduledBatch
<1>7. QED
  BY <1>1, <1>4, <1>5, <1>6, SoundStep DEF SwapHead

\* A recovery segment is no object.
LEMMA FramesSound ==
  ASSUME IInv, SInv, NEW t \in Tabs,
         volume' = [volume EXCEPT ![t] = volume'[t]],
         \A j \in Keys \ Frames :
             volume'[t].entries[j] = volume[t].entries[j],
         flush' = Scheduled(t, volume'[t]),
         saving' = saving, saving[t] = NotSaving, durable' = durable
  PROVE  SInv'
<1>1. Sound(volume[t].entries)
  BY DEF SInv, TabSound
<1>2. Head \in Keys \ Frames /\ Objects \subseteq Keys \ Frames
  BY VolumeAssumption DEF Keys
<1>3. Sound(volume'[t].entries)
  BY <1>1, <1>2, SameObjects
<1>4. flush' = [flush EXCEPT ![t] = flush'[t]]
      /\ flush'[t].batch \in {None, flush[t].batch}
  BY ScheduledBatch
<1>5. QED
  BY <1>3, <1>4, SoundIdle

\* The first frame of a segment.
LEMMA BeginSegmentSound ==
  ASSUME IInv, SInv, NEW t \in Tabs, BeginSegment(t)
  PROVE  SInv'
<1>1. PICK s \in Sessions : EndCommand(t, Put(volume[t], <<s, 0>>, <<s, 0>>))
  BY DEF BeginSegment
<1>2. <<s, 0>> \in Frames
  BY VolumeAssumption DEF Frames
<1>3. /\ volume' = [volume EXCEPT ![t] = volume'[t]]
      /\ volume'[t] = Put(volume[t], <<s, 0>>, <<s, 0>>)
      /\ flush' = Scheduled(t, volume'[t])
  BY <1>1 DEF EndCommand, IInv, TypeOK
<1>4. \A j \in Keys \ Frames : volume'[t].entries[j] = volume[t].entries[j]
  BY <1>2, <1>3, OfTab, PutGrows, NotNone
<1>5. QED
  BY <1>3, <1>4, FramesSound DEF BeginSegment

\* A further frame.
LEMMA AppendFrameSound ==
  ASSUME IInv, SInv, NEW t \in Tabs, AppendFrame(t)
  PROVE  SInv'
<1>1. PICK i \in 1..MaxFrame :
          EndCommand(t, Put(volume[t], <<session[t], i>>, <<session[t], i>>))
  BY DEF AppendFrame
<1>2. <<session[t], i>> \in Frames
  BY OfTab, VolumeAssumption DEF AppendFrame, Frames
<1>3. /\ volume' = [volume EXCEPT ![t] = volume'[t]]
      /\ volume'[t] = Put(volume[t], <<session[t], i>>, <<session[t], i>>)
      /\ flush' = Scheduled(t, volume'[t])
  BY <1>1 DEF EndCommand, IInv, TypeOK
<1>4. \A j \in Keys \ Frames : volume'[t].entries[j] = volume[t].entries[j]
  BY <1>2, <1>3, OfTab, PutGrows, NotNone
<1>5. QED
  BY <1>3, <1>4, FramesSound DEF AppendFrame

\* The frames of one segment.
LEMMA RemoveSegmentSound ==
  ASSUME IInv, SInv, NEW t \in Tabs, RemoveSegment(t)
  PROVE  SInv'
<1>1. PICK s \in Sessions : EndCommand(t, DeletePrefix(volume[t], s))
  BY DEF RemoveSegment
<1>2. /\ volume' = [volume EXCEPT ![t] = volume'[t]]
      /\ volume'[t] = DeletePrefix(volume[t], s)
      /\ flush' = Scheduled(t, volume'[t])
  BY <1>1 DEF EndCommand, IInv, TypeOK
<1>3. \A j \in Keys \ Frames : volume'[t].entries[j] = volume[t].entries[j]
  BY <1>2, OfTab, DeletePrefixGrows DEF FramesOf
<1>4. QED
  BY <1>2, <1>3, FramesSound DEF RemoveSegment

\* Nothing written.
LEMMA OtherCommandSound ==
  ASSUME IInv, SInv, NEW t \in Tabs, OtherCommand(t)
  PROVE  SInv'
<1>1. volume' = volume /\ flush' = Scheduled(t, volume'[t])
  BY DEF OtherCommand, EndCommand, IInv, TypeOK
<1>2. volume' = [volume EXCEPT ![t] = volume'[t]]
  BY <1>1 DEF IInv, TypeOK
<1>3. QED
  BY <1>1, <1>2, FramesSound DEF OtherCommand

\* A head and an object are adopted together, or were there already.
LEMMA HydrateSound ==
  ASSUME IInv, SInv, NEW t \in Tabs, Hydrate(t)
  PROVE  SInv'
<1> DEFINE c == volume[t].entries
           d == volume'[t].entries
<1>1. /\ phase[t] \in {"hydrating", "promoting"}
      /\ volume'[t] = Hydrated(volume[t], durable)
      /\ volume' = [volume EXCEPT ![t] = volume'[t]]
      /\ saving' = saving
      /\ saving' = [saving EXCEPT ![t] = saving'[t]]
      /\ durable' = durable
  BY DEF Hydrate, IInv, TypeOK
<1>2. Own(volume[t]) /\ durable \in Contents
  BY <1>1, OfTab DEF OwnOnly, IInv, TypeOK
<1>3. \A j \in Keys : d[j] = IF c[j] = None THEN durable[j] ELSE c[j]
  BY <1>1, <1>2, OfTab, HydratedIsOK
<1>4. Sound(c) /\ Sound(durable) /\ SaveOK(t)
  BY DEF SInv, TabSound
<1>5. \A j \in Keys : /\ c[j] # None => d[j] # None
                      /\ durable[j] # None => d[j] # None
                      /\ d[j] # None => c[j] # None \/ durable[j] # None
                      /\ d[j] \in {c[j], durable[j]}
  BY <1>3
<1>6. Sound(d)
  <2>1. CASE c[Head] # None
    <3>1. d[Head] = c[Head]
      BY <1>3, <2>1, Names
    <3>2. QED
      BY <1>4, <1>5, <3>1, Names DEF Sound
  <2>2. CASE c[Head] = None
    <3>1. d[Head] = durable[Head]
      BY <1>3, <2>2, Names
    <3>2. QED
      BY <1>4, <1>5, <3>1, Names DEF Sound
  <2>3. QED
    BY <2>1, <2>2
<1>7. SaveOK(t)'
  <2>1. SUFFICES ASSUME saving[t] # NotSaving
                 PROVE  SaveOK(t)'
    BY <1>1 DEF SaveOK
  <2>2. saving[t].manifest \in Manifests
    BY <2>1, OfTab DEF Savings
  <2>3. QED
    BY <1>1, <1>4, <1>5, <2>1, <2>2, Names DEF SaveOK
<1>8. flush' = [flush EXCEPT ![t] = flush'[t]]
      /\ flush'[t].batch \in {None, flush[t].batch}
  <2>1. flush[t] = Idle
    BY <1>1, OfTab DEF PhaseOK
  <2>2. flush' = [flush EXCEPT ![t] = flush'[t]]
        /\ (flush'[t] = Idle \/ flush'[t] = [Idle EXCEPT !.on = TRUE])
    BY <2>1 DEF Hydrate, IInv, TypeOK
  <2>3. QED
    BY <2>2, Looping DEF Idle
<1>9. QED
  BY <1>1, <1>6, <1>7, <1>8, SoundStep

\* Opening, waiting, being granted the lock, failing to read.
LEMMA AttachSound ==
  ASSUME IInv, SInv, NEW t \in Tabs,
         OpenAsOwner(t) \/ OpenAndWait(t) \/ GrantLock(t) \/ FailHydrate(t)
  PROVE  SInv'
<1>1. UNCHANGED <<volume, saving, flush, durable>>
  BY DEF OpenAsOwner, OpenAndWait, GrantLock, FailHydrate
<1>2. flush' = [flush EXCEPT ![t] = flush'[t]]
  BY <1>1 DEF IInv, TypeOK
<1>3. QED
  BY <1>1, <1>2, SoundStill

\* A volume that is given up keeps what it holds.
LEMMA UnmirrorSound ==
  ASSUME IInv, SInv, NEW t \in Tabs, OpenInMemory(t) \/ OverCap(t)
  PROVE  SInv'
<1>1. /\ volume' = [volume EXCEPT ![t] = volume'[t]]
      /\ volume'[t] = Unmirrored(volume[t])
      /\ flush' = [flush EXCEPT ![t] = flush'[t]]
      /\ UNCHANGED <<saving, flush, durable>>
  BY DEF OpenInMemory, OverCap, IInv, TypeOK
<1>2. saving[t] = NotSaving
  BY OfTab DEF OpenInMemory, OverCap, PhaseOK, Running
<1>3. Sound(volume'[t].entries)
  BY <1>1, OfTab, UnmirroredIsOK DEF SInv, TabSound
<1>4. QED
  BY <1>1, <1>2, <1>3, SoundIdle

\* A page dies: the store is what it was, or the batch, whole.
LEMMA CloseSound ==
  ASSUME IInv, SInv, NEW t \in Tabs, Close(t)
  PROVE  SInv'
<1>1. /\ volume' = [volume EXCEPT ![t] = volume'[t]]
      /\ volume'[t] = NewVolume
      /\ saving' = [saving EXCEPT ![t] = saving'[t]] /\ saving'[t] = NotSaving
      /\ flush' = [flush EXCEPT ![t] = flush'[t]] /\ flush'[t] = Idle
  BY DEF Close, IInv, TypeOK
<1>2. Sound(durable')
  BY DEF Close, SInv, TabSound
<1>3. Sound(volume'[t].entries)
  BY <1>1, Names DEF Sound, NewVolume
<1>4. flush'[t].batch = None /\ SaveOK(t)'
  BY <1>1 DEF Idle, SaveOK
<1>5. QED
  BY <1>1, <1>2, <1>3, <1>4, SoundElsewhere

\* A batch is all of a memory whose head does not dangle.
LEMMA TakeBatchSound ==
  ASSUME IInv, SInv, NEW t \in Tabs, TakeBatch(t)
  PROVE  SInv'
<1> DEFINE n0 == CHOOSE n \in 0..volume[t].seq :
               /\ \E k \in Keys : volume[t].pending[k].seq = n
               /\ \A k \in Keys : volume[t].pending[k].seq <= n
           b == Overlaid(durable, volume[t].pending)
<1>1. flush' = [flush EXCEPT ![t].batch = b, ![t].through = n0]
      /\ UNCHANGED <<volume, saving, durable>>
  BY DEF TakeBatch
<1>2. b = volume[t].entries
  BY TakenWhole
<1> HIDE DEF n0, b
<1>3. flush'[t].batch = volume[t].entries
      /\ flush' = [flush EXCEPT ![t] = flush'[t]]
  BY <1>1, <1>2, OfTab DEF IInv, TypeOK, Flushes
<1>4. Sound(volume[t].entries) /\ Sound(durable) /\ SaveOK(t)
  BY DEF SInv, TabSound
<1>5. volume' = [volume EXCEPT ![t] = volume'[t]]
      /\ saving' = [saving EXCEPT ![t] = saving'[t]]
  BY <1>1 DEF IInv, TypeOK
<1>6. Sound(volume'[t].entries) /\ Sound(durable') /\ SaveOK(t)'
      /\ Sound(flush'[t].batch)
  BY <1>1, <1>3, <1>4 DEF SaveOK
<1>7. QED
  BY <1>3, <1>5, <1>6, SoundElsewhere

\* The batch is gone, and nothing else is different.
LEMMA EndFlushSound ==
  ASSUME IInv, SInv, NEW t \in Tabs, EndFlush(t) \/ Abort(t)
  PROVE  SInv'
<1>1. /\ flush' = [flush EXCEPT ![t] = flush'[t]]
      /\ flush'[t] = Idle \/ flush'[t] = [Idle EXCEPT !.failed = TRUE]
      /\ UNCHANGED <<volume, saving, durable>>
  BY DEF EndFlush, Abort, IInv, TypeOK
<1>2. \A i \in Flushes : [i EXCEPT !.failed = TRUE].batch = i.batch
  BY DEF Flushes
<1>3. flush'[t].batch = None
  BY <1>1, <1>2, IdleType DEF Idle
<1>4. QED
  BY <1>1, <1>3, SoundStill

\* The batch was a sound store, and is now the durable one.
LEMMA CommitSound ==
  ASSUME IInv, SInv, NEW t \in Tabs, Commit(t)
  PROVE  SInv'
<1>1. flush'[t] = [flush[t] EXCEPT !.committed = TRUE]
      /\ flush' = [flush EXCEPT ![t] = flush'[t]]
      /\ UNCHANGED <<volume, saving>> /\ durable' = flush[t].batch
  BY DEF Commit, IInv, TypeOK
<1>2. flush'[t].batch = flush[t].batch
  BY <1>1, OfTab DEF Flushes
<1>3. Sound(flush[t].batch) /\ Sound(volume[t].entries) /\ SaveOK(t)
  BY DEF Commit, SInv, TabSound
<1>4. volume' = [volume EXCEPT ![t] = volume'[t]]
      /\ saving' = [saving EXCEPT ![t] = saving'[t]]
  BY <1>1 DEF IInv, TypeOK
<1>5. Sound(volume'[t].entries) /\ Sound(durable') /\ SaveOK(t)'
      /\ Sound(flush'[t].batch)
  BY <1>1, <1>2, <1>3 DEF SaveOK
<1>6. QED
  BY <1>1, <1>4, <1>5, SoundElsewhere

\* Only the queue is shorter.
LEMMA AcknowledgeSound ==
  ASSUME IInv, SInv, NEW t \in Tabs, Acknowledge(t)
  PROVE  SInv'
<1>1. /\ volume'[t] = Acknowledged(volume[t], flush[t].through)
      /\ volume' = [volume EXCEPT ![t] = volume'[t]]
      /\ flush'[t] = [Idle EXCEPT !.on = TRUE]
      /\ flush' = [flush EXCEPT ![t] = flush'[t]]
      /\ UNCHANGED <<saving, durable>>
  BY DEF Acknowledge, IInv, TypeOK
<1>2. flush[t].through \in Nat
  BY OfTab DEF Flushes
<1>3. volume'[t].entries = volume[t].entries
  BY <1>1, <1>2, OfTab, AcknowledgedIsOK
<1>4. saving' = [saving EXCEPT ![t] = saving'[t]]
  BY <1>1 DEF IInv, TypeOK
<1>5. Sound(volume'[t].entries) /\ SaveOK(t)'
  BY <1>1, <1>3 DEF SInv, TabSound, SaveOK
<1>6. flush'[t].batch = None
  BY <1>1, Looping
<1>7. QED
  BY <1>1, <1>4, <1>5, <1>6, SoundStep

\* Empty stores are sound.
LEMMA InitSound == Init => SInv
<1> SUFFICES ASSUME Init PROVE SInv
  OBVIOUS
<1>1. \A k \in Keys : durable[k] = None
  BY DEF Init
<1>2. Sound(durable)
  BY <1>1, Names DEF Sound
<1>3. ASSUME NEW t \in Tabs PROVE TabSound(t)
  <2>1. volume[t] = NewVolume /\ saving[t] = NotSaving /\ flush[t] = Idle
    BY DEF Init
  <2>2. Sound(volume[t].entries)
    BY <2>1, Names DEF Sound, NewVolume
  <2>3. flush[t].batch = None /\ SaveOK(t)
    BY <2>1 DEF Idle, SaveOK
  <2>4. QED
    BY <2>2, <2>3 DEF TabSound
<1>4. QED
  BY <1>2, <1>3 DEF SInv

\* Every step keeps every store sound.
LEMMA StepSound == IInv /\ SInv /\ [Next]_vars => SInv'
<1> SUFFICES ASSUME IInv, SInv, [Next]_vars PROVE SInv'
  OBVIOUS
<1>1. CASE UNCHANGED vars
  BY <1>1 DEF vars, SInv, TabSound, SaveOK, Sound
<1>2. ASSUME NEW t \in Tabs,
             \/ OpenAsOwner(t) \/ OpenAndWait(t) \/ OpenInMemory(t)
             \/ GrantLock(t) \/ Hydrate(t) \/ FailHydrate(t) \/ OverCap(t)
             \/ Close(t)
      PROVE  SInv'
  BY <1>2, AttachSound, UnmirrorSound, HydrateSound, CloseSound
<1>3. ASSUME NEW t \in Tabs,
             \/ BeginSave(t) \/ WriteManifest(t) \/ SwapHead(t)
             \/ BeginSegment(t) \/ AppendFrame(t) \/ RemoveSegment(t)
             \/ OtherCommand(t)
      PROVE  SInv'
  BY <1>3, BeginSaveSound, WriteManifestSound, SwapHeadSound,
     BeginSegmentSound, AppendFrameSound, RemoveSegmentSound, OtherCommandSound
<1>4. ASSUME NEW t \in Tabs,
             \/ TakeBatch(t) \/ EndFlush(t) \/ Commit(t) \/ Abort(t)
             \/ Acknowledge(t)
      PROVE  SInv'
  BY <1>4, TakeBatchSound, EndFlushSound, CommitSound, AcknowledgeSound
<1>5. QED
  BY <1>1, <1>2, <1>3, <1>4 DEF Next

\* Whenever a page dies, and between any two calls of a save: a durable head
\* leads to a manifest that is there, and every durable manifest to its
\* snapshot and its parent (mirrored.rs, "Why this is safe for head pointers").
THEOREM HeadNeverDangles == Spec => []NoDanglingHead
<1>1. Spec => []SInv
  BY InitSound, StepSound, InvAlways, PTL DEF Spec
<1>2. SInv => NoDanglingHead
  BY DEF SInv, Sound, NoDanglingHead
<1>3. QED
  BY <1>1, <1>2, PTL

----------------------------------------------------------------------------
(***************************************************************************)
(* The refinement                                                          *)
(***************************************************************************)

\* The batch of t is being made durable.
Open(t) == flush[t].batch # None /\ ~flush[t].committed

\* What the abstraction sees is the memory and the batch of the one owner.
ViewOK ==
    /\ \A t \in Tabs : Mirrored(t) =>
           /\ Memory = volume[t].entries
           /\ Memory \in Contents /\ Memory # None
           /\ Copy = IF Open(t) THEN flush[t].batch ELSE None
    /\ (\A t \in Tabs : ~Mirrored(t)) => Memory = None /\ Copy = None

\* The CHOOSEs of Memory and Copy have one candidate.
LEMMA ViewOf == IInv => ViewOK
<1> SUFFICES ASSUME IInv PROVE ViewOK
  OBVIOUS
<1> DEFINE open == {t \in Tabs : Open(t)}
<1>1. ASSUME NEW t \in Tabs, NEW u \in Tabs, Mirrored(t), Mirrored(u)
      PROVE  t = u
  BY <1>1, OfTab DEF Mirrored, PhaseOK
<1>2. ASSUME NEW t \in Tabs, Open(t) PROVE Mirrored(t)
  BY <1>2, Flushing, OfTab DEF Open, Mirrored, CopyOK
<1>3. Copy = IF open = {} THEN None ELSE flush[CHOOSE t \in open : TRUE].batch
  BY DEF Copy, Open
<1>4. ASSUME NEW t \in Tabs, Mirrored(t)
      PROVE  /\ Memory = volume[t].entries
             /\ Memory \in Contents /\ Memory # None
             /\ Copy = IF Open(t) THEN flush[t].batch ELSE None
  <2>1. (CHOOSE u \in Tabs : Mirrored(u)) = t
    BY <1>1, <1>4
  <2>2. Memory = volume[t].entries
    BY <1>4, <2>1 DEF Memory
  <2>3. Memory \in Contents /\ Memory # None
    BY <2>2, OfTab, StoreAssumption DEF Volumes
  <2>4. open = IF Open(t) THEN {t} ELSE {}
    BY <1>1, <1>2, <1>4
  <2>5. CASE Open(t)
    <3>1. open = {t}
      BY <2>4, <2>5
    <3>2. (CHOOSE u \in {t} : TRUE) = t
      OBVIOUS
    <3> HIDE DEF open
    <3>3. QED
      BY <1>3, <2>2, <2>3, <2>5, <3>1, <3>2
  <2>6. CASE ~Open(t)
    <3>1. open = {}
      BY <2>4, <2>6
    <3> HIDE DEF open
    <3>2. QED
      BY <1>3, <2>2, <2>3, <2>6, <3>1
  <2>7. QED
    BY <2>5, <2>6
<1>5. ASSUME \A t \in Tabs : ~Mirrored(t) PROVE Memory = None /\ Copy = None
  <2>1. Memory = None
    BY <1>5 DEF Memory
  <2>2. open = {}
    BY <1>2, <1>5
  <2> HIDE DEF open
  <2>3. QED
    BY <1>3, <2>1, <2>2
<1>6. QED
  BY <1>4, <1>5 DEF ViewOK

\* The same, of the state after a step.
LEMMA ViewNext == IInv' => ViewOK'
BY ViewOf, PTL

\* A step of t that the abstraction does not see.
LEMMA Aside ==
  ASSUME IInv, IInv', NEW t \in Tabs, ~Mirrored(t), ~Mirrored(t)',
         \A u \in Tabs \ {t} : /\ phase'[u] = phase[u] /\ volume'[u] = volume[u]
                               /\ flush'[u] = flush[u]
  PROVE  Memory' = Memory /\ Copy' = Copy
<1>1. ViewOK /\ ViewOK'
  BY ViewOf, ViewNext
<1>2. CASE \E u \in Tabs : Mirrored(u)
  <2>1. PICK u \in Tabs \ {t} : Mirrored(u)
    BY <1>2
  <2>2. Mirrored(u)' /\ (Open(u)' <=> Open(u))
        /\ volume'[u] = volume[u] /\ flush'[u] = flush[u]
    BY <2>1 DEF Mirrored, Open
  <2>3. Memory = volume[u].entries /\ Memory' = volume'[u].entries
    BY <1>1, <2>1, <2>2 DEF ViewOK
  <2>4. /\ Copy = IF Open(u) THEN flush[u].batch ELSE None
        /\ Copy' = IF Open(u)' THEN flush'[u].batch ELSE None
    BY <1>1, <2>1, <2>2 DEF ViewOK
  <2>5. QED
    BY <2>2, <2>3, <2>4
<1>3. CASE \A u \in Tabs : ~Mirrored(u)
  <2>1. \A u \in Tabs : ~Mirrored(u)'
    BY <1>3 DEF Mirrored
  <2>2. QED
    BY <1>1, <1>3, <2>1 DEF ViewOK
<1>4. QED
  BY <1>2, <1>3

\* A step of the owner, before and after it.
LEMMA OwnerStep ==
  ASSUME IInv, IInv', NEW t \in Tabs, Mirrored(t), Mirrored(t)'
  PROVE  /\ Memory = volume[t].entries /\ Memory # None
         /\ Memory' = volume'[t].entries /\ Memory' \in Contents
         /\ Copy = IF Open(t) THEN flush[t].batch ELSE None
         /\ Copy' = IF Open(t)' THEN flush'[t].batch ELSE None
<1>1. ViewOK /\ ViewOK'
  BY ViewOf, ViewNext
<1>2. QED
  BY <1>1 DEF ViewOK

\* A call on the volume is a change of the whole memory.
LEMMA RefineMutate ==
  ASSUME IInv, IInv', NEW t \in Tabs,
         \A u \in Tabs \ {t} : volume'[u] = volume[u] /\ flush'[u] = flush[u],
         phase' = phase, durable' = durable,
         volume'[t].mirroring = volume[t].mirroring,
         \/ flush'[t] = flush[t]
         \/ ~flush[t].on /\ flush'[t].batch = None
  PROVE  AbstractSpec!Mutate \/ UNCHANGED AbstractSpec!avars
<1>1. CASE Mirrored(t)
  <2>1. Mirrored(t)'
    BY <1>1 DEF Mirrored
  <2>2. Copy' = Copy
    <3>1. CASE flush'[t] = flush[t]
      BY <1>1, <2>1, <3>1, OwnerStep DEF Open
    <3>2. CASE ~flush[t].on /\ flush'[t].batch = None
      <4>1. ~Open(t) /\ ~Open(t)'
        BY <3>2, OfTab DEF Open, CopyOK
      <4>2. QED
        BY <1>1, <2>1, <4>1, OwnerStep
    <3>3. QED
      BY <3>1, <3>2
  <2>3. Memory # None /\ Memory' \in Contents
    BY <1>1, <2>1, OwnerStep
  <2>4. QED
    BY <2>2, <2>3 DEF AbstractSpec!Mutate, AbstractSpec!Contents, Contents
<1>2. CASE ~Mirrored(t)
  <2>1. ~Mirrored(t)'
    BY <1>2 DEF Mirrored
  <2>2. QED
    BY <1>2, <2>1, Aside DEF AbstractSpec!avars
<1>3. QED
  BY <1>1, <1>2

\* Scheduling the loop leaves a loop that runs alone.
LEMMA RefineScheduled ==
  ASSUME IInv, NEW t \in Tabs, NEW v
  PROVE  /\ \A u \in Tabs \ {t} : Scheduled(t, v)[u] = flush[u]
         /\ \/ Scheduled(t, v)[t] = flush[t]
            \/ ~flush[t].on /\ Scheduled(t, v)[t].batch = None
<1>1. flush \in [Tabs -> Flushes]
  BY DEF IInv, TypeOK
<1>2. CASE Scheduled(t, v) = flush
  BY <1>2
<1>3. CASE ~flush[t].on /\
           Scheduled(t, v) = [flush EXCEPT ![t] = [Idle EXCEPT !.on = TRUE]]
  BY <1>1, <1>3, Looping
<1>4. QED
  BY <1>2, <1>3 DEF Scheduled

\* The commands are changes of the memory, or of one that nobody mirrors.
LEMMA RefineCommand ==
  ASSUME IInv, IInv', NEW t \in Tabs,
         \/ BeginSave(t) \/ WriteManifest(t) \/ SwapHead(t)
         \/ BeginSegment(t) \/ AppendFrame(t) \/ RemoveSegment(t)
         \/ OtherCommand(t)
  PROVE  AbstractSpec!Mutate \/ UNCHANGED AbstractSpec!avars
<1>1. phase' = phase /\ durable' = durable
  BY DEF BeginSave, WriteManifest, SwapHead, BeginSegment, AppendFrame,
         RemoveSegment, OtherCommand
<1>2. flush' = flush \/ flush' = Scheduled(t, volume'[t])
  BY DEF BeginSave, WriteManifest, SwapHead, BeginSegment, AppendFrame,
         RemoveSegment, OtherCommand, EndCommand, IInv, TypeOK
<1>3. /\ \A u \in Tabs \ {t} : flush'[u] = flush[u]
      /\ flush'[t] = flush[t] \/ (~flush[t].on /\ flush'[t].batch = None)
  BY <1>2, RefineScheduled
<1>4. \A u \in Tabs \ {t} : volume'[u] = volume[u]
  BY DEF BeginSave, WriteManifest, SwapHead, BeginSegment, AppendFrame,
         RemoveSegment, OtherCommand, EndCommand, IInv, TypeOK
<1>5. volume'[t].mirroring = volume[t].mirroring
  <2>1. volume[t] \in Volumes /\ volume \in [Tabs -> Volumes]
    BY OfTab DEF IInv, TypeOK
  <2>2. \A k, x : Put(volume[t], k, x).mirroring = volume[t].mirroring
    BY <2>1 DEF Put, Recorded, Volumes
  <2>3. \A o : PutIfAbsent(volume[t], o).mirroring = volume[t].mirroring
    BY <2>2 DEF PutIfAbsent
  <2>4. \A s : DeletePrefix(volume[t], s).mirroring = volume[t].mirroring
    BY OfTab, DeletePrefixGrows DEF Grown
  <2>5. CASE BeginSave(t) \/ WriteManifest(t)
    BY <2>1, <2>3, <2>5 DEF BeginSave, WriteManifest
  <2>6. CASE SwapHead(t) \/ BeginSegment(t) \/ AppendFrame(t)
    <3>1. CASE SwapHead(t)
      BY <2>1, <2>2, <3>1 DEF SwapHead, EndCommand
    <3>2. CASE BeginSegment(t)
      <4>1. PICK s \in Sessions :
                EndCommand(t, Put(volume[t], <<s, 0>>, <<s, 0>>))
        BY <3>2 DEF BeginSegment
      <4>2. QED
        BY <2>1, <2>2, <4>1 DEF EndCommand
    <3>3. CASE AppendFrame(t)
      <4>1. PICK i \in 1..MaxFrame :
                EndCommand(t, Put(volume[t], <<session[t], i>>, <<session[t], i>>))
        BY <3>3 DEF AppendFrame
      <4>2. QED
        BY <2>1, <2>2, <4>1 DEF EndCommand
    <3>4. QED
      BY <2>6, <3>1, <3>2, <3>3
  <2>7. CASE RemoveSegment(t) \/ OtherCommand(t)
    BY <2>1, <2>4, <2>7 DEF RemoveSegment, OtherCommand, EndCommand
  <2>8. QED
    BY <2>5, <2>6, <2>7
<1>6. QED
  BY <1>1, <1>3, <1>4, <1>5, RefineMutate

\* A tab that is not attached, and will not be by this step.
LEMMA RefineAttach ==
  ASSUME IInv, IInv', NEW t \in Tabs,
         \/ OpenAsOwner(t) \/ OpenAndWait(t) \/ OpenInMemory(t)
         \/ GrantLock(t) \/ FailHydrate(t) \/ OverCap(t)
  PROVE  UNCHANGED AbstractSpec!avars
<1>1. phase[t] # "persistent" /\ phase'[t] # "persistent" /\ durable' = durable
  BY DEF OpenAsOwner, OpenAndWait, OpenInMemory, GrantLock, FailHydrate, OverCap,
         IInv, TypeOK
<1>2. \A u \in Tabs \ {t} : /\ phase'[u] = phase[u] /\ volume'[u] = volume[u]
                            /\ flush'[u] = flush[u]
  BY DEF OpenAsOwner, OpenAndWait, OpenInMemory, GrantLock, FailHydrate, OverCap,
         IInv, TypeOK
<1>3. QED
  BY <1>1, <1>2, Aside DEF Mirrored, AbstractSpec!avars

\* The store is adopted, and nothing in it is forgotten.
LEMMA RefineHydrate ==
  ASSUME IInv, IInv', NEW t \in Tabs, Hydrate(t)
  PROVE  AbstractSpec!Adopt \/ UNCHANGED AbstractSpec!avars
<1>1. /\ phase[t] \in {"hydrating", "promoting"} /\ phase'[t] = "persistent"
      /\ owner = t /\ durable' = durable
      /\ volume'[t] = Hydrated(volume[t], durable)
  BY OfTab DEF Hydrate, IInv, TypeOK, PhaseOK
<1>2. \A u \in Tabs \ {t} : /\ phase'[u] = phase[u] /\ volume'[u] = volume[u]
                            /\ flush'[u] = flush[u]
  BY DEF Hydrate, IInv, TypeOK
<1>3. Own(volume[t]) /\ durable \in Contents
  BY <1>1, OfTab DEF OwnOnly, IInv, TypeOK
<1>4. volume'[t].mirroring = volume[t].mirroring
      /\ \A k \in Keys : volume'[t].entries[k] =
             IF volume[t].entries[k] = None THEN durable[k] ELSE volume[t].entries[k]
  BY <1>1, <1>3, OfTab, HydratedIsOK
<1>5. ~Mirrored(t)
  BY <1>1 DEF Mirrored
<1>6. CASE ~volume[t].mirroring
  BY <1>2, <1>4, <1>5, <1>6, <1>1, Aside DEF Mirrored, AbstractSpec!avars
<1>7. CASE volume[t].mirroring
  <2>1. Mirrored(t)'
    BY <1>1, <1>4, <1>7 DEF Mirrored
  <2>2. \A u \in Tabs : ~Mirrored(u)
    BY <1>1, <1>5, OfTab DEF Mirrored, PhaseOK
  <2>3. ViewOK /\ ViewOK'
    BY ViewOf, ViewNext
  <2>4. Memory = None /\ Copy = None
    BY <2>2, <2>3 DEF ViewOK
  <2>5. /\ Memory' = volume'[t].entries /\ Memory' \in Contents
        /\ Copy' = IF Open(t)' THEN flush'[t].batch ELSE None
    BY <2>1, <2>3 DEF ViewOK
  <2>6. ~Open(t)'
    <3>1. flush[t] = Idle /\ flush \in [Tabs -> Flushes]
      BY <1>1, OfTab DEF PhaseOK, IInv, TypeOK
    <3>2. flush'[t] = Idle \/ flush'[t] = [Idle EXCEPT !.on = TRUE]
      BY <3>1 DEF Hydrate
    <3>3. QED
      BY <3>2, Looping DEF Open, Idle
  <2>7. \A k \in Keys : durable[k] # None => Memory'[k] # None
    BY <1>4, <2>5
  <2>8. QED
    BY <1>1, <2>4, <2>5, <2>6, <2>7
       DEF AbstractSpec!Adopt, AbstractSpec!Contents, Contents
<1>8. QED
  BY <1>6, <1>7

\* The page goes with its copy half made: all of it, or none.
LEMMA RefineClose ==
  ASSUME IInv, IInv', NEW t \in Tabs, Close(t)
  PROVE  AbstractSpec!Leave \/ UNCHANGED AbstractSpec!avars
<1>1. phase'[t] = "closed" /\ ~Mirrored(t)'
  BY DEF Close, Mirrored, IInv, TypeOK
<1>2. \A u \in Tabs \ {t} : /\ phase'[u] = phase[u] /\ volume'[u] = volume[u]
                            /\ flush'[u] = flush[u]
  BY DEF Close, IInv, TypeOK
<1>3. durable' = durable \/ (Open(t) /\ durable' = flush[t].batch)
  BY DEF Close, Open
<1>4. CASE ~Mirrored(t)
  <2>1. ~Open(t)
    BY <1>4, Flushing, OfTab DEF Open, Mirrored, CopyOK
  <2>2. QED
    BY <1>1, <1>2, <1>3, <1>4, <2>1, Aside DEF AbstractSpec!avars
<1>5. CASE Mirrored(t)
  <2>1. \A u \in Tabs : ~Mirrored(u)'
    BY <1>1, <1>2, <1>5, OfTab DEF Mirrored, PhaseOK
  <2>2. ViewOK /\ ViewOK'
    BY ViewOf, ViewNext
  <2>3. /\ Memory # None /\ Copy = (IF Open(t) THEN flush[t].batch ELSE None)
        /\ Memory' = None /\ Copy' = None
    BY <1>5, <2>1, <2>2 DEF ViewOK
  <2>4. durable' \in {IF Copy = None THEN durable ELSE Copy, durable}
    BY <1>3, <2>3 DEF Open
  <2>5. QED
    BY <2>3, <2>4 DEF AbstractSpec!Leave
<1>6. QED
  BY <1>4, <1>5

\* A batch is a copy of the whole memory, begun while no other is.
LEMMA RefineTakeBatch ==
  ASSUME IInv, IInv', NEW t \in Tabs, TakeBatch(t)
  PROVE  AbstractSpec!Begin
<1> DEFINE n0 == CHOOSE n \in 0..volume[t].seq :
               /\ \E k \in Keys : volume[t].pending[k].seq = n
               /\ \A k \in Keys : volume[t].pending[k].seq <= n
           b == Overlaid(durable, volume[t].pending)
<1>1. flush' = [flush EXCEPT ![t].batch = b, ![t].through = n0]
      /\ UNCHANGED <<phase, volume, durable>> /\ flush[t].batch = None
  BY DEF TakeBatch
<1>2. b = volume[t].entries /\ Mirrored(t) /\ Mirrored(t)'
  BY <1>1, TakenWhole DEF Mirrored
<1> HIDE DEF n0, b
<1>3. flush'[t].batch = b /\ flush'[t].committed = flush[t].committed
  BY <1>1, OfTab DEF IInv, TypeOK, Flushes
<1>4. ~flush[t].committed
  BY <1>1, OfTab DEF CopyOK
<1>5. /\ Memory = volume[t].entries /\ Memory # None
      /\ Memory' = volume'[t].entries
      /\ Copy = (IF Open(t) THEN flush[t].batch ELSE None)
      /\ Copy' = (IF Open(t)' THEN flush'[t].batch ELSE None)
  BY <1>2, OwnerStep
<1>6. ~Open(t) /\ Open(t)'
  BY <1>1, <1>2, <1>3, <1>4, <1>5 DEF Open
<1>7. Copy = None /\ Copy' = Memory /\ Memory' = Memory
  BY <1>1, <1>2, <1>3, <1>5, <1>6
<1>8. QED
  BY <1>1, <1>5, <1>7 DEF AbstractSpec!Begin

\* A transaction ends: all of the copy is durable, or none of it.
LEMMA RefineFinish ==
  ASSUME IInv, IInv', NEW t \in Tabs, Commit(t) \/ Abort(t)
  PROVE  AbstractSpec!Finish
<1>1. Open(t) /\ UNCHANGED <<phase, volume>>
      /\ durable' \in {flush[t].batch, durable}
  BY DEF Commit, Abort, Open
<1>2. Mirrored(t) /\ Mirrored(t)'
  BY <1>1, Flushing, OfTab DEF Open, Mirrored, CopyOK
<1>3. ~Open(t)'
  <2>1. CASE Commit(t)
    <3>1. flush'[t] = [flush[t] EXCEPT !.committed = TRUE]
      BY <2>1 DEF Commit, IInv, TypeOK
    <3>2. QED
      BY <3>1, OfTab DEF Open, Flushes
  <2>2. CASE Abort(t)
    <3>1. flush'[t] = [Idle EXCEPT !.failed = TRUE]
      BY <2>2 DEF Abort, IInv, TypeOK
    <3>2. \A i \in Flushes : [i EXCEPT !.failed = TRUE].batch = i.batch
      BY DEF Flushes
    <3>3. QED
      BY <3>1, <3>2, IdleType DEF Open, Idle
  <2>3. QED
    BY <2>1, <2>2
<1>4. /\ Memory' = Memory /\ Copy = flush[t].batch /\ Copy' = None
  BY <1>1, <1>2, <1>3, OwnerStep
<1>5. Copy # None
  BY <1>1, <1>4 DEF Open
<1>6. QED
  BY <1>1, <1>4, <1>5 DEF AbstractSpec!Finish

\* The loop ends, or hears of a commit.
LEMMA RefineLoop ==
  ASSUME IInv, IInv', NEW t \in Tabs, EndFlush(t) \/ Acknowledge(t)
  PROVE  UNCHANGED AbstractSpec!avars
<1>1. phase' = phase /\ durable' = durable /\ ~Open(t)
  BY DEF EndFlush, Acknowledge, Open
<1>2. \A u \in Tabs \ {t} : /\ phase'[u] = phase[u] /\ volume'[u] = volume[u]
                            /\ flush'[u] = flush[u]
  BY DEF EndFlush, Acknowledge, IInv, TypeOK
<1>3. ~Open(t)'
  <2>1. flush'[t] = Idle \/ flush'[t] = [Idle EXCEPT !.on = TRUE]
    BY DEF EndFlush, Acknowledge, IInv, TypeOK
  <2>2. QED
    BY <2>1, Looping DEF Open, Idle
<1>4. /\ volume'[t].entries = volume[t].entries
      /\ volume'[t].mirroring = volume[t].mirroring
  <2>1. CASE EndFlush(t)
    BY <2>1 DEF EndFlush
  <2>2. CASE Acknowledge(t)
    <3>1. volume'[t] = Acknowledged(volume[t], flush[t].through)
      BY <2>2 DEF Acknowledge, IInv, TypeOK
    <3>2. flush[t].through \in Nat
      BY OfTab DEF Flushes
    <3>3. QED
      BY <3>1, <3>2, OfTab, AcknowledgedIsOK
  <2>3. QED
    BY <2>1, <2>2
<1>5. CASE ~Mirrored(t)
  BY <1>1, <1>2, <1>4, <1>5, Aside DEF Mirrored, AbstractSpec!avars
<1>6. CASE Mirrored(t)
  <2>1. Mirrored(t)'
    BY <1>1, <1>4, <1>6 DEF Mirrored
  <2>2. Memory' = Memory /\ Copy' = Copy
    BY <1>1, <1>3, <1>4, <1>6, <2>1, OwnerStep
  <2>3. QED
    BY <1>1, <2>2 DEF AbstractSpec!avars
<1>7. QED
  BY <1>5, <1>6

\* No tab is open, so there is no memory and no copy.
LEMMA RefineInit == Init => AbstractSpec!AInit
<1> SUFFICES ASSUME Init PROVE AbstractSpec!AInit
  OBVIOUS
<1>1. ViewOK
  BY InitInv, ViewOf
<1>2. \A t \in Tabs : ~Mirrored(t)
  BY DEF Init, Mirrored
<1>3. Memory = None /\ Copy = None
  BY <1>1, <1>2 DEF ViewOK
<1>4. QED
  BY <1>3 DEF Init, AbstractSpec!AInit

\* Every step is a step of AbstractVolume or stutters there.
LEMMA RefineStep ==
  IInv /\ IInv' /\ [Next]_vars => [AbstractSpec!ANext]_(AbstractSpec!avars)
<1> SUFFICES ASSUME IInv, IInv', [Next]_vars
             PROVE  [AbstractSpec!ANext]_(AbstractSpec!avars)
  OBVIOUS
<1> USE DEF AbstractSpec!ANext
<1>1. CASE UNCHANGED vars
  BY <1>1 DEF vars, AbstractSpec!avars, Memory, Copy, Mirrored
<1>2. ASSUME NEW t \in Tabs,
             \/ OpenAsOwner(t) \/ OpenAndWait(t) \/ OpenInMemory(t)
             \/ GrantLock(t) \/ Hydrate(t) \/ FailHydrate(t) \/ OverCap(t)
             \/ Close(t)
      PROVE  [AbstractSpec!ANext]_(AbstractSpec!avars)
  BY <1>2, RefineAttach, RefineHydrate, RefineClose
<1>3. ASSUME NEW t \in Tabs,
             \/ BeginSave(t) \/ WriteManifest(t) \/ SwapHead(t)
             \/ BeginSegment(t) \/ AppendFrame(t) \/ RemoveSegment(t)
             \/ OtherCommand(t)
      PROVE  [AbstractSpec!ANext]_(AbstractSpec!avars)
  BY <1>3, RefineCommand
<1>4. ASSUME NEW t \in Tabs,
             \/ TakeBatch(t) \/ EndFlush(t) \/ Commit(t) \/ Abort(t)
             \/ Acknowledge(t)
      PROVE  [AbstractSpec!ANext]_(AbstractSpec!avars)
  BY <1>4, RefineTakeBatch, RefineFinish, RefineLoop
<1>5. QED
  BY <1>1, <1>2, <1>3, <1>4 DEF Next

\* The queue, the coalescing, the batches, the lock and its hand-over implement
\* AbstractVolume: whenever a page dies, what is durable is the whole memory of
\* its owner at one moment (mirrored.rs, the module documentation).
THEOREM CopiesAreWhole == Spec => WholeCopies
<1>1. IInv /\ [Next]_vars => IInv'
  BY StepInv
<1>2. QED
  BY <1>1, RefineInit, RefineStep, InvAlways, PTL
     DEF Spec, WholeCopies, AbstractSpec!ASpec

=============================================================================
