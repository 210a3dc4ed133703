------------------------- MODULE LocalSessionProofs -------------------------
(***************************************************************************)
(* Proofs about LocalSession, for every value of its bounds.               *)
(*                                                                         *)
(* The numbering argument.  Numbers go back: an undo by snapshot restores  *)
(* the counter with the journal it belongs to, and a recovery takes it     *)
(* from a segment.  What holds all the same is an order on identities, by  *)
(* actor and then by number: whatever holds a journal (the session, each   *)
(* checkpoint of its stacks, each segment) holds one in which nothing is   *)
(* as high as the next number, and the part that is not saved is           *)
(* ascending; and whatever still names the head's manifest holds nothing   *)
(* unsaved that is not above all of the head's history.  It is an argument *)
(* about envelopes: that no number of an operation is committed twice is   *)
(* model-checked only.                                                     *)
(*                                                                         *)
(* The line argument.  A segment is taken for current by the identities it *)
(* covers, and numbers are minted again.  What makes that sound is that    *)
(* the versions a session can come back to, its own and its checkpoints',  *)
(* are one line: of two that agree in the identities of the shorter        *)
(* journal, the longer has really grown from the shorter.  A snapshot      *)
(* grows from a version that has been there, by a marker, so it must turn  *)
(* where no version of the line has turned (Settled).  From that the       *)
(* segment is a shadow of the session after any command, and what a        *)
(* finished command left is kept by the head or by the segment.            *)
(*                                                                         *)
(* The undo argument.  The map of inverses stays while the numbers go back.*)
(* Captured changes it at and above the next number alone, so as long as no*)
(* journal on a stack holds an operation there (reused is FALSE) every step*)
(* keeps the inverses it had, and either all its operations hold their own,*)
(* which take back exactly its window, or one of them never had any.       *)
(***************************************************************************)
EXTENDS LocalSession, FiniteSetTheorems, SequenceTheorems, WellFoundedInduction, TLAPS

Before(e, f) == e.actor < f.actor \/ (e.actor = f.actor /\ e.seq < f.seq)

\* What the next envelope will be, to an order on identities.
Upcoming(next, p) == [actor |-> p, seq |-> next]

AllBefore(entries, e) == \A i \in DOMAIN entries : Before(entries[i], e)

Ascending(entries, from) ==
    \A i, j \in DOMAIN entries : from < i /\ i < j => Before(entries[i], entries[j])

Past(r) == IF r = <<>> THEN <<>> ELSE Last(r).history

Tidy(r) == \A i \in DOMAIN r : ~r[i].behind

Follows(entries, from, r) ==
    \A i \in DOMAIN entries : from < i => AllBefore(Past(r), entries[i])

\* The numbering of what holds a journal: the session or a checkpoint.
Numbered(x, r, p) ==
    /\ x.saved <= Len(x.journal) /\ x.manifest <= Len(r)
    /\ AllBefore(x.journal, Upcoming(x.next, p))
    /\ Ascending(x.journal, x.saved)
    /\ Tidy(r) => UniqueEnvelopes(x.journal)
    /\ Tidy(r) /\ x.manifest = Len(r) =>
           AllBefore(Past(r), Upcoming(x.next, p)) /\ Follows(x.journal, x.saved, r)

\* The numbering of a segment, which a recovery takes for a journal.
SegmentNumbered(s, r, p) ==
    /\ s.noted # <<>> /\ s.manifest <= Len(r)
    /\ \A i \in DOMAIN s.frames : s.frames[i].actor <= p
    /\ Ascending(s.frames, 0)
    /\ Tidy(r) /\ s.manifest = Len(r) =>
           /\ AllBefore(Past(r), Upcoming(s.next, p))
           /\ Follows(s.noted, 0, r) /\ Follows(s.frames, 0, r)

StackNumbered(stack, r, p) == \A i \in DOMAIN stack : Numbered(stack[i], r, p)

SessionNumbered ==
    /\ Numbered(app, repo, process)
    /\ StackNumbered(app.undo, repo, process)
    /\ StackNumbered(app.redo, repo, process)

SegmentsNumbered ==
    \A s \in Ids : segments[s] # None => SegmentNumbered(segments[s], repo, process)

HistoryNumbered ==
    /\ \A i \in DOMAIN Past(repo) : Past(repo)[i].actor <= process
    /\ Tidy(repo) => UniqueEnvelopes(Past(repo))

\* The cursor and the segment it names agree, and nobody is offered it.
CursorCovers ==
    cursor # None =>
        /\ cursor.session \notin offers
        /\ segments[cursor.session] # None
        /\ cursor.covered = segments[cursor.session].noted
                              \o Identities(segments[cursor.session].frames)

PreviousIsAnother ==
    pc = "replaced" =>
        cursor # None /\ previous \in Ids /\ previous # cursor.session

BlamelessIsAtHead == (app.open /\ blame = {}) => app.manifest = Len(repo)

IInv ==
    /\ TypeOK
    /\ SessionNumbered /\ SegmentsNumbered /\ HistoryNumbered
    /\ CursorCovers /\ PreviousIsAnother
    /\ BlamelessIsAtHead /\ CleanMeansSaved
-----------------------------------------------------------------------------
(* Sequences.                                                              *)

\* The last of a sequence, and what comes before it.
LEMMA FrontAndLast ==
  ASSUME NEW S, NEW s \in Seq(S), s # <<>>
  PROVE  /\ Last(s) \in S /\ Last(s) = s[Len(s)] /\ Len(s) \in DOMAIN s
         /\ Front(s) \in Seq(S) /\ Len(Front(s)) = Len(s) - 1
         /\ \A i \in DOMAIN Front(s) : i \in DOMAIN s /\ Front(s)[i] = s[i]
  BY DEF Last, Front

\* The entries after a position.
LEMMA SinceProps ==
  ASSUME NEW s \in Seq(Entries), NEW n \in Nat, n <= Len(s)
  PROVE  /\ SubSeq(s, n + 1, Len(s)) \in Seq(Entries)
         /\ Len(SubSeq(s, n + 1, Len(s))) = Len(s) - n
         /\ \A i \in 1..(Len(s) - n) :
                n + i \in DOMAIN s /\ SubSeq(s, n + 1, Len(s))[i] = s[n + i]
  OBVIOUS

\* The entries of a window.
LEMMA SliceProps ==
  ASSUME NEW S, NEW s \in Seq(S), NEW n \in Nat, NEW m \in Nat, n + m <= Len(s)
  PROVE  /\ SubSeq(s, n + 1, n + m) \in Seq(S)
         /\ Len(SubSeq(s, n + 1, n + m)) = m
         /\ \A i \in 1..m :
                n + i \in DOMAIN s /\ SubSeq(s, n + 1, n + m)[i] = s[n + i]
  OBVIOUS

\* A sequence that is not empty has a length.
LEMMA NotEmpty ==
  ASSUME NEW S, NEW s \in Seq(S), s # <<>>
  PROVE  Len(s) \in Nat \ {0}
  OBVIOUS

\* The entries of a concatenation, for what the provers must be told by name.
LEMMA ConcatProps ==
  ASSUME NEW s \in Seq(EntryIds), NEW t \in Seq(EntryIds)
  PROVE  /\ s \o t \in Seq(EntryIds) /\ Len(s \o t) = Len(s) + Len(t)
         /\ \A i \in 1..Len(s) : (s \o t)[i] = s[i]
         /\ \A i \in 1..Len(t) : (s \o t)[Len(s) + i] = t[i]
  OBVIOUS

\* Likewise for envelopes.
LEMMA EntriesConcat ==
  ASSUME NEW s \in Seq(Entries), NEW t \in Seq(Entries)
  PROVE  /\ s \o t \in Seq(Entries) /\ DOMAIN (s \o t) = 1..(Len(s) + Len(t))
         /\ Len(t) \in Nat
         /\ \A i \in 1..Len(s) : i \in DOMAIN s /\ (s \o t)[i] = s[i]
         /\ \A i \in 1..Len(t) : (s \o t)[Len(s) + i] = t[i]
  OBVIOUS

\* Concatenation is associative, for identities.
LEMMA IdsAssociative ==
  ASSUME NEW s \in Seq(EntryIds), NEW t \in Seq(EntryIds), NEW u \in Seq(EntryIds)
  PROVE  (s \o t) \o u = s \o (t \o u)
  BY ConcatAssociative

\* The identities of a sequence of envelopes, one for one.
LEMMA IdentitiesProps ==
  ASSUME NEW s \in Seq(Entries)
  PROVE  /\ Identities(s) \in Seq(EntryIds)
         /\ Len(Identities(s)) = Len(s)
         /\ \A i \in DOMAIN s : Identities(s)[i] = Identity(s[i])
<1>1. \A e \in Entries : Identity(e) \in EntryIds
  BY DEF Identity, Entries, EntryIds
<1>2. \A i \in 1..Len(s) : s[i] \in Entries
  OBVIOUS
<1>3. Identities(s) = [i \in 1..Len(s) |-> Identity(s[i])]
  BY DEF Identities
<1>4. Len(s) \in Nat
  OBVIOUS
<1>5. [i \in 1..Len(s) |-> Identity(s[i])] \in Seq(EntryIds)
  BY <1>1, <1>2, <1>4
<1>6. /\ Len([i \in 1..Len(s) |-> Identity(s[i])]) = Len(s)
      /\ DOMAIN s = 1..Len(s)
  BY <1>3, <1>4, <1>5
<1>7. Len(Identities(s)) = Len(s)
  BY <1>3, <1>6, Zenon
<1>8. \A i \in DOMAIN s : Identities(s)[i] = Identity(s[i])
  BY DEF Identities
<1>9. QED
  BY <1>3, <1>5, <1>7, <1>8, Zenon

\* A concatenation, known entry by entry.
LEMMA ConcatPointwise ==
  ASSUME NEW S, NEW u \in Seq(S), NEW v \in Seq(S), NEW w \in Seq(S),
         Len(w) = Len(u) + Len(v),
         \A i \in DOMAIN u : w[i] = u[i],
         \A i \in DOMAIN v : w[Len(u) + i] = v[i]
  PROVE  w = u \o v
<1>1. u \o v \in Seq(S) /\ Len(u \o v) = Len(w)
  OBVIOUS
<1>2. ASSUME NEW i \in 1..Len(w) PROVE w[i] = (u \o v)[i]
  <2>1. CASE i <= Len(u)
    BY <2>1
  <2>2. CASE i > Len(u)
    <3>1. i - Len(u) \in DOMAIN v /\ w[Len(u) + (i - Len(u))] = v[i - Len(u)]
      BY <2>2
    <3>2. Len(u) + (i - Len(u)) = i /\ (u \o v)[i] = v[i - Len(u)]
      BY <2>2
    <3>3. QED
      BY <3>1, <3>2
  <2>3. QED
    BY <2>1, <2>2
<1>3. QED
  BY <1>1, <1>2, SeqEqual

\* The identities of a concatenation.
LEMMA IdentitiesConcat ==
  ASSUME NEW s \in Seq(Entries), NEW t \in Seq(Entries)
  PROVE  Identities(s \o t) = Identities(s) \o Identities(t)
<1>1. /\ s \o t \in Seq(Entries) /\ Len(s \o t) = Len(s) + Len(t)
      /\ \A i \in DOMAIN s : i \in DOMAIN (s \o t) /\ (s \o t)[i] = s[i]
      /\ \A i \in DOMAIN t :
             Len(s) + i \in DOMAIN (s \o t) /\ (s \o t)[Len(s) + i] = t[i]
  OBVIOUS
<1>2. /\ Identities(s) \in Seq(EntryIds) /\ Len(Identities(s)) = Len(s)
      /\ \A i \in DOMAIN s : Identities(s)[i] = Identity(s[i])
  BY IdentitiesProps
<1>3. /\ Identities(t) \in Seq(EntryIds) /\ Len(Identities(t)) = Len(t)
      /\ \A i \in DOMAIN t : Identities(t)[i] = Identity(t[i])
  BY IdentitiesProps
<1>4. /\ Identities(s \o t) \in Seq(EntryIds)
      /\ Len(Identities(s \o t)) = Len(s \o t)
      /\ \A i \in DOMAIN (s \o t) : Identities(s \o t)[i] = Identity((s \o t)[i])
  BY <1>1, IdentitiesProps
<1>5. DOMAIN Identities(s) = DOMAIN s /\ DOMAIN Identities(t) = DOMAIN t
  BY DEF Identities
<1>6. \A i \in DOMAIN Identities(s) : Identities(s \o t)[i] = Identities(s)[i]
  BY <1>1, <1>2, <1>4, <1>5, Zenon
<1>7. \A i \in DOMAIN Identities(t) :
          Identities(s \o t)[Len(Identities(s)) + i] = Identities(t)[i]
  BY <1>1, <1>2, <1>3, <1>4, <1>5, Zenon
<1>8. Len(Identities(s \o t)) = Len(Identities(s)) + Len(Identities(t))
  BY <1>1, <1>2, <1>3, <1>4, Zenon
<1>9. QED
  BY <1>2, <1>3, <1>4, <1>6, <1>7, <1>8, ConcatPointwise
-----------------------------------------------------------------------------
(* The operators of the model.                                             *)

\* The greatest of a finite set of numbers.
LEMMA MaxProps ==
  ASSUME NEW S \in SUBSET Nat, IsFiniteSet(S), S # {}
  PROVE  Max(S) \in S /\ \A m \in S : Max(S) >= m
<1> DEFINE Topped(T) == T = {} \/ \E n \in T : \A m \in T : n >= m
           Bad == {T \in SUBSET S : ~Topped(T)}
<1>1. Topped(S)
  <2>1. SUFFICES ASSUME ~Topped(S) PROVE FALSE
    OBVIOUS
  <2>2. Bad \subseteq FiniteSubsetsOf(S) /\ Bad # {}
    BY <2>1, FS_FiniteSubsetsOfFinite
  <2>3. PICK A \in Bad : \A B \in Bad : ~(<<B, A>> \in StrictSubsetOrdering(S))
    BY <2>2, FS_StrictSubsetOrderingWellFounded, WFMin
  <2>4. PICK x \in A : TRUE
    <3>1. A # {}
      BY <2>3
    <3>2. QED
      BY <3>1, Zenon
  <2>5. Topped(A \ {x})
    <3>1. A \in SUBSET S /\ A \ {x} \in SUBSET S /\ A \ {x} # A
      BY <2>3, <2>4
    <3>2. <<A \ {x}, A>> \in StrictSubsetOrdering(S)
      BY <3>1 DEF StrictSubsetOrdering
    <3>3. A \ {x} \notin Bad
      BY <2>3, <3>2
    <3>4. QED
      BY <3>1, <3>3
  <2>6. x \in Nat /\ A \subseteq Nat
    BY <2>3, <2>4
  <2>7. CASE A \ {x} = {}
    BY <2>3, <2>4, <2>6, <2>7
  <2>8. CASE A \ {x} # {}
    <3>1. PICK n \in A \ {x} : \A m \in A \ {x} : n >= m
      BY <2>5, <2>8
    <3>2. CASE n >= x
      BY <2>3, <2>4, <3>1, <3>2
    <3>3. CASE ~(n >= x)
      <4>1. \A m \in A : x >= m
        BY <2>4, <2>6, <3>1, <3>3
      <4>2. QED
        BY <2>3, <2>4, <4>1
    <3>4. QED
      BY <3>2, <3>3
  <2>9. QED
    BY <2>7, <2>8
<1>2. QED
  BY <1>1 DEF Max

\* The first number that is above a given one and above all of an indexed set.
LEMMA FirstAbove ==
  ASSUME NEW n \in Nat, NEW I, IsFiniteSet(I), NEW f \in [I -> Nat]
  PROVE  LET top == Max({n} \cup {f[i] : i \in I})
         IN  /\ top \in Nat /\ top >= n /\ \A i \in I : top >= f[i]
             /\ top = n \/ \E i \in I : top = f[i]
<1>1. PICK T : T = {f[i] : i \in I}
  OBVIOUS
<1>2. f \in Surjection(I, T)
  BY <1>1 DEF Surjection
<1>3. IsFiniteSet(T)
  BY <1>2, FS_Surjection
<1>4. IsFiniteSet({n}) /\ {n} \cup T \in SUBSET Nat /\ {n} \cup T # {}
  BY <1>1, FS_Singleton
<1>5. IsFiniteSet({n} \cup T)
  BY <1>3, <1>4, FS_Union
<1>6. Max({n} \cup T) \in {n} \cup T /\ \A m \in {n} \cup T : Max({n} \cup T) >= m
  BY <1>4, <1>5, MaxProps
<1>7. QED
  BY <1>1, <1>4, <1>6

\* This actor's entries are finitely many.
LEMMA OwnFinite ==
  ASSUME NEW entries \in Seq(Entries)
  PROVE  /\ IsFiniteSet(Own(entries)) /\ Own(entries) \subseteq DOMAIN entries
         /\ \A i \in DOMAIN entries : entries[i].seq \in Nat /\ entries[i].op \in Nat
<1>1. IsFiniteSet(1..Len(entries)) /\ Own(entries) \subseteq 1..Len(entries)
  BY FS_Interval DEF Own
<1>2. IsFiniteSet(Own(entries))
  BY <1>1, FS_Subset
<1>3. \A e \in Entries : e.seq \in Nat /\ e.op \in Nat
  BY DEF Entries
<1>4. \A i \in DOMAIN entries : entries[i] \in Entries
  OBVIOUS
<1>5. QED
  BY <1>1, <1>2, <1>3, <1>4

\* Rebased is above what it is given and above every number of this actor.
LEMMA RebasedProps ==
  ASSUME NEW entries \in Seq(Entries), NEW next \in Nat \ {0}
  PROVE  /\ Rebased(entries, next) \in Nat \ {0} /\ Rebased(entries, next) >= next
         /\ \A i \in DOMAIN entries :
                entries[i].actor = process => entries[i].seq < Rebased(entries, next)
<1>1. PICK f : f = [i \in Own(entries) |-> entries[i].seq + 1]
  OBVIOUS
<1>2. f \in [Own(entries) -> Nat]
  BY <1>1, OwnFinite
<1>3. {f[i] : i \in Own(entries)} = {entries[i].seq + 1 : i \in Own(entries)}
  BY <1>1
<1>4. Rebased(entries, next) = Max({next} \cup {f[i] : i \in Own(entries)})
  BY <1>3 DEF Rebased
<1>5. /\ Rebased(entries, next) \in Nat /\ Rebased(entries, next) >= next
      /\ \A i \in Own(entries) : Rebased(entries, next) >= f[i]
  BY <1>2, <1>4, OwnFinite, FirstAbove
<1>6. Rebased(entries, next) \in Nat \ {0}
  BY <1>5
<1>7. ASSUME NEW i \in DOMAIN entries, entries[i].actor = process
      PROVE  entries[i].seq < Rebased(entries, next)
  <2>1. i \in Own(entries) /\ entries[i].seq \in Nat
    BY <1>7, OwnFinite DEF Own
  <2>2. Rebased(entries, next) >= entries[i].seq + 1
    BY <1>1, <1>5, <2>1
  <2>3. QED
    BY <1>5, <2>1, <2>2
<1>8. QED
  BY <1>5, <1>6, <1>7

\* Likewise RebasedOp, for the numbers of operations.
LEMMA RebasedOpProps ==
  ASSUME NEW entries \in Seq(Entries), NEW nextOp \in Nat \ {0}
  PROVE  /\ RebasedOp(entries, nextOp) \in Nat \ {0} /\ RebasedOp(entries, nextOp) >= nextOp
         /\ \A i \in DOMAIN entries :
                entries[i].actor = process => entries[i].op < RebasedOp(entries, nextOp)
<1>1. PICK f : f = [i \in Own(entries) |-> entries[i].op + 1]
  OBVIOUS
<1>2. f \in [Own(entries) -> Nat]
  BY <1>1, OwnFinite
<1>3. {f[i] : i \in Own(entries)} = {entries[i].op + 1 : i \in Own(entries)}
  BY <1>1
<1>4. RebasedOp(entries, nextOp) = Max({nextOp} \cup {f[i] : i \in Own(entries)})
  BY <1>3 DEF RebasedOp
<1>5. /\ RebasedOp(entries, nextOp) \in Nat /\ RebasedOp(entries, nextOp) >= nextOp
      /\ \A i \in Own(entries) : RebasedOp(entries, nextOp) >= f[i]
  BY <1>2, <1>4, OwnFinite, FirstAbove
<1>6. RebasedOp(entries, nextOp) \in Nat \ {0}
  BY <1>5
<1>7. ASSUME NEW i \in DOMAIN entries, entries[i].actor = process
      PROVE  entries[i].op < RebasedOp(entries, nextOp)
  <2>1. i \in Own(entries) /\ entries[i].op \in Nat
    BY <1>7, OwnFinite DEF Own
  <2>2. RebasedOp(entries, nextOp) >= entries[i].op + 1
    BY <1>1, <1>5, <2>1
  <2>3. QED
    BY <1>5, <2>1, <2>2
<1>8. QED
  BY <1>5, <1>6, <1>7

\* What an operation does to a document.
Changes == [put : Documents, cut : Documents]

\* A replay stays among the documents, and replaying nothing changes nothing.
LEMMA ReplayedProps ==
  ASSUME NEW base \in Documents, NEW S, NEW entries \in Seq(S),
         \A e \in S : e.put \in Documents /\ e.cut \in Documents
  PROVE  /\ Replayed(base, entries) \in Documents
         /\ entries = <<>> => Replayed(base, entries) = base
<1>1. \A i \in DOMAIN entries : entries[i].put \in Documents
  OBVIOUS
<1>2. QED
  BY <1>1 DEF Replayed, Documents

\* What minting makes of a session: envelopes of this actor are appended, from
\* the next number on.
MintedFrom(m, a, changes, p) ==
    /\ m \in Apps
    /\ m.saved = a.saved /\ m.manifest = a.manifest /\ m.open = a.open
    /\ m.undo = a.undo /\ m.redo = a.redo
    /\ m.recovered = a.recovered /\ m.lost = a.lost /\ m.half = a.half
    /\ m.next = a.next + Len(changes)
    /\ Len(m.journal) = Len(a.journal) + Len(changes)
    /\ \A i \in DOMAIN a.journal : m.journal[i] = a.journal[i]
    /\ \A i \in DOMAIN changes :
           /\ m.journal[Len(a.journal) + i].actor = p
           /\ m.journal[Len(a.journal) + i].seq = a.next + i - 1
    /\ changes = <<>> => m.content = a.content /\ m.journal = a.journal

\* The operations of a batch: the document's are numbered.
Operations(kind, changes) == IF kind = "document" THEN changes ELSE <<>>

\* What is captured of a batch are inverses.
LEMMA CapturedType ==
  ASSUME NEW inverses \in SUBSET Inversions, NEW first \in Nat \ {0},
         NEW changes \in Seq(Changes)
  PROVE  Captured(inverses, first, changes) \in SUBSET Inversions
<1>1. ASSUME NEW i \in DOMAIN changes
      PROVE  [op |-> first + i - 1, put |-> changes[i].cut, cut |-> changes[i].put]
                 \in Inversions
  <2>1. i \in Nat \ {0} /\ changes[i] \in Changes
    OBVIOUS
  <2>2. first + i - 1 \in Nat \ {0}
    BY <2>1
  <2>3. QED
    BY <2>1, <2>2 DEF Changes, Inversions
<1>2. QED
  BY <1>1 DEF Captured

\* Minting does that.
LEMMA MintedProps ==
  ASSUME NEW a \in Apps, NEW kind \in Kinds,
         NEW changes \in Seq(Changes), process \in Processes
  PROVE  MintedFrom(Minted(a, kind, changes), a, changes, process)
<1>0. PICK m : m = Minted(a, kind, changes)
  OBVIOUS
<1> DEFINE minted == [i \in DOMAIN changes |->
              [actor |-> process, seq |-> a.next + i - 1,
               op |-> IF kind = "document" THEN a.nextOp + i - 1 ELSE 0,
               kind |-> kind, put |-> changes[i].put, cut |-> changes[i].cut]]
<1>1. /\ a.next \in Nat \ {0} /\ a.journal \in Seq(Entries) /\ a.content \in Documents
      /\ a.nextOp \in Nat \ {0} /\ a.inverses \in SUBSET Inversions
      /\ a.reused \in BOOLEAN
  BY DEF Apps
<1>2. Len(changes) \in Nat /\ DOMAIN changes = 1..Len(changes)
  OBVIOUS
<1>3. ASSUME NEW i \in 1..Len(changes) PROVE minted[i] \in Entries
  <2>1. changes[i] \in Changes /\ i \in DOMAIN changes
    BY <1>2
  <2>2. a.next + i - 1 \in Nat \ {0} /\ a.nextOp + i - 1 \in Nat
    BY <1>1
  <2>3. QED
    BY <2>1, <2>2 DEF Changes, Entries
<1>4. minted \in Seq(Entries) /\ Len(minted) = Len(changes)
  BY <1>2, <1>3
<1> DEFINE operations == Operations(kind, changes)
<1>5. m = [a EXCEPT !.content = Replayed(@, minted),
                    !.journal = @ \o minted,
                    !.next = @ + Len(changes),
                    !.nextOp = @ + Len(operations),
                    !.inverses = Captured(@, a.nextOp, operations),
                    !.reused = @ \/ (operations # <<>> /\ Reuses(a))]
  BY <1>0 DEF Minted, Operations
<1>16. operations \in Seq(Changes)
  BY DEF Operations
<1>17. Len(operations) \in Nat
  BY <1>16
<1>18. Captured(a.inverses, a.nextOp, operations) \in SUBSET Inversions
  BY <1>1, <1>16, CapturedType
<1>19. a.nextOp + Len(operations) \in Nat \ {0}
  BY <1>1, <1>17
<1>20. (a.reused \/ (operations # <<>> /\ Reuses(a))) \in BOOLEAN
  OBVIOUS
<1> HIDE DEF operations
<1> HIDE DEF minted
<1>6. Replayed(a.content, minted) \in Documents
      /\ (changes = <<>> => Replayed(a.content, minted) = a.content)
  <2>1. \A e \in Entries : e.put \in Documents /\ e.cut \in Documents
    BY DEF Entries
  <2>2. changes = <<>> => minted = <<>>
    BY <1>4
  <2>3. QED
    BY <1>1, <1>4, <2>1, <2>2, ReplayedProps
<1>7. a.journal \o minted \in Seq(Entries)
      /\ Len(a.journal \o minted) = Len(a.journal) + Len(changes)
  BY <1>1, <1>4
<1>8. m.journal = a.journal \o minted /\ m.content = Replayed(a.content, minted)
      /\ m.next = a.next + Len(changes)
  BY <1>5 DEF Apps
<1>9. a.next + Len(changes) \in Nat \ {0}
  BY <1>1, <1>2
<1>10. m \in Apps
  BY <1>5, <1>6, <1>7, <1>9, <1>18, <1>19, <1>20 DEF Apps
<1>11. /\ m.saved = a.saved /\ m.manifest = a.manifest /\ m.open = a.open
       /\ m.undo = a.undo /\ m.redo = a.redo
       /\ m.recovered = a.recovered /\ m.lost = a.lost /\ m.half = a.half
  BY <1>5 DEF Apps
<1>12. \A i \in DOMAIN a.journal : m.journal[i] = a.journal[i]
  BY <1>1, <1>4, <1>8
<1>13. ASSUME NEW i \in DOMAIN changes
       PROVE  /\ m.journal[Len(a.journal) + i].actor = process
              /\ m.journal[Len(a.journal) + i].seq = a.next + i - 1
  <2>1. (a.journal \o minted)[Len(a.journal) + i] = minted[i]
    <3>1. i \in 1..Len(minted)
      BY <1>2, <1>4
    <3>2. QED
      BY <1>1, <1>4, <3>1
  <2>2. QED
    BY <1>8, <2>1 DEF minted
<1>14. changes = <<>> => m.content = a.content /\ m.journal = a.journal
  BY <1>1, <1>4, <1>6, <1>8
<1>15. MintedFrom(m, a, changes, process)
  BY <1>7, <1>8, <1>10, <1>11, <1>12, <1>13, <1>14 DEF MintedFrom
<1>21. QED
  BY <1>0, <1>15
-----------------------------------------------------------------------------
(* Numbering, operator by operator.                                        *)

SameNumbering(x, y) ==
    /\ x.journal = y.journal /\ x.saved = y.saved
    /\ x.manifest = y.manifest /\ x.next = y.next /\ x.nextOp = y.nextOp

\* Numbering is of the journal and its three counters alone.
LEMMA NumberedSame ==
  ASSUME NEW x, NEW y, NEW r, NEW p, SameNumbering(x, y), Numbered(y, r, p)
  PROVE  Numbered(x, r, p)
BY DEF SameNumbering, Numbered

\* Actors and numbers are numbers.
LEMMA EntryFacts ==
  ASSUME NEW s \in Seq(Entries), NEW i \in DOMAIN s
  PROVE  s[i] \in Entries /\ s[i].actor \in Nat /\ s[i].seq \in Nat
<1>1. s[i] \in Entries
  OBVIOUS
<1>2. QED
  BY <1>1 DEF Entries, Processes

\* The history of the head is a sequence of envelopes.
LEMMA PastType ==
  ASSUME NEW r \in Seq(Commits)
  PROVE  Past(r) \in Seq(Entries)
<1>1. CASE r = <<>>
  BY <1>1, EmptySeq DEF Past
<1>2. CASE r # <<>>
  <2>1. Last(r) \in Commits
    BY <1>2, FrontAndLast
  <2>2. QED
    BY <1>2, <2>1 DEF Past, Commits
<1>3. QED
  BY <1>1, <1>2

\* What is before the next envelope is before every envelope minted from then on.
LEMMA BeforeMinted ==
  ASSUME NEW e \in Entries, NEW p \in Nat, NEW next \in Nat, NEW f,
         Before(e, Upcoming(next, p)), f.actor = p, f.seq \in Nat, f.seq >= next
  PROVE  Before(e, f)
<1>1. e.actor \in Nat /\ e.seq \in Nat
  BY DEF Entries, Processes
<1>2. QED
  BY <1>1 DEF Before, Upcoming

\* Minting keeps the numbering.
LEMMA MintedNumbered ==
  ASSUME NEW a \in Apps, NEW m, NEW changes \in Seq(Changes), NEW r \in Seq(Commits),
         process \in Processes, MintedFrom(m, a, changes, process),
         Numbered(a, r, process)
  PROVE  Numbered(m, r, process)
<1>1. PICK n \in Nat : n = Len(a.journal)
  BY DEF Apps
<1>2. /\ m \in Apps /\ m.saved = a.saved /\ m.manifest = a.manifest
      /\ m.next = a.next + Len(changes)
      /\ Len(m.journal) = Len(a.journal) + Len(changes)
      /\ \A i \in DOMAIN a.journal : m.journal[i] = a.journal[i]
      /\ \A i \in DOMAIN changes :
             /\ m.journal[Len(a.journal) + i].actor = process
             /\ m.journal[Len(a.journal) + i].seq = a.next + i - 1
  BY DEF MintedFrom
<1>3. /\ m \in Apps /\ m.saved = a.saved /\ m.manifest = a.manifest
      /\ m.next = a.next + Len(changes) /\ Len(m.journal) = n + Len(changes)
      /\ \A i \in DOMAIN a.journal : m.journal[i] = a.journal[i]
      /\ \A i \in DOMAIN changes : /\ m.journal[n + i].actor = process
                                   /\ m.journal[n + i].seq = a.next + i - 1
  BY <1>1, <1>2
<1>4. /\ a.journal \in Seq(Entries) /\ m.journal \in Seq(Entries)
      /\ a.next \in Nat \ {0} /\ a.saved \in Nat /\ n \in Nat /\ process \in Nat
      /\ Len(changes) \in Nat /\ DOMAIN changes = 1..Len(changes)
      /\ DOMAIN a.journal = 1..n /\ DOMAIN m.journal = 1..(n + Len(changes))
  BY <1>1, <1>3 DEF Apps, Processes
<1>5. ASSUME NEW i \in DOMAIN m.journal
      PROVE  /\ i \in Nat
             /\ i <= n => i \in DOMAIN a.journal /\ m.journal[i] = a.journal[i]
             /\ i > n => /\ m.journal[i].actor = process
                         /\ m.journal[i].seq = a.next + (i - n) - 1
                         /\ m.journal[i].seq \in Nat /\ m.journal[i].seq >= a.next
                         /\ m.journal[i].seq < m.next
  <2>1. i \in Nat /\ i <= n + Len(changes)
    BY <1>4
  <2>2. CASE i <= n
    BY <1>3, <1>4, <2>1, <2>2
  <2>3. CASE i > n
    <3>1. i - n \in DOMAIN changes /\ n + (i - n) = i
      BY <1>4, <2>1, <2>3
    <3>2. m.journal[n + (i - n)].actor = process
          /\ m.journal[n + (i - n)].seq = a.next + (i - n) - 1
      BY <1>3, <3>1
    <3>3. m.journal[i].actor = process /\ m.journal[i].seq = a.next + (i - n) - 1
      BY <3>1, <3>2
    <3>4. i - n \in Nat \ {0} /\ i - n <= Len(changes)
      BY <1>4, <3>1
    <3>5. /\ a.next + (i - n) - 1 \in Nat /\ a.next + (i - n) - 1 >= a.next
          /\ a.next + (i - n) - 1 < a.next + Len(changes)
      <4> DEFINE k == i - n
      <4>1. k \in Nat \ {0} /\ k <= Len(changes) /\ a.next \in Nat \ {0}
        BY <1>4, <3>4
      <4> HIDE DEF k
      <4>2. /\ a.next + k - 1 \in Nat /\ a.next + k - 1 >= a.next
            /\ a.next + k - 1 < a.next + Len(changes)
        BY <1>4, <4>1
      <4>3. QED
        BY <4>2 DEF k
    <3>6. ~(i <= n)
      BY <1>4, <2>1, <2>3
    <3>7. QED
      BY <1>3, <2>1, <3>3, <3>5, <3>6, Zenon
  <2>4. QED
    BY <1>4, <2>1, <2>2, <2>3
<1>6. ASSUME NEW e \in Entries, Before(e, Upcoming(a.next, process)),
             NEW i \in DOMAIN m.journal, i > n
      PROVE  Before(e, m.journal[i])
  <2>1. /\ m.journal[i].actor = process
        /\ m.journal[i].seq \in Nat /\ m.journal[i].seq >= a.next
    BY <1>5, <1>6
  <2>2. QED
    BY <1>4, <1>6, <2>1, BeforeMinted
<1>7. AllBefore(a.journal, Upcoming(a.next, process))
  BY DEF Numbered
<1>8. ASSUME NEW i \in DOMAIN m.journal, NEW j \in DOMAIN m.journal, i < j, j > n
      PROVE  Before(m.journal[i], m.journal[j])
  <2>1. CASE i <= n
    <3>1. m.journal[i] = a.journal[i] /\ i \in DOMAIN a.journal
      BY <1>4, <1>5, <2>1
    <3>2. a.journal[i] \in Entries /\ Before(a.journal[i], Upcoming(a.next, process))
      BY <1>4, <1>7, <3>1, EntryFacts DEF AllBefore
    <3>3. QED
      BY <1>6, <1>8, <3>1, <3>2
  <2>2. CASE i > n
    <3>1. a.next + (i - n) - 1 < a.next + (j - n) - 1
      BY <1>4, <1>5, <1>8
    <3>2. QED
      BY <1>5, <1>8, <2>2, <3>1 DEF Before
  <2>3. QED
    BY <1>4, <2>1, <2>2
<1>9. AllBefore(m.journal, Upcoming(m.next, process))
  <2>1. SUFFICES ASSUME NEW i \in DOMAIN m.journal
                 PROVE  Before(m.journal[i], Upcoming(m.next, process))
    BY DEF AllBefore
  <2>2. CASE i <= n
    <3>1. m.journal[i] = a.journal[i] /\ i \in DOMAIN a.journal
      BY <1>4, <1>5, <2>2
    <3>2. /\ a.journal[i] \in Entries
          /\ Before(a.journal[i], Upcoming(a.next, process))
      BY <1>4, <1>7, <3>1, EntryFacts DEF AllBefore
    <3>3. /\ Upcoming(m.next, process).actor = process
          /\ Upcoming(m.next, process).seq = a.next + Len(changes)
          /\ a.next + Len(changes) \in Nat /\ a.next + Len(changes) >= a.next
      BY <1>3, <1>4 DEF Upcoming
    <3>4. QED
      BY <1>4, <3>1, <3>2, <3>3, BeforeMinted
  <2>3. CASE i > n
    BY <1>3, <1>4, <1>5, <2>3 DEF Before, Upcoming
  <2>4. QED
    BY <1>4, <2>2, <2>3
<1>10. Ascending(m.journal, m.saved)
  <2>1. SUFFICES ASSUME NEW i \in DOMAIN m.journal, NEW j \in DOMAIN m.journal,
                        a.saved < i, i < j
                 PROVE  Before(m.journal[i], m.journal[j])
    BY <1>3 DEF Ascending
  <2>2. CASE j <= n
    <3>1. /\ i \in DOMAIN a.journal /\ j \in DOMAIN a.journal
          /\ m.journal[i] = a.journal[i] /\ m.journal[j] = a.journal[j]
      BY <1>4, <1>5, <2>1, <2>2
    <3>2. QED
      BY <2>1, <3>1 DEF Numbered, Ascending
  <2>3. CASE j > n
    BY <1>8, <2>1, <2>3
  <2>4. QED
    BY <1>4, <2>2, <2>3
<1>11. ASSUME Tidy(r) PROVE UniqueEnvelopes(m.journal)
  <2>1. UniqueEnvelopes(a.journal)
    BY <1>11 DEF Numbered
  <2>2. ASSUME NEW i \in DOMAIN m.journal, NEW j \in DOMAIN m.journal, i < j
        PROVE  ~(/\ m.journal[i].actor = m.journal[j].actor
                 /\ m.journal[i].seq = m.journal[j].seq)
    <3>1. CASE j <= n
      <4>1. /\ i \in DOMAIN a.journal /\ j \in DOMAIN a.journal /\ i # j
            /\ m.journal[i] = a.journal[i] /\ m.journal[j] = a.journal[j]
        BY <1>4, <1>5, <2>2, <3>1
      <4>2. QED
        BY <2>1, <4>1 DEF UniqueEnvelopes
    <3>2. CASE j > n
      <4>1. /\ m.journal[i].actor \in Nat /\ m.journal[i].seq \in Nat
            /\ m.journal[j].actor \in Nat /\ m.journal[j].seq \in Nat
        BY <1>4, EntryFacts
      <4>2. Before(m.journal[i], m.journal[j])
        BY <1>8, <2>2, <3>2
      <4>3. QED
        BY <4>1, <4>2 DEF Before
    <3>3. QED
      BY <1>4, <3>1, <3>2
  <2>3. \A i, j \in DOMAIN m.journal : i # j => i < j \/ j < i
    BY <1>5
  <2>4. QED
    BY <2>2, <2>3 DEF UniqueEnvelopes
<1>12. ASSUME Tidy(r), m.manifest = Len(r)
       PROVE  AllBefore(Past(r), Upcoming(m.next, process))
              /\ Follows(m.journal, m.saved, r)
  <2>1. AllBefore(Past(r), Upcoming(a.next, process)) /\ Follows(a.journal, a.saved, r)
    BY <1>3, <1>12 DEF Numbered
  <2>2. ASSUME NEW h \in DOMAIN Past(r)
        PROVE  Past(r)[h] \in Entries /\ Before(Past(r)[h], Upcoming(a.next, process))
    BY <2>1, PastType, EntryFacts DEF AllBefore
  <2>3. ASSUME NEW h \in DOMAIN Past(r)
        PROVE  Before(Past(r)[h], Upcoming(m.next, process))
    <3>1. /\ Upcoming(m.next, process).actor = process
          /\ Upcoming(m.next, process).seq = a.next + Len(changes)
          /\ a.next + Len(changes) \in Nat /\ a.next + Len(changes) >= a.next
      BY <1>3, <1>4 DEF Upcoming
    <3>2. QED
      BY <1>4, <2>2, <3>1, BeforeMinted
  <2>4. ASSUME NEW i \in DOMAIN m.journal, a.saved < i, NEW h \in DOMAIN Past(r)
        PROVE  Before(Past(r)[h], m.journal[i])
    <3>1. CASE i <= n
      <4>1. i \in DOMAIN a.journal /\ m.journal[i] = a.journal[i]
        BY <1>4, <1>5, <3>1
      <4>2. QED
        BY <2>1, <2>4, <4>1 DEF Follows, AllBefore
    <3>2. CASE i > n
      BY <1>6, <2>2, <3>2
    <3>3. QED
      BY <1>4, <3>1, <3>2
  <2>5. QED
    BY <1>3, <2>3, <2>4 DEF AllBefore, Follows
<1>13. m.saved <= Len(m.journal) /\ m.manifest <= Len(r)
  BY <1>3, <1>4 DEF Numbered
<1>14. QED
  BY <1>9, <1>10, <1>11, <1>12, <1>13 DEF Numbered
-----------------------------------------------------------------------------
(* Undo and redo.                                                          *)

\* Two sessions with the same stacks' worth of everything else.
SameButStacks(x, a) ==
    /\ x \in Apps
    /\ SameNumbering(x, a)
    /\ x.open = a.open /\ x.content = a.content
    /\ x.recovered = a.recovered /\ x.lost = a.lost
    /\ x.inverses = a.inverses /\ x.reused = a.reused /\ x.half = a.half

StacksNumbered(a, r, p) == StackNumbered(a.undo, r, p) /\ StackNumbered(a.redo, r, p)

\* A session can be kept as a checkpoint, with its own numbering.
LEMMA CheckpointProps ==
  ASSUME NEW a \in Apps
  PROVE  CheckpointOf(a) \in Checkpoints /\ SameNumbering(CheckpointOf(a), a)
BY DEF CheckpointOf, Checkpoints, Apps, SameNumbering

\* A stack that grows, shrinks or has its last step closed stays numbered.
LEMMA StackAppended ==
  ASSUME NEW stack \in Seq(Checkpoints), NEW c \in Checkpoints, NEW r, NEW p,
         StackNumbered(stack, r, p), Numbered(c, r, p)
  PROVE  Append(stack, c) \in Seq(Checkpoints) /\ StackNumbered(Append(stack, c), r, p)
<1>1. Append(stack, c) \in Seq(Checkpoints)
  OBVIOUS
<1>2. \A i \in DOMAIN Append(stack, c) :
          Append(stack, c)[i] = c \/ (i \in DOMAIN stack /\ Append(stack, c)[i] = stack[i])
  OBVIOUS
<1>3. QED
  BY <1>1, <1>2 DEF StackNumbered

\* What is popped, and what is left.
LEMMA StackPopped ==
  ASSUME NEW stack \in Seq(Checkpoints), stack # <<>>, NEW r, NEW p,
         StackNumbered(stack, r, p)
  PROVE  /\ Front(stack) \in Seq(Checkpoints) /\ StackNumbered(Front(stack), r, p)
         /\ Last(stack) \in Checkpoints /\ Numbered(Last(stack), r, p)
<1>1. /\ Last(stack) \in Checkpoints /\ Last(stack) = stack[Len(stack)]
      /\ Len(stack) \in DOMAIN stack /\ Front(stack) \in Seq(Checkpoints)
      /\ \A i \in DOMAIN Front(stack) : i \in DOMAIN stack /\ Front(stack)[i] = stack[i]
  BY FrontAndLast
<1>2. QED
  BY <1>1 DEF StackNumbered

\* close
ClosedStack(stack, n) ==
    IF stack # <<>> /\ Last(stack).end = None
    THEN [stack EXCEPT ![Len(stack)].end = n] ELSE stack

\* Closing the last step of a stack.
LEMMA StackClosed ==
  ASSUME NEW stack \in Seq(Checkpoints), NEW n \in Nat, NEW r, NEW p,
         StackNumbered(stack, r, p)
  PROVE  /\ ClosedStack(stack, n) \in Seq(Checkpoints)
         /\ StackNumbered(ClosedStack(stack, n), r, p)
<1>1. CASE ~(stack # <<>> /\ Last(stack).end = None)
  BY <1>1 DEF ClosedStack
<1>2. CASE stack # <<>> /\ Last(stack).end = None
  <2>1. PICK k : k = Len(stack)
    OBVIOUS
  <2>2. k \in DOMAIN stack
    BY <1>2, <2>1, FrontAndLast
  <2>3. stack[k] \in Checkpoints
    BY <2>2
  <2>4. PICK c : c = [stack[k] EXCEPT !.end = n]
    OBVIOUS
  <2>5. c \in Checkpoints /\ SameNumbering(c, stack[k])
    BY <2>3, <2>4 DEF Checkpoints, SameNumbering
  <2>6. ClosedStack(stack, n) = [stack EXCEPT ![k] = c]
    BY <1>2, <2>1, <2>4 DEF ClosedStack
  <2>7. ClosedStack(stack, n) \in Seq(Checkpoints)
    BY <2>2, <2>5, <2>6
  <2>8. Numbered(c, r, p)
    BY <2>2, <2>5, NumberedSame DEF StackNumbered
  <2>9. \A i \in DOMAIN [stack EXCEPT ![k] = c] :
            i \in DOMAIN stack /\ [stack EXCEPT ![k] = c][i] = IF i = k THEN c ELSE stack[i]
    OBVIOUS
  <2>10. QED
    BY <2>6, <2>7, <2>8, <2>9 DEF StackNumbered
<1>3. QED
  BY <1>1, <1>2

\* Closing the open steps touches the stacks only.
LEMMA ClosedProps ==
  ASSUME NEW a \in Apps, NEW r, NEW p, StacksNumbered(a, r, p)
  PROVE  SameButStacks(Closed(a), a) /\ StacksNumbered(Closed(a), r, p)
<1>1. a.undo \in Seq(Checkpoints) /\ a.redo \in Seq(Checkpoints) /\ Len(a.journal) \in Nat
  BY DEF Apps
<1>2. /\ ClosedStack(a.undo, Len(a.journal)) \in Seq(Checkpoints)
      /\ ClosedStack(a.redo, Len(a.journal)) \in Seq(Checkpoints)
      /\ StackNumbered(ClosedStack(a.undo, Len(a.journal)), r, p)
      /\ StackNumbered(ClosedStack(a.redo, Len(a.journal)), r, p)
  BY <1>1, StackClosed DEF StacksNumbered
<1>3. Closed(a) = [a EXCEPT !.undo = ClosedStack(a.undo, Len(a.journal)),
                            !.redo = ClosedStack(a.redo, Len(a.journal))]
  BY DEF Closed, ClosedStack, Apps
<1>4. QED
  BY <1>2, <1>3 DEF SameButStacks, StacksNumbered, SameNumbering, Apps

\* What a step takes from one stack and puts on the other.
LEMMA StackedProps ==
  ASSUME NEW a \in Apps, NEW verb \in {"undo", "redo"}, NEW r, NEW p,
         Stack(a, verb) # <<>>, Numbered(a, r, p), StacksNumbered(a, r, p)
  PROVE  /\ Last(Stack(a, verb)) \in Checkpoints
         /\ Numbered(Last(Stack(a, verb)), r, p)
         /\ SameButStacks(Popped(a, verb), a)
         /\ SameButStacks(Pushed(Closed(Popped(a, verb)), verb, CheckpointOf(a)), a)
         /\ StacksNumbered(Pushed(Closed(Popped(a, verb)), verb, CheckpointOf(a)), r, p)
<1>1. a.undo \in Seq(Checkpoints) /\ a.redo \in Seq(Checkpoints)
  BY DEF Apps
<1>2. Last(Stack(a, verb)) \in Checkpoints /\ Numbered(Last(Stack(a, verb)), r, p)
  BY <1>1, StackPopped DEF Stack, StacksNumbered
<1>3. PICK b : b = Popped(a, verb)
  OBVIOUS
<1>4. SameButStacks(b, a) /\ StacksNumbered(b, r, p)
  <2>1. CASE verb = "undo"
    <3>1. Front(a.undo) \in Seq(Checkpoints) /\ StackNumbered(Front(a.undo), r, p)
      BY <1>1, <2>1, StackPopped DEF Stack, StacksNumbered
    <3>2. b = [a EXCEPT !.undo = Front(a.undo)]
      BY <1>3, <2>1 DEF Popped, Apps
    <3>3. QED
      BY <3>1, <3>2 DEF SameButStacks, StacksNumbered, SameNumbering, Apps
  <2>2. CASE verb = "redo"
    <3>1. Front(a.redo) \in Seq(Checkpoints) /\ StackNumbered(Front(a.redo), r, p)
      BY <1>1, <2>2, StackPopped DEF Stack, StacksNumbered
    <3>2. b = [a EXCEPT !.redo = Front(a.redo)]
      BY <1>3, <2>2 DEF Popped, Apps
    <3>3. QED
      BY <3>1, <3>2 DEF SameButStacks, StacksNumbered, SameNumbering, Apps
  <2>3. QED
    BY <2>1, <2>2
<1>5. PICK c : c = Closed(b)
  OBVIOUS
<1>6. SameButStacks(c, b) /\ StacksNumbered(c, r, p)
  BY <1>4, <1>5, ClosedProps DEF SameButStacks
<1>7. SameButStacks(c, a) /\ c \in Apps
  BY <1>4, <1>6 DEF SameButStacks, SameNumbering
<1>8. PICK k : k = CheckpointOf(a)
  OBVIOUS
<1>9. k \in Checkpoints /\ Numbered(k, r, p)
  BY <1>8, CheckpointProps, NumberedSame
<1>10. c.undo \in Seq(Checkpoints) /\ c.redo \in Seq(Checkpoints)
  BY <1>7 DEF Apps
<1>11. /\ Append(c.undo, k) \in Seq(Checkpoints) /\ StackNumbered(Append(c.undo, k), r, p)
       /\ Append(c.redo, k) \in Seq(Checkpoints) /\ StackNumbered(Append(c.redo, k), r, p)
  BY <1>6, <1>9, <1>10, StackAppended DEF StacksNumbered
<1>12. Pushed(c, verb, k) = [c EXCEPT !.redo = Append(c.redo, k)]
       \/ Pushed(c, verb, k) = [c EXCEPT !.undo = Append(c.undo, k)]
  BY <1>7 DEF Pushed, Apps
<1>13. SameButStacks(Pushed(c, verb, k), a) /\ StacksNumbered(Pushed(c, verb, k), r, p)
  <2>1. CASE Pushed(c, verb, k) = [c EXCEPT !.redo = Append(c.redo, k)]
    BY <1>6, <1>7, <1>11, <2>1 DEF SameButStacks, StacksNumbered, SameNumbering, Apps
  <2>2. CASE Pushed(c, verb, k) = [c EXCEPT !.undo = Append(c.undo, k)]
    BY <1>6, <1>7, <1>11, <2>2 DEF SameButStacks, StacksNumbered, SameNumbering, Apps
  <2>3. QED
    BY <1>12, <2>1, <2>2
<1>14. QED
  BY <1>2, <1>3, <1>4, <1>5, <1>8, <1>13

\* The inverse of a step is a sequence of changes.
LEMMA InverseType ==
  ASSUME NEW a \in Apps, NEW target \in Checkpoints, Reversible(a, target)
  PROVE  InverseOf(a, target) \in Seq(Changes)
<1>1. /\ a.journal \in Seq(Entries) /\ target.journal \in Seq(Entries)
      /\ target.end \in Nat \cup {None} /\ a.inverses \in SUBSET Inversions
  BY DEF Apps, Checkpoints
<1>2. PICK n : n = IF target.end = None \/ target.end > Len(a.journal)
                   THEN Len(a.journal) ELSE target.end
  OBVIOUS
<1>3. n \in Nat /\ n <= Len(a.journal)
  BY <1>1, <1>2
<1>4. Window(a, target) = SubSeq(a.journal, Len(target.journal) + 1, n)
  BY <1>2 DEF Window
<1>13. Window(a, target) \in Seq(Entries)
  BY <1>1, <1>3, <1>4
<1>5. PICK window \in Seq(Entries) : window = Window(a, target)
  BY <1>13
<1>6. PICK step : step = Reverse(window)
  OBVIOUS
<1>7. /\ step \in Seq(Entries)
      /\ \A i \in 1..Len(step) : \E j \in DOMAIN window : step[i] = window[j]
  BY <1>6 DEF Reverse
<1>8. PICK inverse : inverse = [i \in 1..Len(step) |->
                                    CHOOSE r \in InversesOf(a, step[i].op) : TRUE]
  OBVIOUS
<1>9. ASSUME NEW i \in 1..Len(step)
      PROVE  [put |-> inverse[i].put, cut |-> inverse[i].cut] \in Changes
  <2>1. PICK j \in DOMAIN window : step[i] = window[j]
    BY <1>7
  <2>2. InversesOf(a, step[i].op) # {}
    BY <1>5, <2>1 DEF Reversible
  <2>3. inverse[i] \in InversesOf(a, step[i].op)
    BY <1>8, <2>2
  <2>4. inverse[i] \in Inversions
    BY <1>1, <2>3 DEF InversesOf
  <2>5. QED
    BY <2>4 DEF Inversions, Changes
<1>10. InverseOf(a, target) = [i \in 1..Len(step) |-> [put |-> inverse[i].put,
                                                       cut |-> inverse[i].cut]]
  BY <1>5, <1>6, <1>7, <1>8 DEF InverseOf
<1>11. Len(step) \in Nat
  BY <1>7
<1>12. QED
  BY <1>9, <1>10, <1>11

\* A snapshot brings its numbering with it.
LEMMA RestoredProps ==
  ASSUME NEW a \in Apps, NEW target \in Checkpoints, NEW r, NEW p, Numbered(target, r, p)
  PROVE  /\ Restored(a, target) \in Apps
         /\ SameNumbering(Restored(a, target), target)
         /\ Restored(a, target).open = a.open
         /\ Restored(a, target).recovered = a.recovered
         /\ Restored(a, target).undo = a.undo /\ Restored(a, target).redo = a.redo
<1>1. PICK m : m = Restored(a, target)
  OBVIOUS
<1>2. /\ target.content \in Documents /\ target.journal \in Seq(Entries)
      /\ target.manifest \in 0..MaxCommits /\ target.next \in Nat \ {0}
      /\ target.saved \in Nat /\ target.saved <= Len(target.journal)
      /\ target.nextOp \in Nat \ {0}
  BY DEF Checkpoints, Numbered
<1>3. PICK saved \in Nat : saved = IF target.saved < Len(target.journal)
                                   THEN target.saved ELSE Len(target.journal)
  BY <1>2
<1>4. saved = target.saved
  BY <1>2, <1>3
<1>5. m = [a EXCEPT !.content = target.content,
                    !.journal = target.journal,
                    !.manifest = target.manifest,
                    !.saved = saved,
                    !.next = target.next, !.nextOp = target.nextOp]
  BY <1>1, <1>3 DEF Restored
<1>6. m \in Apps
  BY <1>2, <1>5 DEF Apps
<1>7. /\ m.journal = target.journal /\ m.manifest = target.manifest
      /\ m.saved = target.saved /\ m.next = target.next /\ m.nextOp = target.nextOp
      /\ m.open = a.open /\ m.recovered = a.recovered
      /\ m.undo = a.undo /\ m.redo = a.redo
  BY <1>4, <1>5 DEF Apps
<1>8. QED
  BY <1>1, <1>6, <1>7 DEF SameNumbering

\* A step of the edit history: the numbering is kept, and the session is dirty
\* or as it was.
LEMMA SteppedProps ==
  ASSUME NEW a \in Apps, NEW verb \in {"undo", "redo"}, NEW r \in Seq(Commits),
         Stack(a, verb) # <<>>, process \in Processes,
         Numbered(a, r, process), StacksNumbered(a, r, process)
  PROVE  /\ Stepped(a, verb) \in Apps
         /\ Numbered(Stepped(a, verb), r, process)
         /\ StacksNumbered(Stepped(a, verb), r, process)
         /\ Stepped(a, verb).open = a.open
         /\ Stepped(a, verb).recovered = a.recovered
         /\ Dirty(Stepped(a, verb)) \/ (Stepped(a, verb).content = a.content /\ ~Dirty(a))
<1>1. PICK target : target = Last(Stack(a, verb))
  OBVIOUS
<1>2. PICK popped : popped = Popped(a, verb)
  OBVIOUS
<1>3. PICK stacked : stacked = Pushed(Closed(popped), verb, CheckpointOf(a))
  OBVIOUS
<1>4. /\ target \in Checkpoints /\ Numbered(target, r, process)
      /\ SameButStacks(popped, a) /\ SameButStacks(stacked, a)
      /\ StacksNumbered(stacked, r, process)
  BY <1>1, <1>2, <1>3, StackedProps
<1>5. /\ stacked \in Apps /\ popped \in Apps /\ Numbered(stacked, r, process)
      /\ stacked.open = a.open /\ stacked.content = a.content
      /\ stacked.recovered = a.recovered
  BY <1>4, NumberedSame DEF SameButStacks
<1>6. CASE Reversible(popped, target)
  <2>1. PICK changes \in Seq(Changes) : changes = InverseOf(popped, target)
    BY <1>4, <1>5, <1>6, InverseType
  <2>2. PICK m : m = Minted(stacked, "document", changes)
    OBVIOUS
  <2>3. MintedFrom(m, stacked, changes, process)
    BY <1>5, <2>2, MintedProps DEF Kinds
  <2>4. Stepped(a, verb) = m
    BY <1>1, <1>2, <1>3, <1>6, <2>1, <2>2 DEF Stepped
  <2>5. Numbered(m, r, process)
    BY <1>5, <2>3, MintedNumbered
  <2>6. StacksNumbered(m, r, process)
    BY <1>4, <2>3 DEF MintedFrom, StacksNumbered
  <2>7. Dirty(m) \/ (m.content = a.content /\ ~Dirty(a))
    <3>1. CASE changes = <<>>
      <4>1. m.content = a.content /\ m.journal = stacked.journal /\ m.saved = stacked.saved
        BY <1>5, <2>3, <3>1 DEF MintedFrom
      <4>2. stacked.journal = a.journal /\ stacked.saved = a.saved
        BY <1>4 DEF SameButStacks, SameNumbering
      <4>3. QED
        BY <4>1, <4>2 DEF Dirty
    <3>2. CASE changes # <<>>
      <4>1. Len(changes) \in Nat \ {0}
        BY <3>2
      <4>2. /\ m.saved = stacked.saved
            /\ Len(m.journal) = Len(stacked.journal) + Len(changes)
        BY <2>3 DEF MintedFrom
      <4>3. stacked.saved <= Len(stacked.journal)
        BY <1>5 DEF Numbered
      <4>4. stacked.saved \in Nat /\ Len(stacked.journal) \in Nat
        BY <1>5 DEF Apps
      <4>5. QED
        BY <4>1, <4>2, <4>3, <4>4 DEF Dirty
    <3>3. QED
      BY <3>1, <3>2
  <2>8. QED
    BY <1>5, <2>3, <2>4, <2>5, <2>6, <2>7 DEF MintedFrom
<1>7. CASE ~Reversible(popped, target)
  <2>1. PICK restored : restored = Restored(stacked, target)
    OBVIOUS
  <2>2. /\ restored \in Apps /\ SameNumbering(restored, target)
        /\ restored.open = a.open /\ restored.recovered = a.recovered
        /\ restored.undo = stacked.undo /\ restored.redo = stacked.redo
    BY <1>4, <1>5, <2>1, RestoredProps
  <2>3. Numbered(restored, r, process) /\ StacksNumbered(restored, r, process)
    BY <1>4, <2>2, NumberedSame DEF StacksNumbered
  <2>4. PICK changes \in Seq(Changes) : changes = <<Marker>> /\ Len(changes) = 1
    <3>1. Marker \in Changes
      BY DEF Marker, Changes, Documents
    <3>2. <<Marker>> \in Seq(Changes) /\ Len(<<Marker>>) = 1
      BY <3>1
    <3>3. QED
      BY <3>2
  <2>5. PICK m : m = Minted(restored, verb, changes)
    OBVIOUS
  <2>6. MintedFrom(m, restored, changes, process)
    BY <2>2, <2>5, MintedProps DEF Kinds
  <2>7. Stepped(a, verb) = m
    BY <1>1, <1>2, <1>3, <1>7, <2>1, <2>4, <2>5 DEF Stepped
  <2>8. Numbered(m, r, process)
    BY <2>2, <2>3, <2>6, MintedNumbered
  <2>9. StacksNumbered(m, r, process)
    BY <2>3, <2>6 DEF MintedFrom, StacksNumbered
  <2>10. Dirty(m)
    <3>1. m.saved = restored.saved /\ Len(m.journal) = Len(restored.journal) + 1
      BY <2>4, <2>6 DEF MintedFrom
    <3>2. restored.saved <= Len(restored.journal)
      BY <2>3 DEF Numbered
    <3>3. restored.saved \in Nat /\ Len(restored.journal) \in Nat
      BY <2>2 DEF Apps
    <3>4. QED
      BY <3>1, <3>2, <3>3 DEF Dirty
  <2>11. QED
    BY <2>2, <2>6, <2>7, <2>8, <2>9, <2>10 DEF MintedFrom
<1>8. QED
  BY <1>6, <1>7
-----------------------------------------------------------------------------
(* The repository grows, and processes follow one another.                 *)

\* A commit on top becomes the head.
LEMMA RepoGrows ==
  ASSUME NEW r \in Seq(Commits), NEW c \in Commits
  PROVE  /\ Append(r, c) \in Seq(Commits) /\ Len(Append(r, c)) = Len(r) + 1
         /\ Past(Append(r, c)) = c.history /\ Last(Append(r, c)) = c
         /\ Append(r, c) # <<>>
         /\ Tidy(Append(r, c)) => Tidy(r) /\ ~c.behind
<1>1. PICK q : q = Append(r, c)
  OBVIOUS
<1>2. /\ q \in Seq(Commits) /\ Len(q) = Len(r) + 1 /\ q # <<>> /\ q[Len(r) + 1] = c
      /\ Len(r) + 1 \in DOMAIN q
      /\ \A i \in DOMAIN r : i \in DOMAIN q /\ q[i] = r[i]
  BY <1>1
<1>3. Last(q) = c
  BY <1>2 DEF Last
<1>4. QED
  BY <1>1, <1>2, <1>3 DEF Past, Tidy

\* What named the head, or an older commit, now names an older one.
LEMMA NumberedGrows ==
  ASSUME NEW x, x.manifest \in Nat, NEW r \in Seq(Commits), NEW c \in Commits, NEW p,
         Numbered(x, r, p)
  PROVE  Numbered(x, Append(r, c), p)
<1>1. PICK q : q = Append(r, c)
  OBVIOUS
<1>2. /\ Len(r) \in Nat /\ Len(q) = Len(r) + 1
      /\ Tidy(q) => Tidy(r)
  BY <1>1, RepoGrows
<1>3. x.manifest <= Len(r)
  BY DEF Numbered
<1>4. x.manifest <= Len(q) /\ x.manifest # Len(q)
  BY <1>2, <1>3
<1>5. QED
  BY <1>1, <1>2, <1>4 DEF Numbered

\* Likewise for the checkpoints of both stacks.
LEMMA StacksGrow ==
  ASSUME NEW a \in Apps, NEW r \in Seq(Commits), NEW c \in Commits, NEW p,
         StacksNumbered(a, r, p)
  PROVE  StacksNumbered(a, Append(r, c), p)
<1>1. \A k \in Checkpoints : k.manifest \in Nat
  BY DEF Checkpoints
<1>2. a.undo \in Seq(Checkpoints) /\ a.redo \in Seq(Checkpoints)
  BY DEF Apps
<1>3. /\ \A i \in DOMAIN a.undo : a.undo[i].manifest \in Nat
      /\ \A i \in DOMAIN a.redo : a.redo[i].manifest \in Nat
  BY <1>1, <1>2
<1>4. QED
  BY <1>3, NumberedGrows DEF StacksNumbered, StackNumbered

\* Likewise for a segment.
LEMMA SegmentGrows ==
  ASSUME NEW s, s.manifest \in Nat, NEW r \in Seq(Commits), NEW c \in Commits, NEW p,
         SegmentNumbered(s, r, p)
  PROVE  SegmentNumbered(s, Append(r, c), p)
<1>1. PICK q : q = Append(r, c)
  OBVIOUS
<1>2. /\ Len(r) \in Nat /\ Len(q) = Len(r) + 1
      /\ Tidy(q) => Tidy(r)
  BY <1>1, RepoGrows
<1>3. s.manifest <= Len(r)
  BY DEF SegmentNumbered
<1>4. s.manifest <= Len(q) /\ s.manifest # Len(q)
  BY <1>2, <1>3
<1>5. QED
  BY <1>1, <1>2, <1>4 DEF SegmentNumbered

\* All that has been committed is before what the next process will mint.
LEMMA SegmentOutlives ==
  ASSUME NEW s \in Segments, NEW r \in Seq(Commits), NEW p \in Nat,
         SegmentNumbered(s, r, p), \A i \in DOMAIN Past(r) : Past(r)[i].actor <= p
  PROVE  SegmentNumbered(s, r, p + 1)
<1>1. \A i \in DOMAIN s.frames : s.frames[i].actor <= p + 1
  <2>1. s.frames \in Seq(Entries)
    BY DEF Segments
  <2>2. \A i \in DOMAIN s.frames : s.frames[i].actor \in Nat
    BY <2>1, EntryFacts
  <2>3. QED
    BY <2>2 DEF SegmentNumbered
<1>2. AllBefore(Past(r), Upcoming(s.next, p + 1))
  <2>1. \A i \in DOMAIN Past(r) : Past(r)[i].actor \in Nat
    BY PastType, EntryFacts
  <2>2. QED
    BY <2>1 DEF AllBefore, Before, Upcoming
<1>3. QED
  BY <1>1, <1>2 DEF SegmentNumbered

\* A save that is accepted leaves a history in which no identity is there twice,
\* and, unless the session was behind, all below the next number.
LEMMA SavedNumbering ==
  ASSUME NEW c, TypeOK, SessionNumbered, HistoryNumbered, Accepted(app),
         c = [content |-> app.content, history |-> History \o Pending(app),
              behind |-> Behind(app)]
  PROVE  /\ c \in Commits
         /\ \A i \in DOMAIN c.history : c.history[i].actor <= process
         /\ Tidy(repo) => UniqueEnvelopes(c.history)
         /\ Tidy(repo) /\ ~c.behind =>
                AllBefore(c.history, Upcoming(app.next, process))
<1>1. /\ app \in Apps /\ repo \in Seq(Commits) /\ process \in Nat
      /\ app.journal \in Seq(Entries) /\ app.content \in Documents
      /\ app.saved \in Nat /\ app.saved <= Len(app.journal) /\ app.next \in Nat
      /\ app.manifest \in Nat
  BY DEF TypeOK, Apps, Processes
<1>2. Numbered(app, repo, process)
  BY DEF SessionNumbered
<1>3. PICK h \in Seq(Entries) : h = Past(repo)
  BY <1>1, PastType
<1>4. PICK new : new = Pending(app)
  OBVIOUS
<1>5. /\ new \in Seq(Entries) /\ Len(new) = Len(app.journal) - app.saved
      /\ \A i \in 1..(Len(app.journal) - app.saved) :
             app.saved + i \in DOMAIN app.journal /\ new[i] = app.journal[app.saved + i]
  BY <1>1, <1>4, SinceProps DEF Pending, Since
<1>6. PICK all : all = h \o new
  OBVIOUS
<1>7. all \in Seq(Entries) /\ DOMAIN h = 1..Len(h) /\ DOMAIN new = 1..Len(new)
      /\ DOMAIN all = 1..(Len(h) + Len(new)) /\ Len(h) \in Nat /\ Len(new) \in Nat
  BY <1>3, <1>5, <1>6
<1>8. c.history = all /\ c.content = app.content /\ c.behind = Behind(app)
  BY <1>3, <1>4, <1>6 DEF History, Past
<1>9. c \in Commits
  BY <1>1, <1>3, <1>4, <1>6, <1>7 DEF Commits, Behind, History, Past
<1>10. ASSUME NEW i \in DOMAIN all
       PROVE  \/ i \in DOMAIN h /\ i <= Len(h) /\ all[i] = h[i]
              \/ /\ i > Len(h) /\ i - Len(h) \in DOMAIN new
                 /\ all[i] = new[i - Len(h)]
                 /\ app.saved + (i - Len(h)) \in DOMAIN app.journal
                 /\ app.saved + (i - Len(h)) > app.saved
                 /\ all[i] = app.journal[app.saved + (i - Len(h))]
  <2>1. CASE i <= Len(h)
    BY <1>3, <1>5, <1>6, <1>7, <2>1
  <2>2. CASE i > Len(h)
    <3>1. i - Len(h) \in 1..Len(new) /\ i - Len(h) >= 1
      BY <1>7, <2>2
    <3>2. all[i] = new[i - Len(h)]
      BY <1>3, <1>5, <1>6, <1>7, <2>2
    <3>3. /\ app.saved + (i - Len(h)) \in DOMAIN app.journal
          /\ new[i - Len(h)] = app.journal[app.saved + (i - Len(h))]
      BY <1>5, <3>1
    <3>4. app.saved + (i - Len(h)) > app.saved
      BY <1>1, <1>7, <3>1
    <3>5. QED
      BY <1>7, <2>2, <3>1, <3>2, <3>3, <3>4
  <2>3. QED
    BY <1>7, <2>1, <2>2
<1>11. ASSUME NEW i \in DOMAIN app.journal
       PROVE  /\ app.journal[i] \in Entries
              /\ Before(app.journal[i], Upcoming(app.next, process))
  BY <1>1, <1>2, EntryFacts DEF Numbered, AllBefore
<1>12. ASSUME NEW i \in DOMAIN all PROVE all[i].actor <= process
  <2>1. \A k \in DOMAIN h : h[k].actor <= process
    BY <1>3 DEF HistoryNumbered
  <2>2. ASSUME NEW k \in DOMAIN app.journal PROVE app.journal[k].actor <= process
    <3>1. app.journal[k].actor \in Nat
      BY <1>1, EntryFacts
    <3>2. Before(app.journal[k], Upcoming(app.next, process))
      BY <1>11
    <3>3. QED
      BY <1>1, <3>1, <3>2 DEF Before, Upcoming
  <2>3. QED
    BY <1>10, <2>1, <2>2
<1>13. ASSUME Tidy(repo) PROVE UniqueEnvelopes(all)
  <2>1. CASE app.manifest = 0
    BY <1>3, <1>4, <1>6, <2>1 DEF Accepted, Unique, History, Past
  <2>2. CASE app.manifest # 0
    <3>1. app.manifest = Len(repo)
      BY <2>2 DEF Accepted
    <3>2. UniqueEnvelopes(h) /\ Follows(app.journal, app.saved, repo)
          /\ Ascending(app.journal, app.saved)
      BY <1>2, <1>3, <1>13, <3>1 DEF HistoryNumbered, Numbered
    <3>3. ASSUME NEW i \in DOMAIN all, NEW j \in DOMAIN all, i < j
          PROVE  ~(all[i].actor = all[j].actor /\ all[i].seq = all[j].seq)
      <4>1. /\ all[i].actor \in Nat /\ all[i].seq \in Nat
            /\ all[j].actor \in Nat /\ all[j].seq \in Nat
        BY <1>7, EntryFacts
      <4>2. CASE j <= Len(h)
        <5>1. i \in DOMAIN h /\ j \in DOMAIN h /\ all[i] = h[i] /\ all[j] = h[j] /\ i # j
          BY <1>7, <1>10, <3>3, <4>2
        <5>2. QED
          BY <3>2, <5>1 DEF UniqueEnvelopes
      <4>3. CASE j > Len(h)
        <5>1. PICK l \in DOMAIN app.journal :
                  l = app.saved + (j - Len(h)) /\ l > app.saved /\ all[j] = app.journal[l]
          BY <1>7, <1>10, <4>3
        <5>2. Before(all[i], all[j])
          <6>1. CASE i <= Len(h)
            <7>1. i \in DOMAIN h /\ all[i] = h[i]
              BY <1>7, <1>10, <6>1
            <7>2. QED
              BY <1>3, <3>2, <5>1, <7>1 DEF Follows, AllBefore
          <6>2. CASE i > Len(h)
            <7>1. PICK k \in DOMAIN app.journal :
                      k = app.saved + (i - Len(h)) /\ k > app.saved /\ all[i] = app.journal[k]
              BY <1>7, <1>10, <6>2
            <7>2. k < l
              <8>1. app.saved \in Nat /\ Len(h) \in Nat
                BY <1>1, <1>7
              <8>2. i \in Nat /\ j \in Nat
                BY <1>7
              <8>3. k = app.saved + (i - Len(h)) /\ l = app.saved + (j - Len(h))
                BY <5>1, <7>1
              <8>4. i < j
                BY <3>3
              <8>5. QED
                BY <8>1, <8>2, <8>3, <8>4
            <7>3. QED
              BY <3>2, <5>1, <7>1, <7>2 DEF Ascending
          <6>3. QED
            BY <1>7, <6>1, <6>2
        <5>3. QED
          BY <4>1, <5>2 DEF Before
      <4>4. QED
        BY <1>7, <4>2, <4>3
    <3>4. \A i, j \in DOMAIN all : i # j => i < j \/ j < i
      BY <1>7
    <3>5. QED
      BY <3>3, <3>4 DEF UniqueEnvelopes
  <2>3. QED
    BY <2>1, <2>2
<1>14. ASSUME Tidy(repo), ~c.behind
       PROVE  AllBefore(all, Upcoming(app.next, process))
  <2>1. ASSUME NEW k \in DOMAIN h
        PROVE  Before(h[k], Upcoming(app.next, process))
    <3>1. CASE app.manifest = 0
      <4>1. ~(h[k].actor = process /\ h[k].seq >= app.next)
        BY <1>3, <1>8, <1>14, <3>1 DEF Behind, History, Past
      <4>2. h[k].actor <= process /\ h[k].actor \in Nat /\ h[k].seq \in Nat
        BY <1>3, EntryFacts DEF HistoryNumbered
      <4>3. QED
        BY <1>1, <4>1, <4>2 DEF Before, Upcoming
    <3>2. CASE app.manifest # 0
      BY <1>2, <1>3, <1>14, <3>2 DEF Accepted, Numbered, AllBefore
    <3>3. QED
      BY <3>1, <3>2
  <2>2. QED
    BY <1>10, <1>11, <2>1 DEF AllBefore
<1>15. QED
  BY <1>8, <1>9, <1>12, <1>13, <1>14

\* What is opened from the head: its history, numbered above this actor's part.
LEMMA OpenedNumbering ==
  ASSUME NEW x, NEW next \in Nat \ {0}, TypeOK, HistoryNumbered,
         x.journal = History, x.saved = Len(History), x.manifest <= Len(repo),
         x.next = Rebased(History, next)
  PROVE  Numbered(x, repo, process)
<1>1. History = Past(repo)
  BY DEF History, Past
<1>2. PICK h \in Seq(Entries) : h = Past(repo)
  BY PastType DEF TypeOK
<1>3. PICK n \in Nat \ {0} :
          /\ n = Rebased(h, next)
          /\ \A i \in DOMAIN h : h[i].actor = process => h[i].seq < n
  BY <1>2, RebasedProps
<1>4. process \in Nat
  BY DEF TypeOK, Processes
<1>5. ASSUME NEW i \in DOMAIN h PROVE Before(h[i], Upcoming(n, process))
  <2>1. h[i].actor \in Nat /\ h[i].actor <= process
    BY <1>2, EntryFacts DEF HistoryNumbered
  <2>2. QED
    BY <1>3, <1>4, <2>1 DEF Before, Upcoming
<1>6. DOMAIN h = 1..Len(h) /\ Len(h) \in Nat /\ Len(repo) \in Nat
  BY DEF TypeOK
<1>7. \A i \in DOMAIN h : ~(Len(h) < i)
  BY <1>6
<1>8. /\ x.journal = h /\ x.saved = Len(h) /\ x.manifest <= Len(repo) /\ x.next = n
  BY <1>1, <1>2, <1>3
<1>9. Tidy(repo) => UniqueEnvelopes(h)
  BY <1>2 DEF HistoryNumbered
<1>10. AllBefore(h, Upcoming(n, process))
  BY <1>5 DEF AllBefore
<1>11. Ascending(h, Len(h)) /\ Follows(h, Len(h), repo)
  BY <1>7 DEF Ascending, Follows
<1>12. x.saved <= Len(x.journal) /\ x.manifest <= Len(repo)
  BY <1>6, <1>8
<1>13. QED
  BY <1>2, <1>8, <1>9, <1>10, <1>11, <1>12 DEF Numbered

\* What is recovered from a segment: its frames, none of them saved.
LEMMA RecoveredNumbering ==
  ASSUME NEW s \in Segments, NEW x, TypeOK, SegmentNumbered(s, repo, process),
         x.journal = s.frames, x.saved = 0, x.manifest = s.manifest,
         x.next = RecoveredNext(s)
  PROVE  Numbered(x, repo, process)
<1>1. /\ s.frames \in Seq(Entries) /\ s.next \in Nat \ {0} /\ process \in Nat
      /\ s.manifest \in Nat /\ repo \in Seq(Commits)
  BY DEF Segments, TypeOK, Processes
<1>2. PICK n \in Nat \ {0} :
          /\ n = Rebased(s.frames, s.next) /\ n >= s.next
          /\ \A i \in DOMAIN s.frames : s.frames[i].actor = process => s.frames[i].seq < n
  BY <1>1, RebasedProps
<1>3. x.next = n
  BY <1>2 DEF RecoveredNext
<1>4. ASSUME NEW i \in DOMAIN s.frames PROVE Before(s.frames[i], Upcoming(n, process))
  <2>1. s.frames[i].actor \in Nat /\ s.frames[i].actor <= process
    BY <1>1, EntryFacts DEF SegmentNumbered
  <2>2. QED
    BY <1>1, <1>2, <2>1 DEF Before, Upcoming
<1>5. Ascending(s.frames, 0)
  BY DEF SegmentNumbered
<1>6. UniqueEnvelopes(s.frames)
  <2>1. \A i \in DOMAIN s.frames :
            i \in Nat /\ i > 0 /\ s.frames[i].actor \in Nat /\ s.frames[i].seq \in Nat
    <3>1. \A i \in DOMAIN s.frames : i \in Nat /\ i > 0
      BY <1>1
    <3>2. QED
      BY <1>1, <3>1, EntryFacts
  <2>2. ASSUME NEW i \in DOMAIN s.frames, NEW j \in DOMAIN s.frames, i < j
        PROVE  ~(/\ s.frames[i].actor = s.frames[j].actor
                 /\ s.frames[i].seq = s.frames[j].seq)
    <3>1. Before(s.frames[i], s.frames[j])
      BY <1>5, <2>1, <2>2 DEF Ascending
    <3>2. QED
      BY <2>1, <3>1 DEF Before
  <2>3. \A i, j \in DOMAIN s.frames : i # j => i < j \/ j < i
    BY <2>1
  <2>4. QED
    BY <2>2, <2>3 DEF UniqueEnvelopes
<1>7. ASSUME Tidy(repo), s.manifest = Len(repo)
      PROVE  AllBefore(Past(repo), Upcoming(n, process)) /\ Follows(s.frames, 0, repo)
  <2>1. AllBefore(Past(repo), Upcoming(s.next, process)) /\ Follows(s.frames, 0, repo)
    BY <1>7 DEF SegmentNumbered
  <2>2. ASSUME NEW i \in DOMAIN Past(repo)
        PROVE  Before(Past(repo)[i], Upcoming(n, process))
    <3>1. Past(repo)[i].actor \in Nat /\ Past(repo)[i].seq \in Nat
      BY <1>1, PastType, EntryFacts
    <3>2. Before(Past(repo)[i], Upcoming(s.next, process))
      BY <2>1 DEF AllBefore
    <3>3. QED
      BY <1>1, <1>2, <3>1, <3>2 DEF Before, Upcoming
  <2>3. QED
    BY <2>1, <2>2 DEF AllBefore
<1>8. AllBefore(s.frames, Upcoming(n, process))
  BY <1>4 DEF AllBefore
<1>9. 0 <= Len(s.frames) /\ s.manifest <= Len(repo)
  BY <1>1 DEF SegmentNumbered
<1>10. QED
  BY <1>3, <1>5, <1>6, <1>7, <1>8, <1>9 DEF Numbered

\* The segment that is begun for what is unsaved.
LEMMA BegunNumbering ==
  ASSUME TypeOK, SessionNumbered, Dirty(app)
  PROVE  /\ Segment \in Segments /\ SegmentNumbered(Segment, repo, process)
         /\ Identities(Pending(app)) \in Seq(EntryIds)
<1>1. /\ app \in Apps /\ repo \in Seq(Commits)
      /\ app.journal \in Seq(Entries) /\ app.content \in Documents
      /\ app.saved \in Nat /\ app.saved <= Len(app.journal) /\ Len(app.journal) \in Nat
      /\ app.next \in Nat \ {0} /\ app.manifest \in 0..MaxCommits
      /\ app.nextOp \in Nat \ {0}
  BY DEF TypeOK, Apps
<1>2. PICK new : new = Pending(app)
  OBVIOUS
<1>3. /\ new \in Seq(Entries) /\ Len(new) = Len(app.journal) - app.saved
      /\ \A i \in 1..(Len(app.journal) - app.saved) :
             app.saved + i \in DOMAIN app.journal /\ new[i] = app.journal[app.saved + i]
  BY <1>1, <1>2, SinceProps DEF Pending, Since
<1>4. PICK ids : ids = Identities(new)
  OBVIOUS
<1>5. /\ ids \in Seq(EntryIds) /\ Len(ids) = Len(new)
      /\ \A i \in DOMAIN new : ids[i] = Identity(new[i])
  BY <1>3, <1>4, IdentitiesProps
<1>6. Len(new) # 0
  BY <1>1, <1>3 DEF Dirty
<1>7. ids # <<>>
  BY <1>3, <1>5, <1>6
<1>8. Segment = [base |-> app.content, noted |-> ids, frames |-> <<>>,
                 manifest |-> app.manifest, next |-> app.next,
                 nextOp |-> app.nextOp]
  BY <1>2, <1>4 DEF Segment
<1>9. <<>> \in Seq(Entries)
  OBVIOUS
<1>10. Segment \in Segments
  BY <1>1, <1>5, <1>8, <1>9 DEF Segments
<1>11. \A i \in DOMAIN <<>> : FALSE
  OBVIOUS
<1>12. Ascending(<<>>, 0) /\ Follows(<<>>, 0, repo)
  BY <1>11 DEF Ascending, Follows
<1>13. Numbered(app, repo, process)
  BY DEF SessionNumbered
<1>14. ASSUME Tidy(repo), app.manifest = Len(repo) PROVE Follows(ids, 0, repo)
  <2>1. Follows(app.journal, app.saved, repo)
    BY <1>13, <1>14 DEF Numbered
  <2>2. SUFFICES ASSUME NEW i \in DOMAIN ids, NEW h \in DOMAIN Past(repo)
                 PROVE  Before(Past(repo)[h], ids[i])
    BY DEF Follows, AllBefore
  <2>3. i \in 1..(Len(app.journal) - app.saved) /\ i \in DOMAIN new
    BY <1>3, <1>5
  <2>4. PICK k \in DOMAIN app.journal : k = app.saved + i /\ new[i] = app.journal[k]
    BY <1>3, <2>3
  <2>5. app.saved < k
    BY <1>1, <2>3, <2>4
  <2>6. Before(Past(repo)[h], app.journal[k])
    BY <2>1, <2>5 DEF Follows, AllBefore
  <2>7. ids[i].actor = app.journal[k].actor /\ ids[i].seq = app.journal[k].seq
    <3>1. ids[i] = Identity(app.journal[k])
      BY <1>5, <2>3, <2>4
    <3>2. QED
      BY <3>1 DEF Identity
  <2>8. QED
    BY <2>6, <2>7 DEF Before
<1>15. app.manifest <= Len(repo)
  BY <1>13 DEF Numbered
<1>16. Tidy(repo) /\ app.manifest = Len(repo) =>
           AllBefore(Past(repo), Upcoming(app.next, process))
  BY <1>13 DEF Numbered
<1>17. SegmentNumbered(Segment, repo, process)
  BY <1>7, <1>8, <1>11, <1>12, <1>14, <1>15, <1>16 DEF SegmentNumbered
<1>18. QED
  BY <1>2, <1>4, <1>5, <1>10, <1>17

\* The segment that is appended to: its frames are the session's, after those it
\* can only name.
LEMMA AppendedNumbering ==
  ASSUME NEW old, NEW added, NEW grown, TypeOK, SessionNumbered, SegmentsNumbered, CursorCovers,
         IsCurrent, old = segments[cursor.session],
         added = Since(app, cursor.saved + Len(cursor.covered)),
         grown = [old EXCEPT !.frames = @ \o added]
  PROVE  /\ old \in Segments /\ grown \in Segments /\ added \in Seq(Entries)
         /\ SegmentNumbered(grown, repo, process)
         /\ cursor.covered \o Identities(added) \in Seq(EntryIds)
         /\ cursor.covered \o Identities(added) = grown.noted \o Identities(grown.frames)
<1>1. /\ cursor # None /\ cursor \in Cursors /\ cursor.session \in Ids
      /\ cursor.covered \in Seq(EntryIds) /\ cursor.saved = app.saved
  BY DEF IsCurrent, TypeOK, Cursors
<1>2. /\ old \in Segments /\ SegmentNumbered(old, repo, process)
      /\ cursor.covered = old.noted \o Identities(old.frames)
  BY <1>1 DEF TypeOK, CursorCovers, SegmentsNumbered
<1>3. PICK noted \in Seq(EntryIds), frames \in Seq(Entries) :
          noted = old.noted /\ frames = old.frames /\ noted # <<>>
  BY <1>2 DEF Segments, SegmentNumbered
<1>4. PICK J \in Seq(Entries), n \in Nat : J = app.journal /\ n = app.saved
  BY DEF TypeOK, Apps
<1>5. PICK covered \in Seq(EntryIds) : covered = cursor.covered
  BY <1>1
<1>6. /\ Identities(frames) \in Seq(EntryIds) /\ Len(Identities(frames)) = Len(frames)
      /\ \A i \in DOMAIN frames : Identities(frames)[i] = Identity(frames[i])
  BY IdentitiesProps
<1>7. PICK m \in Nat : m = Len(covered)
  OBVIOUS
<1>8. /\ n + m <= Len(J) /\ Len(J) \in Nat
      /\ Identities(SubSeq(J, n + 1, n + m)) = covered
  BY <1>1, <1>4, <1>5, <1>7 DEF IsCurrent
<1>9. PICK part : part = SubSeq(J, n + 1, n + m)
  OBVIOUS
<1>10. /\ part \in Seq(Entries) /\ Len(part) = m
      /\ \A i \in 1..m : n + i \in DOMAIN J /\ part[i] = J[n + i]
  <2>1. n + m <= Len(J)
    BY <1>8
  <2>2. QED
    BY <1>9, <2>1, SliceProps
<1>11. ASSUME NEW i \in 1..m PROVE covered[i] = Identity(J[n + i]) /\ n + i \in DOMAIN J
  <2>1. i \in DOMAIN part
    BY <1>10
  <2>2. QED
    BY <1>8, <1>9, <1>10, <2>1, IdentitiesProps
<1>12. PICK k \in Nat \ {0} : k = Len(noted)
  BY <1>3, NotEmpty
<1>13. /\ covered = noted \o Identities(frames) /\ m = k + Len(frames)
       /\ Len(frames) \in Nat
       /\ \A i \in 1..k : covered[i] = noted[i]
       /\ \A i \in 1..Len(frames) : covered[k + i] = Identities(frames)[i]
  <2>1. covered = noted \o Identities(frames)
    BY <1>2, <1>3, <1>5
  <2>2. Len(frames) \in Nat
    BY LenProperties
  <2>3. PICK ids : ids = Identities(frames)
    OBVIOUS
  <2>4. /\ ids \in Seq(EntryIds) /\ Len(ids) = Len(frames) /\ covered = noted \o ids
    BY <1>6, <2>1, <2>3
  <2>5. /\ m = k + Len(ids)
        /\ \A i \in 1..k : covered[i] = noted[i]
        /\ \A i \in 1..Len(ids) : covered[k + i] = ids[i]
    <3>1. /\ Len(noted \o ids) = Len(noted) + Len(ids)
          /\ \A i \in 1..Len(noted) : (noted \o ids)[i] = noted[i]
          /\ \A i \in 1..Len(ids) : (noted \o ids)[Len(noted) + i] = ids[i]
      BY <2>4, ConcatProps, Zenon
    <3>2. QED
      BY <1>7, <1>12, <2>4, <3>1, Zenon
  <2>6. QED
    BY <2>1, <2>2, <2>3, <2>4, <2>5
<1>14. added = SubSeq(J, (n + m) + 1, Len(J))
  BY <1>1, <1>4, <1>5, <1>7 DEF Since
<1>15. /\ added \in Seq(Entries) /\ Len(added) = Len(J) - (n + m)
       /\ \A i \in 1..(Len(J) - (n + m)) :
              (n + m) + i \in DOMAIN J /\ added[i] = J[(n + m) + i]
  <2>1. PICK q \in Nat : q = n + m
    OBVIOUS
  <2>2. q <= Len(J) /\ added = SubSeq(J, q + 1, Len(J))
    BY <1>8, <1>14, <2>1
  <2>3. /\ added \in Seq(Entries) /\ Len(added) = Len(J) - q
        /\ \A i \in 1..(Len(J) - q) : q + i \in DOMAIN J /\ added[i] = J[q + i]
    <3>1. q <= Len(J)
      BY <2>2
    <3>2. PICK tail : tail = SubSeq(J, q + 1, Len(J))
      OBVIOUS
    <3>3. /\ tail \in Seq(Entries) /\ Len(tail) = Len(J) - q
          /\ \A i \in 1..(Len(J) - q) : q + i \in DOMAIN J /\ tail[i] = J[q + i]
      BY <3>1, <3>2, SinceProps
    <3>4. QED
      BY <2>2, <3>2, <3>3
  <2>4. QED
    BY <2>1, <2>3
<1>16. PICK all \in Seq(Entries) : all = frames \o added
  <2>1. added \in Seq(Entries)
    BY <1>15
  <2>2. frames \o added \in Seq(Entries)
    BY <2>1, EntriesConcat, Zenon
  <2>3. QED
    BY <2>2
<1>17. /\ DOMAIN all = 1..(Len(frames) + Len(added)) /\ Len(added) \in Nat
       /\ \A i \in 1..Len(frames) : i \in DOMAIN frames /\ all[i] = frames[i]
       /\ \A i \in 1..Len(added) : all[Len(frames) + i] = added[i]
  <2>1. added \in Seq(Entries)
    BY <1>15
  <2>2. QED
    BY <1>16, <2>1, EntriesConcat
<1>18. ASSUME NEW i \in DOMAIN all
       PROVE  /\ i \in Nat \ {0} /\ n + k + i \in DOMAIN J
              /\ Identity(all[i]) = Identity(J[n + k + i])
  <2>1. i \in Nat \ {0} /\ i <= Len(frames) + Len(added)
    BY <1>13, <1>17
  <2>2. CASE i <= Len(frames)
    <3>1. i \in DOMAIN frames /\ all[i] = frames[i]
      BY <1>13, <1>17, <2>1, <2>2
    <3>2. covered[k + i] = Identities(frames)[i]
      <4>1. i \in 1..Len(frames)
        BY <1>13, <2>1, <2>2
      <4>2. QED
        BY <1>13, <4>1
    <3>3. k + i \in 1..m /\ n + (k + i) = n + k + i
      BY <1>12, <1>13, <2>1, <2>2
    <3>4. QED
      BY <1>6, <1>11, <2>1, <3>1, <3>2, <3>3
  <2>3. CASE i > Len(frames)
    <3>1. PICK j \in Nat : j = i - Len(frames)
      BY <1>13, <2>1, <2>3
    <3>2. j \in 1..Len(added)
      BY <1>13, <1>17, <2>1, <2>3, <3>1
    <3>3. all[Len(frames) + j] = added[j] /\ Len(frames) + j = i
      <4>1. Len(frames) + j = i
        BY <1>13, <2>1, <3>1
      <4>2. QED
        BY <1>17, <3>2, <4>1
    <3>4. (n + m) + j \in DOMAIN J /\ added[j] = J[(n + m) + j]
      BY <1>15, <3>2
    <3>5. (n + m) + j = n + k + i
      BY <1>13, <3>1, <2>1
    <3>6. QED
      BY <2>1, <3>3, <3>4, <3>5
  <2>4. QED
    BY <1>13, <2>1, <2>2, <2>3
<1>19. ASSUME NEW i \in DOMAIN all
       PROVE  /\ all[i].actor = J[n + k + i].actor /\ all[i].seq = J[n + k + i].seq
              /\ all[i].actor \in Nat /\ all[i].seq \in Nat
  <2>1. Identity(all[i]).actor = Identity(J[n + k + i]).actor
        /\ Identity(all[i]).seq = Identity(J[n + k + i]).seq
    BY <1>18
  <2>2. QED
    BY <2>1, EntryFacts DEF Identity
<1>20. AllBefore(J, Upcoming(app.next, process)) /\ Ascending(J, n)
  BY <1>4 DEF SessionNumbered, Numbered
<1>21. ASSUME NEW i \in DOMAIN all PROVE all[i].actor <= process
  <2>1. Before(J[n + k + i], Upcoming(app.next, process))
    BY <1>18, <1>20 DEF AllBefore
  <2>2. process \in Nat
    BY DEF TypeOK, Processes
  <2>3. QED
    BY <1>19, <2>1, <2>2 DEF Before, Upcoming
<1>22. Ascending(all, 0)
  <2>1. SUFFICES ASSUME NEW i \in DOMAIN all, NEW j \in DOMAIN all, i < j
                 PROVE  Before(all[i], all[j])
    BY DEF Ascending
  <2>2. /\ n + k + i \in DOMAIN J /\ n + k + j \in DOMAIN J
        /\ n < n + k + i /\ n + k + i < n + k + j
    BY <1>18, <2>1
  <2>3. Before(J[n + k + i], J[n + k + j])
    BY <1>20, <2>2 DEF Ascending
  <2>4. QED
    BY <1>19, <2>3 DEF Before
<1>23. ASSUME Tidy(repo), old.manifest = Len(repo) PROVE Follows(all, 0, repo)
  <2>1. Follows(noted, 0, repo)
    BY <1>2, <1>3, <1>23 DEF SegmentNumbered
  <2>2. SUFFICES ASSUME NEW i \in DOMAIN all, NEW h \in DOMAIN Past(repo)
                 PROVE  Before(Past(repo)[h], all[i])
    BY DEF Follows, AllBefore
  <2>3. 1 \in DOMAIN noted /\ 1 \in 1..m /\ 1 \in 1..k
    BY <1>12, <1>13
  <2>4. Before(Past(repo)[h], noted[1])
    BY <2>1, <2>3 DEF Follows, AllBefore
  <2>5. covered[1] = noted[1]
    BY <1>13, <2>3
  <2>6. n + 1 \in DOMAIN J /\ noted[1] = Identity(J[n + 1])
    BY <1>11, <2>3, <2>5
  <2>7. /\ n + k + i \in DOMAIN J /\ n < n + 1 /\ n + 1 < n + k + i
    BY <1>18
  <2>8. Before(J[n + 1], J[n + k + i])
    BY <1>20, <2>6, <2>7 DEF Ascending
  <2>9. /\ Past(repo)[h].actor \in Nat /\ Past(repo)[h].seq \in Nat
        /\ J[n + 1].actor \in Nat /\ J[n + 1].seq \in Nat
        /\ noted[1].actor = J[n + 1].actor /\ noted[1].seq = J[n + 1].seq
    BY <2>6, PastType, EntryFacts DEF TypeOK, Identity
  <2>10. J[n + k + i].actor = all[i].actor /\ J[n + k + i].seq = all[i].seq
         /\ all[i].actor \in Nat /\ all[i].seq \in Nat
    BY <1>19
  <2>11. PICK x, y, z, w : /\ x = Past(repo)[h] /\ y = noted[1]
                           /\ z = J[n + 1] /\ w = J[n + k + i]
    OBVIOUS
  <2>12. /\ Before(x, y) /\ Before(z, w) /\ y.actor = z.actor /\ y.seq = z.seq
         /\ x.actor \in Nat /\ x.seq \in Nat /\ z.actor \in Nat /\ z.seq \in Nat
         /\ w.actor = all[i].actor /\ w.seq = all[i].seq
         /\ all[i].actor \in Nat /\ all[i].seq \in Nat
    BY <2>4, <2>8, <2>9, <2>10, <2>11
  <2>13. Before(x, all[i])
    BY <2>12 DEF Before
  <2>14. QED
    BY <2>11, <2>13
<1>24. /\ grown.frames = all /\ grown.noted = old.noted /\ grown.manifest = old.manifest
       /\ grown.next = old.next /\ grown.nextOp = old.nextOp /\ grown \in Segments
  BY <1>2, <1>3, <1>16 DEF Segments
<1>25. SegmentNumbered(grown, repo, process)
  BY <1>2, <1>21, <1>22, <1>23, <1>24 DEF SegmentNumbered
<1>26. Identities(added) \in Seq(EntryIds)
  BY <1>15, IdentitiesProps
<1>27. Identities(all) = Identities(frames) \o Identities(added)
  BY <1>15, <1>16, IdentitiesConcat
<1>28. covered \o Identities(added) = noted \o Identities(all)
       /\ covered \o Identities(added) \in Seq(EntryIds)
  <2>1. (noted \o Identities(frames)) \o Identities(added)
            = noted \o (Identities(frames) \o Identities(added))
    <3>1. PICK u \in Seq(EntryIds), v \in Seq(EntryIds) :
              u = Identities(frames) /\ v = Identities(added)
      BY <1>6, <1>26
    <3>2. (noted \o u) \o v = noted \o (u \o v)
      BY IdsAssociative, Zenon
    <3>3. QED
      BY <3>1, <3>2
  <2>2. covered \o Identities(added) \in Seq(EntryIds)
    BY <1>26, ConcatProps
  <2>3. QED
    BY <1>13, <1>27, <2>1, <2>2
<1>29. QED
  BY <1>1, <1>2, <1>3, <1>5, <1>15, <1>24, <1>25, <1>26, <1>28
-----------------------------------------------------------------------------
(* The inductive invariant: it holds initially, and every action keeps it. *)

\* Nothing is open at first, nothing kept and nothing committed.
LEMMA InitInv == Init => IInv
<1> SUFFICES ASSUME Init PROVE IInv
  OBVIOUS
<1>1. /\ app = [NoDocument EXCEPT !.open = TRUE] /\ cursor = None /\ offers = {}
      /\ segments = [s \in Ids |-> None] /\ repo = <<>> /\ pc = "rest"
      /\ previous = None /\ process = 1 /\ edits = 0 /\ faults = 0
      /\ rest = None /\ blame = {}
  BY DEF Init
<1>2. PICK a : a = app
  OBVIOUS
<1>3. /\ a.open = TRUE /\ a.content = {} /\ a.journal = <<>> /\ a.saved = 0
      /\ a.manifest = 0 /\ a.next = 1 /\ a.undo = <<>> /\ a.redo = <<>>
      /\ a.nextOp = 1 /\ a.inverses = {} /\ a \in Apps
  <2>1. a = [open |-> TRUE, content |-> {}, journal |-> <<>>, saved |-> 0,
             manifest |-> 0, next |-> 1, nextOp |-> 1, undo |-> <<>>,
             redo |-> <<>>, inverses |-> {}, recovered |-> FALSE,
             lost |-> FALSE, reused |-> FALSE, half |-> FALSE]
    BY <1>1, <1>2 DEF NoDocument
  <2>2. /\ {} \in Documents /\ <<>> \in Seq(Entries) /\ <<>> \in Seq(Checkpoints)
        /\ 0 \in 0..MaxCommits /\ 1 \in Nat \ {0}
    BY LocalSessionAssumption DEF Documents
  <2>3. QED
    BY <2>1, <2>2 DEF Apps
<1>4. /\ Len(<<>>) = 0 /\ DOMAIN <<>> = {} /\ <<>> \in Seq(Commits) /\ Past(<<>>) = <<>>
  BY DEF Past
<1>5. TypeOK
  <2>1. 1 \in Processes /\ 0 \in 0..MaxEdits /\ 0 \in 0..MaxFaults /\ 0 <= MaxCommits
    BY LocalSessionAssumption DEF Processes
  <2>2. app.saved <= Len(app.journal) /\ app.manifest <= Len(repo)
    BY <1>1, <1>2, <1>3, <1>4
  <2>3. QED
    BY <1>1, <1>2, <1>3, <1>4, <2>1, <2>2 DEF TypeOK
<1>6. Numbered(a, <<>>, 1)
  BY <1>3, <1>4 DEF Numbered, AllBefore, Ascending, Follows, UniqueEnvelopes
<1>7. SessionNumbered
  BY <1>1, <1>2, <1>3, <1>4, <1>6 DEF SessionNumbered, StackNumbered
<1>8. SegmentsNumbered /\ CursorCovers /\ PreviousIsAnother
  BY <1>1 DEF SegmentsNumbered, CursorCovers, PreviousIsAnother
<1>9. HistoryNumbered
  BY <1>1, <1>4 DEF HistoryNumbered, UniqueEnvelopes
<1>10. BlamelessIsAtHead /\ CleanMeansSaved
  BY <1>1, <1>2, <1>3, <1>4 DEF BlamelessIsAtHead, CleanMeansSaved
<1>11. QED
  BY <1>5, <1>7, <1>8, <1>9, <1>10 DEF IInv

\* What an action that touches the session only has to show.
LEMMA SessionChanges ==
  ASSUME IInv, app' \in Apps, Numbered(app', repo, process),
         StacksNumbered(app', repo, process),
         pc' \in {"rest", "warned", "sync"}, edits' \in 0..MaxEdits,
         rest' \in Documents \cup {None}, blame' \subseteq {"undo", "recovery", "lookup", "open"},
         BlamelessIsAtHead', CleanMeansSaved',
         UNCHANGED <<cursor, offers, segments, repo, previous, process, faults>>
  PROVE  IInv'
<1>1. TypeOK'
  BY DEF IInv, TypeOK, Numbered
<1>2. SessionNumbered'
  BY DEF SessionNumbered, StacksNumbered
<1>3. SegmentsNumbered' /\ HistoryNumbered' /\ CursorCovers' /\ PreviousIsAnother'
  BY DEF IInv, SegmentsNumbered, HistoryNumbered, CursorCovers, PreviousIsAnother
<1>4. QED
  BY <1>1, <1>2, <1>3 DEF IInv

\* An edit is a checkpoint and an envelope, and leaves the session dirty.
LEMMA EditInv == ASSUME IInv, NEW type \in {"doc", "fixed", "sheet"}, Edit(type) PROVE IInv'
<1>1. /\ app \in Apps /\ process \in Processes /\ repo \in Seq(Commits)
      /\ Numbered(app, repo, process) /\ StacksNumbered(app, repo, process)
  BY DEF IInv, TypeOK, SessionNumbered, StacksNumbered
<1>2. PICK a : a = Closed(app)
  OBVIOUS
<1>3. PICK c : c = CheckpointOf(app)
  OBVIOUS
<1>4. PICK stepped : stepped = [a EXCEPT !.undo = Append(@, c), !.redo = <<>>]
  OBVIOUS
<1>5. PICK changes : changes = <<[put |-> {<<type, edits + 1>>}, cut |-> {}]>>
  OBVIOUS
<1>6. PICK kind \in Kinds : app' = Minted(stepped, kind, changes)
  <2>1. PICK kind : kind = IF type = "sheet" THEN "sheet" ELSE "document"
    OBVIOUS
  <2>2. app' = Minted(stepped, kind, changes) /\ kind \in Kinds
    BY <1>2, <1>3, <1>4, <1>5, <2>1 DEF Edit, Kinds
  <2>3. QED
    BY <2>2
<1>7. SameButStacks(a, app) /\ StacksNumbered(a, repo, process)
  BY <1>1, <1>2, ClosedProps
<1>8. c \in Checkpoints /\ Numbered(c, repo, process)
  BY <1>1, <1>3, CheckpointProps, NumberedSame
<1>9. stepped \in Apps /\ SameNumbering(stepped, app) /\ StacksNumbered(stepped, repo, process)
  <2>1. a \in Apps /\ a.undo \in Seq(Checkpoints)
    BY <1>7 DEF SameButStacks, Apps
  <2>2. PICK u : u = Append(a.undo, c)
    OBVIOUS
  <2>3. u \in Seq(Checkpoints) /\ StackNumbered(u, repo, process)
    BY <1>7, <1>8, <2>1, <2>2, StackAppended DEF StacksNumbered
  <2>4. stepped = [a EXCEPT !.undo = u, !.redo = <<>>]
    BY <1>4, <2>1, <2>2 DEF Apps
  <2>5. <<>> \in Seq(Checkpoints) /\ StackNumbered(<<>>, repo, process)
    BY DEF StackNumbered
  <2>6. stepped \in Apps
    BY <2>1, <2>3, <2>4, <2>5 DEF Apps
  <2>7. /\ stepped.undo = u /\ stepped.redo = <<>> /\ SameNumbering(stepped, a)
    BY <2>1, <2>4 DEF Apps, SameNumbering
  <2>8. QED
    BY <1>7, <2>3, <2>5, <2>6, <2>7 DEF SameButStacks, SameNumbering, StacksNumbered
<1>10. changes \in Seq(Changes) /\ Len(changes) = 1
  <2>1. edits \in 0..MaxEdits /\ edits < MaxEdits
    BY DEF IInv, TypeOK, Edit
  <2>2. edits + 1 \in 1..MaxEdits
    BY <2>1, LocalSessionAssumption
  <2>3. [put |-> {<<type, edits + 1>>}, cut |-> {}] \in Changes
    BY <2>2 DEF Changes, Documents, Edits
  <2>4. QED
    BY <1>5, <2>3
<1>11. MintedFrom(app', stepped, changes, process)
  BY <1>1, <1>6, <1>9, <1>10, MintedProps
<1>12. Numbered(app', repo, process) /\ StacksNumbered(app', repo, process) /\ app' \in Apps
  <2>1. Numbered(app', repo, process)
    BY <1>1, <1>9, <1>10, <1>11, NumberedSame, MintedNumbered
  <2>2. QED
    BY <1>9, <1>11, <2>1 DEF MintedFrom, StacksNumbered
<1>13. Dirty(app')
  <2>1. app'.saved = stepped.saved /\ Len(app'.journal) = Len(stepped.journal) + 1
    BY <1>10, <1>11 DEF MintedFrom
  <2>2. stepped.saved <= Len(stepped.journal)
    BY <1>1, <1>9, NumberedSame DEF Numbered
  <2>3. stepped.saved \in Nat /\ Len(stepped.journal) \in Nat
    BY <1>9 DEF Apps
  <2>4. QED
    BY <2>1, <2>2, <2>3 DEF Dirty
<1>14. CleanMeansSaved'
  BY <1>13 DEF CleanMeansSaved
<1>15. BlamelessIsAtHead'
  <2>1. app'.manifest = app.manifest
    BY <1>9, <1>11 DEF MintedFrom, SameNumbering
  <2>2. app.open /\ blame' = blame /\ repo' = repo
    BY DEF Edit
  <2>3. QED
    BY <2>1, <2>2 DEF IInv, BlamelessIsAtHead
<1>16. /\ pc' = "sync" /\ edits' \in 0..MaxEdits /\ rest' = rest /\ blame' = blame
       /\ UNCHANGED <<cursor, offers, segments, repo, previous, process, faults>>
  BY LocalSessionAssumption DEF Edit, Done, IInv, TypeOK
<1>17. /\ rest' \in Documents \cup {None}
       /\ blame' \subseteq {"undo", "recovery", "lookup", "open"}
  BY <1>16 DEF IInv, TypeOK
<1>18. QED
  BY <1>12, <1>14, <1>15, <1>16, <1>17, SessionChanges

\* An undo or redo that does something leaves the session dirty; one that leads
\* to another manifest takes the blame.
LEMMA StepInv == ASSUME IInv, NEW verb \in {"undo", "redo"}, Step(verb) PROVE IInv'
<1>1. /\ app \in Apps /\ process \in Processes /\ repo \in Seq(Commits)
      /\ Numbered(app, repo, process) /\ StacksNumbered(app, repo, process)
  BY DEF IInv, TypeOK, SessionNumbered, StacksNumbered
<1>2. PICK m : m = Stepped(app, verb)
  OBVIOUS
<1>3. /\ m \in Apps /\ Numbered(m, repo, process) /\ StacksNumbered(m, repo, process)
      /\ m.open = app.open /\ m.recovered = app.recovered
      /\ Dirty(m) \/ (m.content = app.content /\ ~Dirty(app))
  BY <1>1, <1>2, SteppedProps DEF Step
<1>4. PICK lost \in BOOLEAN :
          lost = (m.lost \/ \E e \in app.content \ m.content : e[1] = "fixed")
  BY <1>3 DEF Apps
<1>5. app' = [m EXCEPT !.lost = lost]
  BY <1>2, <1>3, <1>4 DEF Step, Apps
<1>6. /\ app' \in Apps /\ SameNumbering(app', m) /\ app'.undo = m.undo /\ app'.redo = m.redo
      /\ app'.open = app.open /\ app'.recovered = app.recovered /\ app'.content = m.content
  BY <1>3, <1>5 DEF Apps, SameNumbering
<1>7. Numbered(app', repo, process) /\ StacksNumbered(app', repo, process)
  BY <1>3, <1>6, NumberedSame DEF StacksNumbered
<1>8. /\ pc' = "sync" /\ edits' = edits /\ rest' = rest /\ app.open
      /\ blame' = IF app'.manifest # app.manifest THEN blame \cup {"undo"} ELSE blame
      /\ UNCHANGED <<cursor, offers, segments, repo, previous, process, faults>>
  BY DEF Step, Done
<1>9. BlamelessIsAtHead'
  BY <1>8 DEF IInv, BlamelessIsAtHead
<1>10. CleanMeansSaved'
  <2>1. SUFFICES ASSUME ~Dirty(app'), ~app.recovered
                 PROVE  IF repo = <<>> THEN app'.content = {}
                        ELSE app'.content = Last(repo).content
    BY <1>6, <1>8 DEF CleanMeansSaved
  <2>2. ~Dirty(m)
    BY <1>6, <2>1 DEF Dirty, SameNumbering
  <2>3. ~Dirty(app) /\ app'.content = app.content
    BY <1>3, <1>6, <2>2
  <2>4. QED
    BY <1>8, <2>1, <2>3 DEF IInv, CleanMeansSaved
<1>11. QED
  BY <1>6, <1>7, <1>8, <1>9, <1>10, SessionChanges DEF IInv, TypeOK

\* Whatever names a commit still names one when another is on top.
LEMMA CommitInv ==
  ASSUME IInv, NEW c, Accepted(app),
         c = [content |-> app.content, history |-> History \o Pending(app),
              behind |-> Behind(app)]
  PROVE  /\ c \in Commits /\ Append(repo, c) \in Seq(Commits)
         /\ Len(Append(repo, c)) = Len(repo) + 1
         /\ Append(repo, c) # <<>> /\ Last(Append(repo, c)) = c
         /\ Past(Append(repo, c)) = c.history
         /\ \A i \in DOMAIN c.history : c.history[i].actor <= process
         /\ Tidy(Append(repo, c)) => Tidy(repo) /\ ~c.behind
         /\ Tidy(Append(repo, c)) =>
                UniqueEnvelopes(c.history) /\ AllBefore(c.history, Upcoming(app.next, process))
         /\ Numbered(app, Append(repo, c), process)
         /\ StacksNumbered(app, Append(repo, c), process)
         /\ \A s \in Ids : segments[s] # None =>
                SegmentNumbered(segments[s], Append(repo, c), process)
<1>1. /\ c \in Commits
      /\ \A i \in DOMAIN c.history : c.history[i].actor <= process
      /\ Tidy(repo) => UniqueEnvelopes(c.history)
      /\ Tidy(repo) /\ ~c.behind => AllBefore(c.history, Upcoming(app.next, process))
  BY SavedNumbering DEF IInv
<1>2. app \in Apps /\ repo \in Seq(Commits) /\ app.manifest \in Nat
  BY DEF IInv, TypeOK, Apps
<1>3. /\ Append(repo, c) \in Seq(Commits) /\ Len(Append(repo, c)) = Len(repo) + 1
      /\ Past(Append(repo, c)) = c.history /\ Last(Append(repo, c)) = c
      /\ Append(repo, c) # <<>>
      /\ Tidy(Append(repo, c)) => Tidy(repo) /\ ~c.behind
  BY <1>1, <1>2, RepoGrows
<1>4. Numbered(app, Append(repo, c), process)
  BY <1>1, <1>2, NumberedGrows DEF IInv, SessionNumbered
<1>5. StacksNumbered(app, Append(repo, c), process)
  BY <1>1, <1>2, StacksGrow DEF IInv, SessionNumbered, StacksNumbered
<1>6. ASSUME NEW s \in Ids, segments[s] # None
      PROVE  SegmentNumbered(segments[s], Append(repo, c), process)
  <2>1. segments[s] \in Segments /\ SegmentNumbered(segments[s], repo, process)
    BY <1>6 DEF IInv, TypeOK, SegmentsNumbered
  <2>2. segments[s].manifest \in Nat
    BY <2>1 DEF Segments
  <2>3. QED
    BY <1>1, <1>2, <2>1, <2>2, SegmentGrows
<1>7. QED
  BY <1>1, <1>3, <1>4, <1>5, <1>6

\* A save: nothing is left unsaved, and the journal is all of the history that
\* is this session's.
LEMMA SaveInv == ASSUME IInv, Save PROVE IInv'
<1>1. PICK c : c = [content |-> app.content, history |-> History \o Pending(app),
                    behind |-> Behind(app)]
  OBVIOUS
<1>2. PICK r : r = Append(repo, c)
  OBVIOUS
<1>3. /\ repo' = r /\ Accepted(app) /\ Len(repo) < MaxCommits /\ app.open
      /\ rest' = app.content /\ blame' = {} /\ pc' = "sync"
      /\ app' = [app EXCEPT !.saved = Len(app.journal), !.manifest = Len(repo) + 1,
                            !.recovered = FALSE]
      /\ UNCHANGED <<cursor, offers, segments, previous, process, edits, faults>>
  BY <1>1, <1>2 DEF Save, Commit, Done
<1>4. /\ c \in Commits /\ r \in Seq(Commits) /\ Len(r) = Len(repo) + 1 /\ r # <<>>
      /\ Last(r) = c /\ Past(r) = c.history
      /\ \A i \in DOMAIN c.history : c.history[i].actor <= process
      /\ Tidy(r) => UniqueEnvelopes(c.history) /\ AllBefore(c.history, Upcoming(app.next, process))
      /\ Numbered(app, r, process) /\ StacksNumbered(app, r, process)
      /\ \A s \in Ids : segments[s] # None => SegmentNumbered(segments[s], r, process)
  BY <1>1, <1>2, <1>3, CommitInv
<1>5. app \in Apps /\ repo \in Seq(Commits) /\ Len(repo) \in Nat /\ Len(app.journal) \in Nat
  BY DEF IInv, TypeOK, Apps
<1>6. /\ app' \in Apps /\ app'.journal = app.journal /\ app'.saved = Len(app.journal)
      /\ app'.manifest = Len(r) /\ app'.next = app.next /\ app'.open /\ ~app'.recovered
      /\ app'.undo = app.undo /\ app'.redo = app.redo /\ app'.content = app.content
  <2>1. Len(repo) + 1 \in 0..MaxCommits
    BY <1>3, <1>5, LocalSessionAssumption
  <2>2. QED
    BY <1>3, <1>4, <1>5, <2>1 DEF Apps
<1>7. Numbered(app', r, process)
  <2>1. \A i \in DOMAIN app.journal : ~(Len(app.journal) < i)
    BY <1>5 DEF Apps
  <2>2. /\ Ascending(app.journal, Len(app.journal))
        /\ Follows(app.journal, Len(app.journal), r)
    BY <2>1 DEF Ascending, Follows
  <2>3. Len(app.journal) <= Len(app.journal) /\ Len(r) <= Len(r)
    BY <1>4, <1>5
  <2>4. /\ AllBefore(app.journal, Upcoming(app.next, process))
        /\ Tidy(r) => UniqueEnvelopes(app.journal)
    BY <1>4 DEF Numbered
  <2>5. Tidy(r) => AllBefore(Past(r), Upcoming(app.next, process))
    BY <1>4
  <2>6. QED
    BY <1>6, <2>2, <2>3, <2>4, <2>5 DEF Numbered
<1>8. TypeOK'
  <2>1. app'.saved <= Len(app'.journal) /\ app'.manifest <= Len(r) /\ Len(r) <= MaxCommits
    BY <1>3, <1>4, <1>5, <1>6, LocalSessionAssumption
  <2>2. rest' \in Documents \cup {None}
    BY <1>3, <1>5 DEF Apps
  <2>3. QED
    BY <1>3, <1>4, <1>6, <2>1, <2>2 DEF IInv, TypeOK
<1>9. SessionNumbered'
  BY <1>3, <1>4, <1>6, <1>7 DEF SessionNumbered, StacksNumbered
<1>10. SegmentsNumbered'
  BY <1>3, <1>4 DEF SegmentsNumbered
<1>11. HistoryNumbered'
  BY <1>3, <1>4 DEF HistoryNumbered
<1>12. CursorCovers' /\ PreviousIsAnother'
  BY <1>3 DEF IInv, CursorCovers, PreviousIsAnother
<1>13. BlamelessIsAtHead'
  BY <1>3, <1>6 DEF BlamelessIsAtHead
<1>14. CleanMeansSaved'
  BY <1>1, <1>3, <1>4, <1>6 DEF CleanMeansSaved
<1>15. QED
  BY <1>8, <1>9, <1>10, <1>11, <1>12, <1>13, <1>14 DEF IInv

\* A save whose lookup record cannot be written: the session is one behind its
\* own commit, and takes the blame.
LEMMA SaveHalfInv == ASSUME IInv, SaveHalf PROVE IInv'
<1>1. PICK c : c = [content |-> app.content, history |-> History \o Pending(app),
                    behind |-> Behind(app)]
  OBVIOUS
<1>2. PICK r : r = Append(repo, c)
  OBVIOUS
<1>3. /\ repo' = r /\ Accepted(app) /\ Len(repo) < MaxCommits
      /\ rest' = app.content /\ blame' = blame \cup {"lookup"} /\ faults < MaxFaults
      /\ faults' = faults + 1
      /\ UNCHANGED <<app, cursor, offers, segments, pc, previous, process, edits>>
  BY <1>1, <1>2 DEF SaveHalf, Commit
<1>4. /\ c \in Commits /\ r \in Seq(Commits) /\ Len(r) = Len(repo) + 1 /\ r # <<>>
      /\ Last(r) = c /\ Past(r) = c.history
      /\ \A i \in DOMAIN c.history : c.history[i].actor <= process
      /\ Tidy(r) => UniqueEnvelopes(c.history)
      /\ Numbered(app, r, process) /\ StacksNumbered(app, r, process)
      /\ \A s \in Ids : segments[s] # None => SegmentNumbered(segments[s], r, process)
  BY <1>1, <1>2, <1>3, CommitInv
<1>5. TypeOK'
  <2>1. /\ app \in Apps /\ app.manifest \in Nat /\ app.manifest <= Len(repo)
        /\ Len(repo) \in Nat /\ faults \in 0..MaxFaults
    BY DEF IInv, TypeOK, Apps
  <2>2. /\ app.manifest <= Len(r) /\ Len(r) <= MaxCommits /\ faults' \in 0..MaxFaults
        /\ rest' \in Documents \cup {None}
    BY <1>3, <1>4, <2>1, LocalSessionAssumption DEF Apps
  <2>3. QED
    BY <1>3, <1>4, <2>2 DEF IInv, TypeOK
<1>6. SessionNumbered'
  BY <1>3, <1>4 DEF SessionNumbered, StacksNumbered
<1>7. SegmentsNumbered'
  BY <1>3, <1>4 DEF SegmentsNumbered
<1>8. HistoryNumbered'
  BY <1>3, <1>4 DEF HistoryNumbered
<1>9. CursorCovers' /\ PreviousIsAnother'
  BY <1>3 DEF IInv, CursorCovers, PreviousIsAnother
<1>10. BlamelessIsAtHead'
  BY <1>3 DEF BlamelessIsAtHead
<1>11. CleanMeansSaved'
  BY <1>1, <1>3, <1>4 DEF CleanMeansSaved
<1>12. QED
  BY <1>5, <1>6, <1>7, <1>8, <1>9, <1>10, <1>11 DEF IInv

\* With nothing open there is nothing to number.
LEMMA NothingOpen ==
  ASSUME NEW r \in Seq(Commits), NEW p
  PROVE  /\ NoDocument \in Apps /\ ~NoDocument.open
         /\ Numbered(NoDocument, r, p) /\ StacksNumbered(NoDocument, r, p)
<1>1. PICK a : a = NoDocument
  OBVIOUS
<1>2. a = [open |-> FALSE, content |-> {}, journal |-> <<>>, saved |-> 0,
           manifest |-> 0, next |-> 1, nextOp |-> 1, undo |-> <<>>,
           redo |-> <<>>, inverses |-> {}, recovered |-> FALSE,
           lost |-> FALSE, reused |-> FALSE, half |-> FALSE]
  BY <1>1 DEF NoDocument
<1>3. /\ a.journal = <<>> /\ a.saved = 0 /\ a.manifest = 0 /\ a.undo = <<>> /\ a.redo = <<>>
      /\ ~a.open
  BY <1>2
<1>4. a \in Apps
  <2>1. /\ {} \in Documents /\ <<>> \in Seq(Entries) /\ <<>> \in Seq(Checkpoints)
        /\ 0 \in 0..MaxCommits /\ 1 \in Nat \ {0}
    BY LocalSessionAssumption DEF Documents
  <2>2. QED
    BY <1>2, <2>1 DEF Apps
<1>5. DOMAIN <<>> = {} /\ Len(<<>>) = 0 /\ Len(r) \in Nat
  OBVIOUS
<1>6. Len(r) = 0 => Past(r) = <<>>
  BY DEF Past
<1>7. Numbered(a, r, p)
  BY <1>3, <1>5, <1>6 DEF Numbered, AllBefore, Ascending, Follows, UniqueEnvelopes
<1>8. StacksNumbered(a, r, p)
  BY <1>3, <1>5 DEF StacksNumbered, StackNumbered
<1>9. QED
  BY <1>1, <1>3, <1>4, <1>7, <1>8

\* What is opened is the head, all of it saved.
LEMMA OpenInv == ASSUME IInv, Open PROVE IInv'
<1>1. /\ app \in Apps /\ repo \in Seq(Commits) /\ process \in Processes
      /\ Len(repo) <= MaxCommits /\ Len(repo) \in Nat
  BY DEF IInv, TypeOK
<1>2. /\ repo # <<>> /\ blame' = {} /\ pc' = "sync"
      /\ rest' = (IF app.open THEN None ELSE rest)
      /\ app' = [NoDocument EXCEPT !.open = TRUE,
                                   !.content = Last(repo).content,
                                   !.journal = History,
                                   !.saved = Len(History),
                                   !.manifest = Len(repo),
                                   !.next = Rebased(History, app.next),
                                   !.nextOp = RebasedOp(History, app.nextOp),
                                   !.inverses = app.inverses]
      /\ UNCHANGED <<cursor, offers, segments, repo, previous, process, edits, faults>>
  BY DEF Open, Done
<1>3. PICK h \in Seq(Entries) : h = History
  BY <1>1, PastType DEF History, Past
<1>4. Last(repo).content \in Documents
  <2>1. Last(repo) \in Commits
    BY <1>1, <1>2, FrontAndLast
  <2>2. QED
    BY <2>1 DEF Commits
<1>5. /\ app.next \in Nat \ {0} /\ app.nextOp \in Nat \ {0}
      /\ app.inverses \in SUBSET Inversions
  BY <1>1 DEF Apps
<1>6. PICK n \in Nat \ {0}, o \in Nat \ {0} :
          n = Rebased(History, app.next) /\ o = RebasedOp(History, app.nextOp)
  BY <1>3, <1>5, RebasedProps, RebasedOpProps
<1>7. app' = [open |-> TRUE, content |-> Last(repo).content, journal |-> h,
              saved |-> Len(h), manifest |-> Len(repo), next |-> n, nextOp |-> o,
              undo |-> <<>>, redo |-> <<>>, inverses |-> app.inverses,
              recovered |-> FALSE, lost |-> FALSE, reused |-> FALSE, half |-> FALSE]
  BY <1>2, <1>3, <1>6 DEF NoDocument
<1>8. app' \in Apps
  <2>1. /\ Len(h) \in Nat /\ Len(repo) \in 0..MaxCommits /\ <<>> \in Seq(Checkpoints)
    BY <1>1, LocalSessionAssumption
  <2>2. QED
    BY <1>4, <1>5, <1>7, <2>1 DEF Apps
<1>9. /\ app'.journal = History /\ app'.saved = Len(History) /\ app'.manifest = Len(repo)
      /\ app'.next = Rebased(History, app.next) /\ app'.undo = <<>> /\ app'.redo = <<>>
      /\ app'.content = Last(repo).content
  BY <1>3, <1>6, <1>7
<1>10. Numbered(app', repo, process)
  BY <1>5, <1>9, OpenedNumbering DEF IInv
<1>11. StacksNumbered(app', repo, process)
  BY <1>9 DEF StacksNumbered, StackNumbered
<1>12. BlamelessIsAtHead' /\ CleanMeansSaved'
  BY <1>2, <1>9 DEF BlamelessIsAtHead, CleanMeansSaved
<1>13. edits' \in 0..MaxEdits /\ rest' \in Documents \cup {None}
  BY <1>2 DEF IInv, TypeOK
<1>14. QED
  BY <1>2, <1>8, <1>10, <1>11, <1>12, <1>13, SessionChanges

\* An open that fails half way: the head's document, the old manifest and stacks.
LEMMA OpenedHalf ==
  ASSUME IInv, OpenHalf
  PROVE  /\ app' \in Apps /\ Numbered(app', repo, process)
         /\ StacksNumbered(app', repo, process)
         /\ app'.undo = app.undo /\ app'.redo = app.redo
         /\ app'.content = Last(repo).content /\ app'.manifest = app.manifest
         /\ app'.journal = History /\ app'.saved = Len(History)
         /\ app'.half = (app.half \/ app.undo # <<>> \/ app.redo # <<>>)
         /\ ~app'.recovered /\ repo # <<>>
<1>1. /\ app \in Apps /\ repo \in Seq(Commits) /\ process \in Processes
      /\ Numbered(app, repo, process) /\ StacksNumbered(app, repo, process)
  BY DEF IInv, TypeOK, SessionNumbered, StacksNumbered
<1>2. PICK a : a = app'
  OBVIOUS
<1>3. /\ repo # <<>>
      /\ a = [app EXCEPT !.open = TRUE,
                         !.content = Last(repo).content,
                         !.journal = History,
                         !.saved = Len(History),
                         !.next = Rebased(History, @),
                         !.nextOp = RebasedOp(History, @),
                         !.recovered = FALSE,
                         !.half = @ \/ app.undo # <<>> \/ app.redo # <<>>]
  BY <1>2 DEF OpenHalf
<1>4. PICK h \in Seq(Entries) : h = History
  BY <1>1, PastType DEF History, Past
<1>5. Last(repo).content \in Documents
  <2>1. Last(repo) \in Commits
    BY <1>1, <1>3, FrontAndLast
  <2>2. QED
    BY <2>1 DEF Commits
<1>6. app.next \in Nat \ {0} /\ app.nextOp \in Nat \ {0}
  BY <1>1 DEF Apps
<1>7. PICK n \in Nat \ {0}, o \in Nat \ {0} :
          n = Rebased(History, app.next) /\ o = RebasedOp(History, app.nextOp)
  BY <1>4, <1>6, RebasedProps, RebasedOpProps
<1>8. PICK half \in BOOLEAN : half = (app.half \/ app.undo # <<>> \/ app.redo # <<>>)
  BY <1>1 DEF Apps
<1>9. a = [app EXCEPT !.open = TRUE, !.content = Last(repo).content, !.journal = h,
                      !.saved = Len(h), !.next = n, !.nextOp = o,
                      !.recovered = FALSE, !.half = half]
  BY <1>1, <1>3, <1>4, <1>7, <1>8 DEF Apps
<1>10. a \in Apps
  <2>1. Len(h) \in Nat
    BY <1>4
  <2>2. QED
    BY <1>1, <1>5, <1>9, <2>1 DEF Apps
<1>11. /\ a.journal = History /\ a.saved = Len(History) /\ a.next = Rebased(History, app.next)
       /\ a.manifest = app.manifest /\ a.undo = app.undo /\ a.redo = app.redo
       /\ a.content = Last(repo).content /\ ~a.recovered /\ a.half = half
  BY <1>1, <1>4, <1>7, <1>9 DEF Apps
<1>12. a.manifest <= Len(repo)
  BY <1>1, <1>11 DEF Numbered
<1>13. Numbered(a, repo, process)
  BY <1>6, <1>11, <1>12, OpenedNumbering DEF IInv
<1>14. StacksNumbered(a, repo, process)
  BY <1>1, <1>11 DEF StacksNumbered
<1>15. QED
  BY <1>2, <1>3, <1>8, <1>10, <1>11, <1>13, <1>14

\* The invariant after that.
LEMMA OpenHalfInv == ASSUME IInv, OpenHalf PROVE IInv'
<1>1. /\ faults < MaxFaults /\ faults' = faults + 1 /\ pc' = "warned"
      /\ rest' = (IF app.open THEN None ELSE rest)
      /\ blame' = (IF app.manifest = Len(repo) THEN {} ELSE {"open"})
      /\ cursor' = (IF cursor = None THEN None ELSE [cursor EXCEPT !.stray = TRUE])
      /\ UNCHANGED <<offers, segments, repo, previous, process, edits>>
  BY DEF OpenHalf
<1>2. /\ app' \in Apps /\ Numbered(app', repo, process)
      /\ StacksNumbered(app', repo, process)
      /\ app'.manifest = app.manifest /\ app'.content = Last(repo).content
      /\ repo # <<>>
  BY OpenedHalf
<1>3. /\ cursor' \in Cursors \cup {None} /\ (cursor' # None => cursor # None)
      /\ cursor' # None => /\ cursor'.session = cursor.session
                           /\ cursor'.covered = cursor.covered
  <2>1. cursor \in Cursors \cup {None}
    BY DEF IInv, TypeOK
  <2>2. QED
    BY <1>1, <2>1 DEF Cursors
<1>4. TypeOK'
  <2>1. faults' \in 0..MaxFaults
    BY <1>1, LocalSessionAssumption DEF IInv, TypeOK
  <2>2. app'.saved <= Len(app'.journal) /\ app'.manifest <= Len(repo)
    BY <1>2 DEF Numbered
  <2>3. QED
    BY <1>1, <1>2, <1>3, <2>1, <2>2 DEF IInv, TypeOK
<1>5. SessionNumbered' /\ SegmentsNumbered' /\ HistoryNumbered'
  BY <1>1, <1>2 DEF IInv, SessionNumbered, StacksNumbered, SegmentsNumbered, HistoryNumbered
<1>6. CursorCovers'
  <2>1. SUFFICES ASSUME cursor' # None
                 PROVE  /\ cursor'.session \notin offers
                        /\ segments[cursor'.session] # None
                        /\ cursor'.covered = segments[cursor'.session].noted
                                \o Identities(segments[cursor'.session].frames)
    BY <1>1 DEF CursorCovers
  <2>2. /\ cursor.session \notin offers /\ segments[cursor.session] # None
        /\ cursor.covered = segments[cursor.session].noted
                               \o Identities(segments[cursor.session].frames)
    BY <1>3, <2>1 DEF IInv, CursorCovers
  <2>3. cursor'.session = cursor.session /\ cursor'.covered = cursor.covered
    BY <1>3, <2>1
  <2>4. QED
    BY <2>2, <2>3
<1>7. PreviousIsAnother' /\ BlamelessIsAtHead' /\ CleanMeansSaved'
  BY <1>1, <1>2 DEF PreviousIsAnother, BlamelessIsAtHead, CleanMeansSaved
<1>8. QED
  BY <1>4, <1>5, <1>6, <1>7 DEF IInv

\* Closing leaves nothing open.
LEMMA CloseInv == ASSUME IInv, Close PROVE IInv'
<1>1. /\ app' = NoDocument /\ rest' = None /\ blame' = {} /\ pc' = "sync"
      /\ UNCHANGED <<cursor, offers, segments, repo, previous, process, edits, faults>>
  BY DEF Close, Done
<1>2. repo \in Seq(Commits) /\ edits \in 0..MaxEdits
  BY DEF IInv, TypeOK
<1>3. /\ app' \in Apps /\ ~app'.open
      /\ Numbered(app', repo, process) /\ StacksNumbered(app', repo, process)
  BY <1>1, <1>2, NothingOpen
<1>4. BlamelessIsAtHead' /\ CleanMeansSaved'
  BY <1>3 DEF BlamelessIsAtHead, CleanMeansSaved
<1>5. QED
  BY <1>1, <1>2, <1>3, <1>4, SessionChanges

\* A new process: nothing open, and a higher actor.
LEMMA RestartInv == ASSUME IInv, Restart PROVE IInv'
<1>1. /\ process < MaxProcesses /\ process' = process + 1 /\ app' = NoDocument
      /\ cursor' = None /\ offers' = Live /\ pc' = "rest" /\ previous' = None
      /\ blame' = {} /\ UNCHANGED <<segments, repo, edits, faults, rest>>
  BY DEF Restart
<1>2. repo \in Seq(Commits) /\ process \in Nat /\ process \in Processes
  BY DEF IInv, TypeOK, Processes
<1>3. /\ app' \in Apps /\ ~app'.open
      /\ Numbered(app', repo, process + 1) /\ StacksNumbered(app', repo, process + 1)
  BY <1>1, <1>2, NothingOpen
<1>4. process + 1 \in Processes
  BY <1>1, <1>2, LocalSessionAssumption DEF Processes
<1>5. TypeOK'
  <2>1. Live \subseteq Ids
    BY DEF Live
  <2>2. app'.saved <= Len(app'.journal) /\ app'.manifest <= Len(repo)
    BY <1>3 DEF Numbered
  <2>3. QED
    BY <1>1, <1>3, <1>4, <2>1, <2>2 DEF IInv, TypeOK
<1>6. SessionNumbered'
  BY <1>1, <1>3 DEF SessionNumbered, StacksNumbered
<1>7. SegmentsNumbered'
  <2>1. SUFFICES ASSUME NEW s \in Ids, segments[s] # None
                 PROVE  SegmentNumbered(segments[s], repo, process + 1)
    BY <1>1 DEF SegmentsNumbered
  <2>2. segments[s] \in Segments /\ SegmentNumbered(segments[s], repo, process)
    BY <2>1 DEF IInv, TypeOK, SegmentsNumbered
  <2>3. \A i \in DOMAIN Past(repo) : Past(repo)[i].actor <= process
    BY DEF IInv, HistoryNumbered
  <2>4. QED
    BY <1>2, <2>2, <2>3, SegmentOutlives
<1>8. HistoryNumbered'
  <2>1. \A i \in DOMAIN Past(repo) : Past(repo)[i].actor \in Nat
    BY <1>2, PastType, EntryFacts
  <2>2. QED
    BY <1>1, <1>2, <2>1 DEF IInv, HistoryNumbered
<1>9. CursorCovers' /\ PreviousIsAnother' /\ BlamelessIsAtHead' /\ CleanMeansSaved'
  BY <1>1, <1>3 DEF CursorCovers, PreviousIsAnother, BlamelessIsAtHead, CleanMeansSaved
<1>10. QED
  BY <1>5, <1>6, <1>7, <1>8, <1>9 DEF IInv

\* Removing a segment leaves the others as they were.
LEMMA SegmentRemoved ==
  ASSUME IInv, NEW s \in Ids, segments' = [segments EXCEPT ![s] = None],
         repo' = repo, process' = process
  PROVE  segments' \in [Ids -> Segments \cup {None}] /\ SegmentsNumbered'
<1>1. segments \in [Ids -> Segments \cup {None}]
  BY DEF IInv, TypeOK
<1>2. \A i \in Ids : segments'[i] # None => segments'[i] = segments[i]
  BY <1>1
<1>3. QED
  BY <1>1, <1>2 DEF IInv, SegmentsNumbered

\* What a segment is recovered to.
LEMMA RecoveredProps ==
  ASSUME IInv, NEW s \in Ids, segments[s] # None
  PROVE  /\ Recovered(segments[s]) \in Apps
         /\ Numbered(Recovered(segments[s]), repo, process)
         /\ StacksNumbered(Recovered(segments[s]), repo, process)
         /\ Recovered(segments[s]).recovered
         /\ Recovered(segments[s]).manifest = segments[s].manifest
<1>1. PICK g : g = segments[s]
  OBVIOUS
<1>2. PICK x : x = Recovered(g)
  OBVIOUS
<1>3. g \in Segments /\ SegmentNumbered(g, repo, process)
  BY <1>1 DEF IInv, TypeOK, SegmentsNumbered
<1>4. /\ g.frames \in Seq(Entries) /\ g.base \in Documents /\ g.next \in Nat \ {0}
      /\ g.manifest \in 0..MaxCommits /\ g.nextOp \in Nat \ {0}
      /\ app.inverses \in SUBSET Inversions
  BY <1>3 DEF Segments, IInv, TypeOK, Apps
<1>5. PICK content \in Documents : content = Replayed(g.base, g.frames)
  <2>1. \A e \in Entries : e.put \in Documents /\ e.cut \in Documents
    BY DEF Entries
  <2>2. QED
    BY <1>4, <2>1, ReplayedProps
<1>6. PICK n \in Nat \ {0}, o \in Nat \ {0} :
          n = RecoveredNext(g) /\ o = RecoveredNextOp(g)
  BY <1>4, RebasedProps, RebasedOpProps DEF RecoveredNext, RecoveredNextOp
<1>7. x = [open |-> TRUE, content |-> content, journal |-> g.frames, saved |-> 0,
           manifest |-> g.manifest, next |-> n, nextOp |-> o, undo |-> <<>>,
           redo |-> <<>>, inverses |-> app.inverses, recovered |-> TRUE,
           lost |-> FALSE, reused |-> FALSE, half |-> FALSE]
  BY <1>2, <1>5, <1>6 DEF Recovered, NoDocument
<1>8. <<>> \in Seq(Checkpoints)
  OBVIOUS
<1>9. x \in Apps
  BY <1>4, <1>7, <1>8 DEF Apps
<1>10. /\ x.journal = g.frames /\ x.saved = 0 /\ x.manifest = g.manifest
       /\ x.next = RecoveredNext(g) /\ x.undo = <<>> /\ x.redo = <<>> /\ x.recovered
  BY <1>6, <1>7
<1>11. Numbered(x, repo, process)
  BY <1>3, <1>10, RecoveredNumbering DEF IInv
<1>12. StacksNumbered(x, repo, process)
  BY <1>10 DEF StacksNumbered, StackNumbered
<1>13. QED
  BY <1>1, <1>2, <1>9, <1>10, <1>11, <1>12

\* A recovery: the segment becomes the session, and goes.
LEMMA RecoverInv == ASSUME IInv, NEW s \in Ids, Recover(s) PROVE IInv'
<1>1. /\ segments[s] # None /\ app' = Recovered(segments[s])
      /\ segments' = [segments EXCEPT ![s] = None] /\ cursor' = None
      /\ offers' = Live \ {s} /\ rest' = None /\ pc' = "sync"
      /\ blame' = (IF segments[s].manifest = Len(repo) THEN {} ELSE {"recovery"})
      /\ UNCHANGED <<repo, previous, process, edits, faults>>
  BY DEF Recover, Done
<1>2. /\ app' \in Apps /\ Numbered(app', repo, process)
      /\ StacksNumbered(app', repo, process)
      /\ app'.recovered /\ app'.manifest = segments[s].manifest
  BY <1>1, RecoveredProps
<1>3. segments' \in [Ids -> Segments \cup {None}] /\ SegmentsNumbered'
  BY <1>1, SegmentRemoved
<1>4. TypeOK'
  <2>1. offers' \subseteq Ids
    BY <1>1 DEF Live
  <2>2. app'.saved <= Len(app'.journal) /\ app'.manifest <= Len(repo)
    BY <1>2 DEF Numbered
  <2>3. QED
    BY <1>1, <1>2, <1>3, <2>1, <2>2 DEF IInv, TypeOK
<1>5. SessionNumbered' /\ HistoryNumbered'
  BY <1>1, <1>2 DEF IInv, SessionNumbered, StacksNumbered, HistoryNumbered
<1>6. CursorCovers' /\ PreviousIsAnother' /\ BlamelessIsAtHead' /\ CleanMeansSaved'
  BY <1>1, <1>2 DEF CursorCovers, PreviousIsAnother, BlamelessIsAtHead, CleanMeansSaved
<1>7. QED
  BY <1>3, <1>4, <1>5, <1>6 DEF IInv

\* A recovery whose segment cannot be removed: the cursor stays where it was.
LEMMA RecoverHalfInv == ASSUME IInv, NEW s \in Ids, RecoverHalf(s) PROVE IInv'
<1>1. /\ segments[s] # None /\ app' = Recovered(segments[s])
      /\ faults < MaxFaults /\ faults' = faults + 1 /\ rest' = None /\ pc' = "warned"
      /\ blame' = (IF segments[s].manifest = Len(repo) THEN {} ELSE {"recovery"})
      /\ cursor' = (IF cursor = None THEN None ELSE [cursor EXCEPT !.stray = TRUE])
      /\ UNCHANGED <<offers, segments, repo, previous, process, edits>>
  BY DEF RecoverHalf
<1>2. /\ app' \in Apps /\ Numbered(app', repo, process)
      /\ StacksNumbered(app', repo, process)
      /\ app'.recovered /\ app'.manifest = segments[s].manifest
  BY <1>1, RecoveredProps
<1>3. /\ cursor' \in Cursors \cup {None} /\ (cursor' # None => cursor # None)
      /\ cursor' # None => /\ cursor'.session = cursor.session
                           /\ cursor'.covered = cursor.covered
  <2>1. cursor \in Cursors \cup {None}
    BY DEF IInv, TypeOK
  <2>2. QED
    BY <1>1, <2>1 DEF Cursors
<1>4. TypeOK'
  <2>1. faults' \in 0..MaxFaults
    BY <1>1, LocalSessionAssumption DEF IInv, TypeOK
  <2>2. app'.saved <= Len(app'.journal) /\ app'.manifest <= Len(repo)
    BY <1>2 DEF Numbered
  <2>3. QED
    BY <1>1, <1>2, <1>3, <2>1, <2>2 DEF IInv, TypeOK
<1>5. SessionNumbered' /\ SegmentsNumbered' /\ HistoryNumbered'
  BY <1>1, <1>2 DEF IInv, SessionNumbered, StacksNumbered, SegmentsNumbered, HistoryNumbered
<1>6. CursorCovers'
  <2>1. SUFFICES ASSUME cursor' # None
                 PROVE  /\ cursor'.session \notin offers
                        /\ segments[cursor'.session] # None
                        /\ cursor'.covered = segments[cursor'.session].noted
                                \o Identities(segments[cursor'.session].frames)
    BY <1>1 DEF CursorCovers
  <2>2. /\ cursor.session \notin offers /\ segments[cursor.session] # None
        /\ cursor.covered = segments[cursor.session].noted
                               \o Identities(segments[cursor.session].frames)
    BY <1>3, <2>1 DEF IInv, CursorCovers
  <2>3. cursor'.session = cursor.session /\ cursor'.covered = cursor.covered
    BY <1>3, <2>1
  <2>4. QED
    BY <2>2, <2>3
<1>7. PreviousIsAnother' /\ BlamelessIsAtHead' /\ CleanMeansSaved'
  BY <1>1, <1>2 DEF PreviousIsAnother, BlamelessIsAtHead, CleanMeansSaved
<1>8. QED
  BY <1>4, <1>5, <1>6, <1>7 DEF IInv

\* What is discarded is never the segment that is being written: it is not offered.
LEMMA DiscardInv == ASSUME IInv, NEW s \in Ids, Discard(s) PROVE IInv'
<1>1. /\ s \in offers /\ segments' = [segments EXCEPT ![s] = None]
      /\ offers' = Live \ {s, IF cursor = None THEN s ELSE cursor.session}
      /\ rest' = (IF app.open /\ pc = "rest" THEN rest ELSE None) /\ pc' = "sync"
      /\ UNCHANGED <<app, cursor, repo, previous, process, edits, faults, blame>>
  BY DEF Discard, Done
<1>2. segments' \in [Ids -> Segments \cup {None}] /\ SegmentsNumbered'
  BY <1>1, SegmentRemoved
<1>3. TypeOK'
  <2>1. offers' \subseteq Ids
    BY <1>1 DEF Live
  <2>2. rest' \in Documents \cup {None}
    BY <1>1 DEF IInv, TypeOK
  <2>3. QED
    BY <1>1, <1>2, <2>1, <2>2 DEF IInv, TypeOK
<1>4. SessionNumbered' /\ HistoryNumbered' /\ BlamelessIsAtHead' /\ CleanMeansSaved'
  BY <1>1 DEF IInv, SessionNumbered, HistoryNumbered, BlamelessIsAtHead, CleanMeansSaved
<1>5. CursorCovers'
  <2>1. SUFFICES ASSUME cursor # None
                 PROVE  /\ cursor.session \notin offers'
                        /\ segments'[cursor.session] = segments[cursor.session]
    BY <1>1 DEF IInv, CursorCovers
  <2>2. cursor.session \in Ids /\ cursor.session # s
    BY <1>1, <2>1 DEF IInv, TypeOK, Cursors, CursorCovers
  <2>3. QED
    BY <1>1, <2>1, <2>2 DEF IInv, TypeOK
<1>6. PreviousIsAnother'
  BY <1>1 DEF PreviousIsAnother
<1>7. QED
  BY <1>2, <1>3, <1>4, <1>5, <1>6 DEF IInv
-----------------------------------------------------------------------------
(* The sync of the recovery journal leaves the session and the repository. *)

\* How a sync ends.
LEMMA SyncEnds ==
  ASSUME IInv, (Finish(app) /\ UNCHANGED faults) \/ (faults < MaxFaults /\ Warn)
  PROVE  /\ pc' \in {"rest", "warned"} /\ rest' \in Documents \cup {None}
         /\ faults' \in 0..MaxFaults
<1>1. /\ rest \in Documents \cup {None} /\ app.content \in Documents
      /\ faults \in 0..MaxFaults
  BY DEF IInv, TypeOK, Apps
<1>2. CASE Finish(app) /\ UNCHANGED faults
  BY <1>1, <1>2 DEF Finish
<1>3. CASE faults < MaxFaults /\ Warn
  BY <1>1, <1>3, LocalSessionAssumption DEF Warn
<1>4. QED
  BY <1>2, <1>3

\* What a sync has to show.
LEMMA SyncChanges ==
  ASSUME IInv, cursor' \in Cursors \cup {None},
         segments' \in [Ids -> Segments \cup {None}], SegmentsNumbered',
         CursorCovers', PreviousIsAnother',
         pc' \in {"rest", "warned", "sync", "replaced"}, previous' \in Ids \cup {None},
         faults' \in 0..MaxFaults, rest' \in Documents \cup {None},
         UNCHANGED <<app, offers, repo, process, edits, blame>>
  PROVE  IInv'
<1>1. TypeOK'
  BY DEF IInv, TypeOK
<1>2. SessionNumbered' /\ HistoryNumbered'
  BY DEF IInv, SessionNumbered, HistoryNumbered
<1>3. BlamelessIsAtHead' /\ CleanMeansSaved'
  BY DEF IInv, BlamelessIsAtHead, CleanMeansSaved
<1>4. QED
  BY <1>1, <1>2, <1>3 DEF IInv

\* The segment of a session that is clean goes, or is left to the next process.
LEMMA SyncRemoveInv == ASSUME IInv, SyncRemove PROVE IInv'
<1>1. /\ cursor # None /\ cursor' = None
      /\ UNCHANGED <<app, offers, repo, previous, process, edits, blame>>
      /\ (Finish(app) /\ UNCHANGED faults) \/ (faults < MaxFaults /\ Warn)
      /\ segments' = [segments EXCEPT ![cursor.session] = None] \/ segments' = segments
  BY DEF SyncRemove
<1>2. pc' \in {"rest", "warned"} /\ rest' \in Documents \cup {None} /\ faults' \in 0..MaxFaults
  BY <1>1, SyncEnds
<1>3. cursor.session \in Ids
  BY <1>1 DEF IInv, TypeOK, Cursors
<1>4. segments' \in [Ids -> Segments \cup {None}] /\ SegmentsNumbered'
  <2>1. CASE segments' = [segments EXCEPT ![cursor.session] = None]
    BY <1>1, <1>3, <2>1, SegmentRemoved
  <2>2. CASE segments' = segments
    BY <1>1, <2>2 DEF IInv, TypeOK, SegmentsNumbered
  <2>3. QED
    BY <1>1, <2>1, <2>2
<1>5. CursorCovers' /\ PreviousIsAnother'
  BY <1>1, <1>2 DEF CursorCovers, PreviousIsAnother
<1>6. previous' \in Ids \cup {None}
  BY <1>1 DEF IInv, TypeOK
<1>7. QED
  BY <1>1, <1>2, <1>4, <1>5, <1>6, SyncChanges

\* Nothing to do.
LEMMA SyncNothingInv == ASSUME IInv, SyncNothing PROVE IInv'
<1>1. /\ UNCHANGED <<app, cursor, offers, segments, repo, previous, process, edits,
                     faults, blame>>
      /\ Finish(app)
  BY DEF SyncNothing
<1>2. pc' \in {"rest", "warned"} /\ rest' \in Documents \cup {None} /\ faults' \in 0..MaxFaults
  BY <1>1, SyncEnds
<1>3. SegmentsNumbered' /\ CursorCovers' /\ PreviousIsAnother'
  BY <1>1, <1>2 DEF IInv, SegmentsNumbered, CursorCovers, PreviousIsAnother
<1>4. /\ cursor' \in Cursors \cup {None} /\ segments' \in [Ids -> Segments \cup {None}]
      /\ previous' \in Ids \cup {None}
  BY <1>1 DEF IInv, TypeOK
<1>5. QED
  BY <1>1, <1>2, <1>3, <1>4, SyncChanges

\* The segment of a session that has gone on gets what it has yet to hold.
LEMMA SyncAppendInv == ASSUME IInv, SyncAppend PROVE IInv'
<1>1. PICK added : added = Since(app, cursor.saved + Len(cursor.covered))
  OBVIOUS
<1>2. PICK old : old = segments[cursor.session]
  OBVIOUS
<1>3. PICK grown : grown = [old EXCEPT !.frames = @ \o added]
  OBVIOUS
<1>4. /\ IsCurrent /\ UNCHANGED <<app, offers, repo, previous, process, edits, blame>>
      /\ \/ /\ segments' = [segments EXCEPT ![cursor.session].frames = @ \o added]
            /\ cursor' = [cursor EXCEPT !.covered = @ \o Identities(added)]
            /\ Finish(app) /\ UNCHANGED faults
         \/ faults < MaxFaults /\ Warn /\ UNCHANGED segments
  BY <1>1 DEF SyncAppend
<1>5. /\ old \in Segments /\ grown \in Segments /\ SegmentNumbered(grown, repo, process)
      /\ cursor.covered \o Identities(added) \in Seq(EntryIds)
      /\ cursor.covered \o Identities(added) = grown.noted \o Identities(grown.frames)
  BY <1>1, <1>2, <1>3, <1>4, AppendedNumbering DEF IInv
<1>6. pc' \in {"rest", "warned"} /\ rest' \in Documents \cup {None} /\ faults' \in 0..MaxFaults
  BY <1>4, SyncEnds
<1>7. previous' \in Ids \cup {None} /\ PreviousIsAnother'
  BY <1>4, <1>6 DEF IInv, TypeOK, PreviousIsAnother
<1>8. CASE faults < MaxFaults /\ Warn /\ UNCHANGED segments
  <2>1. cursor' = None /\ segments' = segments
    BY <1>8 DEF Warn
  <2>2. /\ segments' \in [Ids -> Segments \cup {None}] /\ SegmentsNumbered'
        /\ CursorCovers'
    BY <1>4, <2>1 DEF IInv, TypeOK, SegmentsNumbered, CursorCovers
  <2>3. QED
    BY <1>4, <1>6, <1>7, <2>1, <2>2, SyncChanges
<1>9. CASE /\ segments' = [segments EXCEPT ![cursor.session].frames = @ \o added]
           /\ cursor' = [cursor EXCEPT !.covered = @ \o Identities(added)]
  <2>1. /\ cursor # None /\ cursor \in Cursors /\ cursor.session \in Ids
        /\ segments \in [Ids -> Segments \cup {None}]
    BY <1>4 DEF IsCurrent, IInv, TypeOK, Cursors
  <2>2. segments' = [segments EXCEPT ![cursor.session] = grown]
    BY <1>2, <1>3, <1>9, <2>1
  <2>3. /\ segments' \in [Ids -> Segments \cup {None}] /\ segments'[cursor.session] = grown
        /\ \A s \in Ids : s # cursor.session => segments'[s] = segments[s]
    BY <1>5, <2>1, <2>2
  <2>4. PICK covered \in Seq(EntryIds) : covered = cursor.covered \o Identities(added)
    BY <1>5
  <2>5. /\ cursor' \in Cursors /\ cursor'.session = cursor.session
        /\ cursor'.covered = covered
    BY <1>9, <2>1, <2>4 DEF Cursors
  <2>6. SegmentsNumbered'
    BY <1>4, <1>5, <2>3 DEF IInv, SegmentsNumbered
  <2>7. CursorCovers'
    <3>1. cursor.session \notin offers /\ offers' = offers
      BY <1>4, <2>1 DEF IInv, CursorCovers
    <3>2. grown # None
      BY <1>5, LocalSessionAssumption
    <3>3. /\ cursor'.session \notin offers' /\ segments'[cursor'.session] = grown
          /\ cursor'.covered = grown.noted \o Identities(grown.frames)
      BY <1>5, <2>3, <2>4, <2>5, <3>1
    <3>4. QED
      BY <3>2, <3>3 DEF CursorCovers
  <2>8. QED
    BY <1>4, <1>6, <1>7, <2>3, <2>5, <2>6, <2>7, SyncChanges
<1>10. QED
  BY <1>4, <1>8, <1>9

\* A new segment, under an id that nobody uses or is offered.
LEMMA SyncBeginInv == ASSUME IInv, SyncBegin PROVE IInv'
<1>1. /\ ToShadow /\ UNCHANGED <<app, offers, repo, process, edits, blame>>
      /\ \/ \E s \in Ids \ (Live \cup offers) :
                /\ segments' = [segments EXCEPT ![s] = Segment]
                /\ cursor' = CursorOn(s) /\ UNCHANGED faults
                /\ IF cursor = None
                   THEN Finish(app) /\ UNCHANGED previous
                   ELSE pc' = "replaced" /\ previous' = cursor.session /\ UNCHANGED rest
         \/ faults < MaxFaults /\ Warn /\ UNCHANGED <<segments, previous>>
  BY DEF SyncBegin
<1>2. /\ Segment \in Segments /\ SegmentNumbered(Segment, repo, process)
      /\ Identities(Pending(app)) \in Seq(EntryIds)
  BY <1>1, BegunNumbering DEF IInv, ToShadow
<1>3. CASE faults < MaxFaults /\ Warn /\ UNCHANGED <<segments, previous>>
  <2>1. cursor' = None /\ segments' = segments /\ previous' = previous
    BY <1>3 DEF Warn
  <2>2. pc' \in {"rest", "warned"} /\ rest' \in Documents \cup {None} /\ faults' \in 0..MaxFaults
    BY <1>3, SyncEnds
  <2>3. /\ segments' \in [Ids -> Segments \cup {None}] /\ SegmentsNumbered'
        /\ CursorCovers' /\ PreviousIsAnother' /\ previous' \in Ids \cup {None}
    BY <1>1, <2>1, <2>2
       DEF IInv, TypeOK, SegmentsNumbered, CursorCovers, PreviousIsAnother
  <2>4. QED
    BY <1>1, <2>1, <2>2, <2>3, SyncChanges
<1>4. CASE \E s \in Ids \ (Live \cup offers) :
               /\ segments' = [segments EXCEPT ![s] = Segment]
               /\ cursor' = CursorOn(s) /\ UNCHANGED faults
               /\ IF cursor = None
                  THEN Finish(app) /\ UNCHANGED previous
                  ELSE pc' = "replaced" /\ previous' = cursor.session /\ UNCHANGED rest
  <2>1. PICK s \in Ids \ (Live \cup offers) :
            /\ segments' = [segments EXCEPT ![s] = Segment]
            /\ cursor' = CursorOn(s) /\ UNCHANGED faults
            /\ IF cursor = None
               THEN Finish(app) /\ UNCHANGED previous
               ELSE pc' = "replaced" /\ previous' = cursor.session /\ UNCHANGED rest
    BY <1>4
  <2>2. PICK g : g = Segment
    OBVIOUS
  <2>3. g \in Segments /\ SegmentNumbered(g, repo, process) /\ g # None
    BY <1>2, <2>2, LocalSessionAssumption
  <2>4. segments \in [Ids -> Segments \cup {None}]
    BY DEF IInv, TypeOK
  <2>5. /\ segments' \in [Ids -> Segments \cup {None}] /\ segments'[s] = g
        /\ \A i \in Ids : i # s => segments'[i] = segments[i]
    BY <2>1, <2>2, <2>3, <2>4
  <2>6. SegmentsNumbered'
    BY <1>1, <2>3, <2>5 DEF IInv, SegmentsNumbered
  <2>7. PICK noted \in Seq(EntryIds) : noted = Identities(Pending(app))
    BY <1>2
  <2>8. cursor' = [session |-> s, saved |-> app.saved, covered |-> noted, stray |-> FALSE]
    BY <2>1, <2>7 DEF CursorOn
  <2>9. cursor' \in Cursors /\ cursor'.session = s /\ cursor'.covered = noted
    <3>1. app.saved \in Nat
      BY DEF IInv, TypeOK, Apps
    <3>2. QED
      BY <2>8, <3>1 DEF Cursors
  <2>10. CursorCovers'
    <3>1. g.noted = noted /\ g.frames = <<>>
      BY <2>2, <2>7 DEF Segment
    <3>2. Identities(<<>>) = <<>>
      <4>1. <<>> \in Seq(Entries) /\ Len(<<>>) = 0
        OBVIOUS
      <4>2. Identities(<<>>) \in Seq(EntryIds) /\ Len(Identities(<<>>)) = 0
        BY <4>1, IdentitiesProps
      <4>3. QED
        BY <4>2, EmptySeq
    <3>3. noted \o <<>> = noted
      OBVIOUS
    <3>4. s \notin offers /\ offers' = offers
      BY <1>1
    <3>5. /\ cursor'.session \notin offers' /\ segments'[cursor'.session] = g
          /\ cursor'.covered = g.noted \o Identities(g.frames)
      BY <2>5, <2>9, <3>1, <3>2, <3>3, <3>4
    <3>6. QED
      BY <2>3, <3>5 DEF CursorCovers
  <2>11. CASE cursor = None
    <3>1. Finish(app) /\ UNCHANGED faults /\ previous' = previous
      BY <2>1, <2>11
    <3>2. pc' \in {"rest", "warned"} /\ rest' \in Documents \cup {None} /\ faults' \in 0..MaxFaults
      BY <3>1, SyncEnds
    <3>3. previous' \in Ids \cup {None} /\ PreviousIsAnother'
      BY <3>1, <3>2 DEF IInv, TypeOK, PreviousIsAnother
    <3>4. QED
      BY <1>1, <2>5, <2>6, <2>9, <2>10, <3>2, <3>3, SyncChanges
  <2>12. CASE cursor # None
    <3>1. pc' = "replaced" /\ previous' = cursor.session /\ rest' = rest /\ faults' = faults
      BY <2>1, <2>12
    <3>2. cursor.session \in Ids /\ segments[cursor.session] # None
      BY <2>12 DEF IInv, TypeOK, Cursors, CursorCovers
    <3>3. cursor.session # s
      BY <3>2 DEF Live
    <3>4. cursor' # None
      BY <2>9, LocalSessionAssumption
    <3>5. PreviousIsAnother'
      BY <2>9, <3>1, <3>2, <3>3, <3>4 DEF PreviousIsAnother
    <3>6. faults' \in 0..MaxFaults /\ rest' \in Documents \cup {None}
      BY <3>1 DEF IInv, TypeOK
    <3>7. QED
      BY <1>1, <2>5, <2>6, <2>9, <2>10, <3>1, <3>2, <3>5, <3>6, SyncChanges
  <2>13. QED
    BY <2>11, <2>12
<1>5. QED
  BY <1>1, <1>3, <1>4

\* The segment that has been replaced goes: it is not the one being written.
LEMMA SyncReplaceInv == ASSUME IInv, SyncReplace PROVE IInv'
<1>1. /\ pc = "replaced" /\ previous' = None
      /\ UNCHANGED <<app, offers, repo, process, edits, blame>>
      /\ \/ /\ segments' = [segments EXCEPT ![previous] = None] /\ cursor' = cursor
            /\ Finish(app) /\ UNCHANGED faults
         \/ faults < MaxFaults /\ Warn /\ UNCHANGED segments
  BY DEF SyncReplace
<1>2. cursor # None /\ previous \in Ids /\ previous # cursor.session
  BY <1>1 DEF IInv, PreviousIsAnother
<1>3. pc' \in {"rest", "warned"} /\ rest' \in Documents \cup {None} /\ faults' \in 0..MaxFaults
  BY <1>1, SyncEnds
<1>4. PreviousIsAnother'
  BY <1>3 DEF PreviousIsAnother
<1>5. CASE faults < MaxFaults /\ Warn /\ UNCHANGED segments
  <2>1. cursor' = None /\ segments' = segments
    BY <1>5 DEF Warn
  <2>2. /\ segments' \in [Ids -> Segments \cup {None}] /\ SegmentsNumbered'
        /\ CursorCovers'
    BY <1>1, <2>1 DEF IInv, TypeOK, SegmentsNumbered, CursorCovers
  <2>3. QED
    BY <1>1, <1>3, <1>4, <2>1, <2>2, SyncChanges
<1>6. CASE segments' = [segments EXCEPT ![previous] = None] /\ cursor' = cursor
  <2>1. segments' \in [Ids -> Segments \cup {None}] /\ SegmentsNumbered'
    BY <1>1, <1>2, <1>6, SegmentRemoved
  <2>2. cursor \in Cursors \cup {None} /\ cursor.session \in Ids
    BY <1>2 DEF IInv, TypeOK, Cursors
  <2>3. segments'[cursor.session] = segments[cursor.session]
    BY <1>2, <1>6, <2>2 DEF IInv, TypeOK
  <2>4. CursorCovers'
    BY <1>1, <1>6, <2>3 DEF IInv, CursorCovers
  <2>5. QED
    BY <1>1, <1>3, <1>4, <1>6, <2>1, <2>2, <2>4, SyncChanges
<1>7. QED
  BY <1>1, <1>5, <1>6
-----------------------------------------------------------------------------
(* Replay.                                                                 *)

\* An edit is in effect after some entries when it was before them and none cut
\* it, or when one put it and none has cut it since.
InEffect(e, base, s) ==
    \/ e \in base /\ \A i \in DOMAIN s : e \notin s[i].cut
    \/ \E i \in DOMAIN s : e \in s[i].put /\ \A j \in DOMAIN s : j >= i => e \notin s[j].cut

\* A replay is what is in effect after it.
LEMMA ReplayedHolds ==
  ASSUME NEW base, NEW S, NEW s \in Seq(S)
  PROVE  \A e : e \in Replayed(base, s) <=> InEffect(e, base, s)
<1>1. \A i \in DOMAIN s : i >= 1
  OBVIOUS
<1>2. DEFINE uncut(content, from) ==
                {e \in content : \A i \in DOMAIN s : i >= from => e \notin s[i].cut}
<1>3. Replayed(base, s) = uncut(base, 1) \cup UNION {uncut(s[i].put, i) : i \in DOMAIN s}
  BY DEF Replayed
<1>4. ASSUME NEW e
      PROVE  e \in UNION {uncut(s[i].put, i) : i \in DOMAIN s}
             <=> \E i \in DOMAIN s : e \in uncut(s[i].put, i)
  OBVIOUS
<1>5. ASSUME NEW e
      PROVE  e \in uncut(base, 1) <=> e \in base /\ \A i \in DOMAIN s : e \notin s[i].cut
  BY <1>1
<1>6. QED
  BY <1>3, <1>4, <1>5 DEF InEffect

\* A replay goes by what each entry puts and cuts.
LEMMA ReplayedSame ==
  ASSUME NEW base, NEW S, NEW s \in Seq(S), NEW T, NEW t \in Seq(T), Len(s) = Len(t),
         \A i \in DOMAIN s : s[i].put = t[i].put /\ s[i].cut = t[i].cut
  PROVE  Replayed(base, s) = Replayed(base, t)
<1>1. DOMAIN s = DOMAIN t
  OBVIOUS
<1>2. \A e : InEffect(e, base, s) <=> InEffect(e, base, t)
  BY <1>1 DEF InEffect
<1>3. \A e : e \in Replayed(base, s) <=> InEffect(e, base, s)
  BY ReplayedHolds
<1>4. \A e : e \in Replayed(base, t) <=> InEffect(e, base, t)
  BY ReplayedHolds
<1>5. QED
  BY <1>2, <1>3, <1>4

\* Replaying nothing changes nothing.
LEMMA ReplayedNothing ==
  ASSUME NEW base
  PROVE  Replayed(base, <<>>) = base
BY DEF Replayed

\* What two runs of entries do is what the one and then the other does.
LEMMA ReplayedTwice ==
  ASSUME NEW base, NEW S, NEW s \in Seq(S), NEW t \in Seq(S)
  PROVE  Replayed(base, s \o t) = Replayed(Replayed(base, s), t)
<1>1. /\ s \o t \in Seq(S) /\ Len(s) \in Nat /\ DOMAIN s = 1..Len(s)
      /\ \A i \in DOMAIN s : i \in DOMAIN (s \o t) /\ (s \o t)[i] = s[i]
      /\ \A i \in DOMAIN t : Len(s) + i \in DOMAIN (s \o t) /\ (s \o t)[Len(s) + i] = t[i]
      /\ \A i \in DOMAIN (s \o t) :
             i \in DOMAIN s \/ (i - Len(s) \in DOMAIN t /\ i = Len(s) + (i - Len(s)))
  OBVIOUS
<1> DEFINE u == s \o t
<1>2. /\ u \in Seq(S)
      /\ \A i \in DOMAIN s : i \in DOMAIN u /\ u[i] = s[i]
      /\ \A i \in DOMAIN t : Len(s) + i \in DOMAIN u /\ u[Len(s) + i] = t[i]
      /\ \A i \in DOMAIN u :
             i \in DOMAIN s \/ (i - Len(s) \in DOMAIN t /\ i = Len(s) + (i - Len(s)))
  BY <1>1
<1> HIDE DEF u
<1>3. ASSUME NEW e, InEffect(e, base, u) PROVE e \in Replayed(Replayed(base, s), t)
  <2>1. CASE e \in base /\ \A i \in DOMAIN u : e \notin u[i].cut
    <3>1. (\A i \in DOMAIN s : e \notin s[i].cut) /\ \A i \in DOMAIN t : e \notin t[i].cut
      BY <1>2, <2>1
    <3>2. e \in Replayed(base, s)
      BY <2>1, <3>1, ReplayedHolds DEF InEffect
    <3>3. QED
      BY <3>1, <3>2, ReplayedHolds DEF InEffect
  <2>2. ASSUME NEW i \in DOMAIN u, e \in u[i].put,
               \A j \in DOMAIN u : j >= i => e \notin u[j].cut
        PROVE  e \in Replayed(Replayed(base, s), t)
    <3>1. CASE i \in DOMAIN s
      <4>1. e \in s[i].put /\ \A j \in DOMAIN s : j >= i => e \notin s[j].cut
        BY <1>2, <2>2, <3>1
      <4>2. e \in Replayed(base, s)
        BY <3>1, <4>1, ReplayedHolds DEF InEffect
      <4>3. ASSUME NEW j \in DOMAIN t PROVE e \notin t[j].cut
        <5>1. Len(s) + j >= i
          BY <1>1, <3>1
        <5>2. QED
          BY <1>2, <2>2, <5>1
      <4>4. QED
        BY <4>2, <4>3, ReplayedHolds DEF InEffect
    <3>2. CASE i - Len(s) \in DOMAIN t /\ i = Len(s) + (i - Len(s))
      <4>1. PICK k \in DOMAIN t : i = Len(s) + k
        BY <3>2
      <4>2. e \in t[k].put
        BY <1>2, <2>2, <4>1
      <4>3. ASSUME NEW j \in DOMAIN t, j >= k PROVE e \notin t[j].cut
        <5>1. Len(s) + j >= i
          BY <1>1, <4>1, <4>3
        <5>2. QED
          BY <1>2, <2>2, <5>1
      <4>4. QED
        BY <4>2, <4>3, ReplayedHolds DEF InEffect
    <3>3. QED
      BY <1>2, <3>1, <3>2
  <2>3. QED
    BY <1>3, <2>1, <2>2 DEF InEffect
<1>4. ASSUME NEW e, e \in Replayed(Replayed(base, s), t) PROVE InEffect(e, base, u)
  <2>1. InEffect(e, Replayed(base, s), t)
    BY <1>4, ReplayedHolds
  <2>2. CASE e \in Replayed(base, s) /\ \A i \in DOMAIN t : e \notin t[i].cut
    <3>1. InEffect(e, base, s)
      BY <2>2, ReplayedHolds
    <3>2. CASE e \in base /\ \A i \in DOMAIN s : e \notin s[i].cut
      <4>1. \A i \in DOMAIN u : e \notin u[i].cut
        BY <1>2, <2>2, <3>2
      <4>2. QED
        BY <3>2, <4>1 DEF InEffect
    <3>3. ASSUME NEW i \in DOMAIN s, e \in s[i].put,
                 \A j \in DOMAIN s : j >= i => e \notin s[j].cut
          PROVE  InEffect(e, base, u)
      <4>1. i \in DOMAIN u /\ e \in u[i].put
        BY <1>2, <3>3
      <4>2. \A j \in DOMAIN u : j >= i => e \notin u[j].cut
        BY <1>2, <2>2, <3>3
      <4>3. QED
        BY <4>1, <4>2 DEF InEffect
    <3>4. QED
      BY <3>1, <3>2, <3>3 DEF InEffect
  <2>3. ASSUME NEW k \in DOMAIN t, e \in t[k].put,
               \A j \in DOMAIN t : j >= k => e \notin t[j].cut
        PROVE  InEffect(e, base, u)
    <3>1. Len(s) + k \in DOMAIN u /\ e \in u[Len(s) + k].put
      BY <1>2, <2>3
    <3>2. ASSUME NEW j \in DOMAIN u, j >= Len(s) + k PROVE e \notin u[j].cut
      <4>1. j \notin DOMAIN s
        BY <1>1, <2>3, <3>2
      <4>2. PICK l \in DOMAIN t : j = Len(s) + l
        BY <1>2, <4>1
      <4>3. l >= k
        BY <1>1, <2>3, <3>2, <4>2
      <4>4. QED
        BY <1>2, <2>3, <4>2, <4>3
    <3>3. QED
      BY <3>1, <3>2 DEF InEffect
  <2>4. QED
    BY <2>1, <2>2, <2>3 DEF InEffect
<1>5. \A e : e \in Replayed(base, u) <=> InEffect(e, base, u)
  BY <1>2, ReplayedHolds
<1>6. \A e : e \in Replayed(base, u) <=> e \in Replayed(Replayed(base, s), t)
  BY <1>3, <1>4, <1>5
<1>7. QED
  BY <1>6 DEF u

-----------------------------------------------------------------------------
(* The line of a session: the versions it and its checkpoints hold.        *)

\* What a session or a checkpoint holds, without its stacks.
Version(x) == [content |-> x.content, journal |-> x.journal, saved |-> x.saved,
               manifest |-> x.manifest, next |-> x.next, nextOp |-> x.nextOp]

Versions == [content : Documents, journal : Seq(Entries), saved : Nat,
             manifest : 0..MaxCommits, next : Nat \ {0}, nextOp : Nat \ {0}]

\* The versions of a session: its own, and those of its checkpoints.
Line(a) == {Version(a)} \cup {Version(a.undo[i]) : i \in DOMAIN a.undo}
                        \cup {Version(a.redo[i]) : i \in DOMAIN a.redo}

\* By the identities of the envelopes, which is all that the cursor goes by.
Extends(y, x) ==
    /\ Len(x.journal) <= Len(y.journal)
    /\ \A i \in DOMAIN x.journal : Identity(y.journal[i]) = Identity(x.journal[i])

\* Further on, and as far.
Beyond(y, x) == Extends(y, x) /\ Len(x.journal) < Len(y.journal)

Same(y, x) == Extends(y, x) /\ Len(x.journal) = Len(y.journal)

\* What was done after x on the way to y.
Turn(y, x) == y.journal[Len(x.journal) + 1].kind

\* The number of the next operation, after these envelopes and a number before.
Counts(n, new, first) ==
    /\ n >= first /\ \A i \in DOMAIN new : new[i].op < n
    /\ n = first \/ \E i \in DOMAIN new : n = new[i].op + 1

\* y is x with these envelopes minted after it.
GrownBy(y, x, new, p) ==
    /\ y.journal = x.journal \o new
    /\ y.content = Replayed(x.content, new)
    /\ y.next = x.next + Len(new) /\ Counts(y.nextOp, new, x.nextOp)
    /\ \A i \in DOMAIN new : new[i].actor = p /\ new[i].seq = x.next + i - 1

\* A version that extends another by its identities has really grown from it;
\* and if it counts as much of it saved, it was saved as the same commit.
Agrees(y, x, p) ==
    Extends(y, x) =>
        /\ \E new \in Seq(Entries) : GrownBy(y, x, new, p)
        /\ x.saved < Len(x.journal) /\ x.saved = y.saved => x.manifest = y.manifest

\* A later commit has more of the journal, and the same of it.
SavedTogether(x, y) ==
    y.manifest <= x.manifest =>
        y.saved <= x.saved /\ \A i \in 1..y.saved : y.journal[i] = x.journal[i]

\* The history holds this envelope.
Holds(h, entry) == \E k \in DOMAIN h : h[k] = entry

\* Journals begin with the same c envelopes, and those that go on do so with
\* one identity.
SameStart(x, y, c) ==
    /\ c <= Len(x.journal) /\ c <= Len(y.journal)
    /\ \A i \in 1..c : x.journal[i] = y.journal[i]
    /\ c < Len(x.journal) /\ c < Len(y.journal) =>
           /\ x.journal[c + 1].actor = y.journal[c + 1].actor
           /\ x.journal[c + 1].seq = y.journal[c + 1].seq

\* The versions of a line, with the history of the head.  What has no manifest
\* counts c envelopes as saved: none, but for a document whose open failed.
Coherent(N, h, p, c) ==
    /\ c \in Nat
    /\ \A x \in N : \A y \in N : Agrees(y, x, p) /\ SavedTogether(x, y) /\ SameStart(x, y, c)
    /\ \A x \in N : x.manifest = 0 => x.saved = c
    /\ \A x \in N : \A i \in 1..x.saved : Holds(h, x.journal[i])

\* What was saved is in the journal.
Counted(N) == \A x \in N : x \in Versions /\ x.saved <= Len(x.journal)

\* Counting on is counting all.
LEMMA CountsOn ==
  ASSUME NEW old \in Seq(Entries), NEW new \in Seq(Entries),
         NEW first \in Nat, NEW mid \in Nat, NEW n \in Nat,
         Counts(mid, old, first), Counts(n, new, mid)
  PROVE  Counts(n, old \o new, first)
<1>1. PICK all \in Seq(Entries) : all = old \o new
  BY EntriesConcat
<1>2. /\ DOMAIN all = 1..(Len(old) + Len(new)) /\ Len(new) \in Nat /\ Len(old) \in Nat
      /\ \A i \in 1..Len(old) : i \in DOMAIN old /\ all[i] = old[i]
      /\ \A i \in 1..Len(new) : all[Len(old) + i] = new[i]
      /\ DOMAIN old = 1..Len(old) /\ DOMAIN new = 1..Len(new)
  BY <1>1, EntriesConcat
<1>3. /\ mid >= first /\ \A i \in DOMAIN old : old[i].op < mid
      /\ mid = first \/ \E i \in DOMAIN old : mid = old[i].op + 1
      /\ n >= mid /\ \A i \in DOMAIN new : new[i].op < n
      /\ n = mid \/ \E i \in DOMAIN new : n = new[i].op + 1
  BY DEF Counts
<1>4. ASSUME NEW i \in DOMAIN all PROVE all[i].op < n
  <2>1. i \in 1..(Len(old) + Len(new))
    BY <1>2
  <2>2. CASE i <= Len(old)
    <3>1. i \in DOMAIN old /\ all[i] = old[i]
      BY <1>2, <2>1, <2>2
    <3>2. old[i].op \in Nat /\ old[i].op < mid
      BY <1>3, <3>1, OwnFinite
    <3>3. QED
      BY <1>3, <3>1, <3>2
  <2>3. CASE i > Len(old)
    <3>1. i - Len(old) \in DOMAIN new /\ Len(old) + (i - Len(old)) = i
      BY <1>2, <2>1, <2>3
    <3>2. all[i] = new[i - Len(old)]
      BY <1>2, <3>1
    <3>3. QED
      BY <1>3, <3>1, <3>2
  <2>4. QED
    BY <1>2, <2>1, <2>2, <2>3
<1>5. n = first \/ \E i \in DOMAIN all : n = all[i].op + 1
  <2>1. CASE n = mid
    <3>1. CASE mid = first
      BY <2>1, <3>1
    <3>2. CASE \E i \in DOMAIN old : mid = old[i].op + 1
      <4>1. PICK i \in DOMAIN old : mid = old[i].op + 1
        BY <3>2
      <4>2. i \in DOMAIN all /\ all[i] = old[i]
        BY <1>2
      <4>3. QED
        BY <2>1, <4>1, <4>2
    <3>3. QED
      BY <1>3, <3>1, <3>2
  <2>2. CASE \E i \in DOMAIN new : n = new[i].op + 1
    <3>1. PICK i \in DOMAIN new : n = new[i].op + 1
      BY <2>2
    <3>2. Len(old) + i \in DOMAIN all /\ all[Len(old) + i] = new[i]
      BY <1>2
    <3>3. QED
      BY <3>1, <3>2
  <2>3. QED
    BY <1>3, <2>1, <2>2
<1>6. n >= first
  BY <1>3
<1>7. QED
  BY <1>1, <1>4, <1>5, <1>6 DEF Counts

\* A count comes to one number only.
LEMMA CountsOnce ==
  ASSUME NEW new \in Seq(Entries), NEW first \in Nat, NEW m \in Nat, NEW n \in Nat,
         Counts(m, new, first), Counts(n, new, first)
  PROVE  m = n
<1>1. \A i \in DOMAIN new : new[i].op \in Nat
  BY OwnFinite
<1>2. m <= n /\ n <= m
  BY <1>1 DEF Counts
<1>3. QED
  BY <1>2

\* Growing twice is growing by both.
LEMMA GrownTwice ==
  ASSUME NEW x \in Versions, NEW t \in Versions, NEW m \in Versions,
         NEW old \in Seq(Entries), NEW new \in Seq(Entries), NEW p,
         GrownBy(t, x, old, p), GrownBy(m, t, new, p)
  PROVE  old \o new \in Seq(Entries) /\ GrownBy(m, x, old \o new, p)
<1>1. x.journal \in Seq(Entries) /\ x.next \in Nat
  BY DEF Versions
<1>2. /\ old \o new \in Seq(Entries) /\ Len(old \o new) = Len(old) + Len(new)
      /\ Len(old) \in Nat /\ Len(new) \in Nat
  OBVIOUS
<1>3. m.journal = x.journal \o (old \o new)
  <2>1. PICK j \in Seq(Entries) : j = x.journal
    BY <1>1
  <2>2. m.journal = (j \o old) \o new
    BY <2>1 DEF GrownBy
  <2>3. (j \o old) \o new = j \o (old \o new)
    BY ConcatAssociative
  <2>4. QED
    BY <2>1, <2>2, <2>3
<1>4. m.content = Replayed(x.content, old \o new)
  BY ReplayedTwice DEF GrownBy
<1>5. m.next = x.next + Len(old \o new)
  BY <1>1, <1>2 DEF GrownBy
<1>6. ASSUME NEW i \in DOMAIN (old \o new)
      PROVE (old \o new)[i].actor = p /\ (old \o new)[i].seq = x.next + i - 1
  <2>1. CASE i \in DOMAIN old
    <3>1. (old \o new)[i] = old[i]
      BY <2>1
    <3>2. QED
      BY <2>1, <3>1 DEF GrownBy
  <2>2. CASE i \notin DOMAIN old
    <3>1. PICK k \in DOMAIN new : i = Len(old) + k
      <4>1. i \in 1..(Len(old) + Len(new)) /\ ~(i <= Len(old))
        BY <2>2
      <4>2. i - Len(old) \in 1..Len(new) /\ i = Len(old) + (i - Len(old))
        BY <1>2, <4>1
      <4>3. QED
        BY <4>2
    <3>2. (old \o new)[i] = new[k]
      BY <3>1
    <3>3. new[k].actor = p /\ new[k].seq = t.next + k - 1 /\ t.next = x.next + Len(old)
      BY <3>1 DEF GrownBy
    <3>4. k \in Nat
      BY <3>1
    <3>5. QED
      BY <1>1, <1>2, <3>1, <3>2, <3>3, <3>4
  <2>3. QED
    BY <2>1, <2>2
<1>7. Counts(m.nextOp, old \o new, x.nextOp)
  <2>1. x.nextOp \in Nat /\ t.nextOp \in Nat /\ m.nextOp \in Nat
    BY DEF Versions
  <2>2. QED
    BY <2>1, CountsOn DEF GrownBy
<1>8. QED
  BY <1>2, <1>3, <1>4, <1>5, <1>6, <1>7 DEF GrownBy

\* The entries of a version that has grown.
LEMMA GrownEntries ==
  ASSUME NEW x \in Versions, NEW y \in Versions, NEW new \in Seq(Entries), NEW p,
         GrownBy(y, x, new, p)
  PROVE  /\ Len(y.journal) = Len(x.journal) + Len(new)
         /\ \A i \in 1..Len(x.journal) : y.journal[i] = x.journal[i]
         /\ \A i \in 1..Len(new) : y.journal[Len(x.journal) + i] = new[i]
         /\ Len(x.journal) \in Nat /\ Len(y.journal) \in Nat /\ Len(new) \in Nat
<1>1. x.journal \in Seq(Entries)
  BY DEF Versions
<1>2. PICK j \in Seq(Entries) : j = x.journal
  BY <1>1
<1>3. y.journal = j \o new
  BY <1>2 DEF GrownBy
<1>4. /\ Len(j \o new) = Len(j) + Len(new)
      /\ \A i \in 1..Len(j) : (j \o new)[i] = j[i]
      /\ \A i \in 1..Len(new) : (j \o new)[Len(j) + i] = new[i]
      /\ Len(j) \in Nat /\ Len(new) \in Nat
  OBVIOUS
<1>5. QED
  BY <1>2, <1>3, <1>4

\* A version that has grown extends what it has grown from.
LEMMA GrownExtends ==
  ASSUME NEW x \in Versions, NEW y \in Versions, NEW new \in Seq(Entries), NEW p,
         GrownBy(y, x, new, p)
  PROVE  Extends(y, x)
<1>1. x.journal \in Seq(Entries) /\ DOMAIN x.journal = 1..Len(x.journal)
  BY DEF Versions
<1>2. QED
  BY <1>1, GrownEntries DEF Extends

\* By no entries at all, it is as long.
LEMMA GrownByNothing ==
  ASSUME NEW x \in Versions, NEW y \in Versions, NEW p, NEW new \in Seq(Entries),
         GrownBy(y, x, new, p), Len(new) = 0
  PROVE  /\ y.journal = x.journal /\ y.content = x.content
         /\ y.next = x.next /\ y.nextOp = x.nextOp
<1>1. x.journal \in Seq(Entries) /\ x.next \in Nat
  BY DEF Versions
<1>2. new = <<>> /\ DOMAIN new = {}
  BY EmptySeq
<1>3. x.journal \o <<>> = x.journal
  BY <1>1
<1>4. y.nextOp = x.nextOp
  BY <1>2 DEF GrownBy, Counts
<1>5. QED
  BY <1>1, <1>2, <1>3, <1>4, ReplayedNothing DEF GrownBy

\* Extending is a preorder.
LEMMA ExtendsTwice ==
  ASSUME NEW x \in Versions, NEW y \in Versions, NEW z \in Versions,
         Extends(z, y), Extends(y, x)
  PROVE  Extends(z, x)
<1>1. /\ x.journal \in Seq(Entries) /\ y.journal \in Seq(Entries) /\ z.journal \in Seq(Entries)
      /\ DOMAIN x.journal = 1..Len(x.journal) /\ DOMAIN y.journal = 1..Len(y.journal)
      /\ Len(x.journal) \in Nat /\ Len(y.journal) \in Nat /\ Len(z.journal) \in Nat
  BY DEF Versions
<1>2. Len(x.journal) <= Len(y.journal) /\ Len(y.journal) <= Len(z.journal)
  BY DEF Extends
<1>3. Len(x.journal) <= Len(z.journal)
  BY <1>1, <1>2
<1>4. \A i \in DOMAIN x.journal : i \in DOMAIN y.journal
  BY <1>1, <1>2
<1>5. QED
  BY <1>3, <1>4 DEF Extends

\* A new version m grows from t, one of the versions N: none of them extends it,
\* and what it extends of them t has extended before it.
Springs(m, t, new, N, p) ==
    /\ GrownBy(m, t, new, p) /\ new # <<>>
    /\ m.saved = t.saved /\ m.manifest = t.manifest
    /\ \A y \in N : ~Extends(y, m) /\ (Extends(m, y) => Extends(t, y))

\* A line stays coherent with a version that springs from it.
LEMMA CoherentGrows ==
  ASSUME NEW N, NEW h, NEW p, NEW c, Coherent(N, h, p, c), Counted(N),
         NEW t \in N, NEW m \in Versions, NEW new \in Seq(Entries),
         Springs(m, t, new, N, p)
  PROVE  Coherent(N \cup {m}, h, p, c) /\ Counted(N \cup {m})
<1>1. /\ t \in Versions /\ t.journal \in Seq(Entries) /\ m.journal \in Seq(Entries)
      /\ t.saved \in Nat /\ t.saved <= Len(t.journal) /\ t.next \in Nat
      /\ t.manifest \in 0..MaxCommits
  BY DEF Counted, Versions
<1>2. /\ GrownBy(m, t, new, p) /\ m.saved = t.saved /\ m.manifest = t.manifest
      /\ Len(new) \in Nat \ {0}
  BY NotEmpty DEF Springs
<1>3. /\ Len(m.journal) = Len(t.journal) + Len(new)
      /\ \A i \in 1..Len(t.journal) : m.journal[i] = t.journal[i]
      /\ \A i \in 1..Len(new) : m.journal[Len(t.journal) + i] = new[i]
      /\ Len(t.journal) \in Nat /\ Len(m.journal) \in Nat
  BY <1>1, <1>2, GrownEntries
<1>4. \A i \in 1..m.saved : m.journal[i] = t.journal[i]
  BY <1>1, <1>2, <1>3
<1>5. Counted(N \cup {m})
  BY <1>1, <1>2, <1>3 DEF Counted
<1>6. ASSUME NEW x \in N PROVE Agrees(m, x, p) /\ Agrees(x, m, p)
  <2>1. x \in Versions
    BY DEF Counted
  <2>2. Agrees(x, m, p)
    BY DEF Springs, Agrees
  <2>3. ASSUME Extends(m, x)
        PROVE  /\ \E n \in Seq(Entries) : GrownBy(m, x, n, p)
               /\ x.saved < Len(x.journal) /\ x.saved = m.saved => x.manifest = m.manifest
    <3>1. Extends(t, x) /\ Agrees(t, x, p)
      BY <2>3 DEF Springs, Coherent
    <3>2. PICK old \in Seq(Entries) : GrownBy(t, x, old, p)
      BY <3>1 DEF Agrees
    <3>3. old \o new \in Seq(Entries) /\ GrownBy(m, x, old \o new, p)
      BY <1>1, <1>2, <2>1, <3>2, GrownTwice
    <3>4. x.saved < Len(x.journal) /\ x.saved = m.saved => x.manifest = m.manifest
      BY <1>2, <3>1 DEF Agrees
    <3>5. QED
      BY <3>3, <3>4
  <2>4. QED
    BY <2>2, <2>3 DEF Agrees
<1>7. Agrees(m, m, p)
  <2>1. <<>> \in Seq(Entries) /\ m.journal \o <<>> = m.journal /\ Len(<<>>) = 0 /\ DOMAIN <<>> = {}
    BY <1>1
  <2>2. m.next = m.next + 0 /\ Counts(m.nextOp, <<>>, m.nextOp)
    BY <2>1 DEF Versions, Counts
  <2>3. GrownBy(m, m, <<>>, p)
    BY <2>1, <2>2, ReplayedNothing DEF GrownBy
  <2>4. QED
    BY <2>1, <2>3 DEF Agrees
<1>8. ASSUME NEW x \in N PROVE SavedTogether(m, x) /\ SavedTogether(x, m)
  <2>1. SavedTogether(t, x) /\ SavedTogether(x, t)
    BY DEF Coherent
  <2>2. x \in Versions /\ x.saved \in Nat /\ x.manifest \in 0..MaxCommits
    BY DEF Counted, Versions
  <2>3. SavedTogether(x, m)
    BY <1>1, <1>2, <1>4, <2>1 DEF SavedTogether
  <2>4. SavedTogether(m, x)
    <3>1. SUFFICES ASSUME x.manifest <= m.manifest
                   PROVE  x.saved <= m.saved /\ \A i \in 1..x.saved : x.journal[i] = m.journal[i]
      BY DEF SavedTogether
    <3>2. x.saved <= t.saved /\ \A i \in 1..x.saved : x.journal[i] = t.journal[i]
      BY <1>2, <2>1, <3>1 DEF SavedTogether
    <3>3. \A i \in 1..x.saved : i \in 1..m.saved
      BY <1>1, <1>2, <2>2, <3>2
    <3>4. QED
      BY <1>2, <1>4, <3>2, <3>3
  <2>5. QED
    BY <2>3, <2>4
<1>9. SavedTogether(m, m)
  BY <1>1, <1>2 DEF SavedTogether
<1>10. c \in Nat /\ c <= Len(t.journal) /\ \A i \in 1..c : m.journal[i] = t.journal[i]
  <2>1. c \in Nat /\ c <= Len(t.journal)
    BY DEF Coherent, SameStart
  <2>2. QED
    BY <1>3, <2>1
<1>11. ASSUME NEW x \in N PROVE SameStart(m, x, c) /\ SameStart(x, m, c)
  <2>1. x \in Versions /\ x.journal \in Seq(Entries) /\ Len(x.journal) \in Nat
    BY DEF Counted, Versions
  <2>2. SameStart(x, t, c)
    BY DEF Coherent
  <2>3. /\ c <= Len(x.journal) /\ c <= Len(m.journal)
        /\ \A i \in 1..c : x.journal[i] = m.journal[i]
    BY <1>1, <1>2, <1>3, <1>10, <2>2 DEF SameStart
  <2>4. ASSUME c < Len(x.journal)
        PROVE  /\ x.journal[c + 1].actor = m.journal[c + 1].actor
               /\ x.journal[c + 1].seq = m.journal[c + 1].seq
    <3>1. CASE c < Len(t.journal)
      <4>1. c + 1 \in 1..Len(t.journal)
        BY <1>3, <1>10, <3>1
      <4>2. m.journal[c + 1] = t.journal[c + 1]
        BY <1>3, <4>1
      <4>3. QED
        BY <2>2, <2>4, <3>1, <4>2 DEF SameStart
    <3>2. CASE c = Len(t.journal)
      <4>1. DOMAIN t.journal = 1..c
        BY <1>1, <3>2
      <4>2. Extends(x, t)
        BY <1>3, <2>2, <2>4, <3>2, <4>1 DEF Extends, SameStart
      <4>3. PICK n \in Seq(Entries) : GrownBy(x, t, n, p)
        BY <4>2 DEF Coherent, Agrees
      <4>4. /\ Len(x.journal) = c + Len(n)
            /\ \A i \in 1..Len(n) : x.journal[c + i] = n[i]
        BY <1>1, <2>1, <3>2, <4>3, GrownEntries
      <4>5. x.journal[c + 1] = n[1] /\ 1 \in DOMAIN n
        <5>1. Len(n) \in Nat /\ DOMAIN n = 1..Len(n)
          OBVIOUS
        <5>2. 1 \in 1..Len(n)
          BY <1>10, <2>4, <4>4, <5>1
        <5>3. QED
          BY <4>4, <5>1, <5>2
      <4>6. m.journal[c + 1] = new[1] /\ 1 \in DOMAIN new
        BY <1>2, <1>3, <3>2
      <4>7. /\ n[1].actor = p /\ n[1].seq = t.next + 1 - 1
            /\ new[1].actor = p /\ new[1].seq = t.next + 1 - 1
        BY <1>2, <4>3, <4>5, <4>6 DEF GrownBy
      <4>8. QED
        BY <4>5, <4>6, <4>7
    <3>3. QED
      BY <1>3, <1>10, <3>1, <3>2
  <2>5. QED
    BY <2>3, <2>4 DEF SameStart
<1>12. SameStart(m, m, c)
  BY <1>2, <1>3, <1>10 DEF SameStart
<1>13. m.manifest = 0 => m.saved = c
  BY <1>2 DEF Coherent
<1>14. \A i \in 1..m.saved : Holds(h, m.journal[i])
  BY <1>2, <1>4 DEF Coherent
<1>15. ASSUME NEW x \in N \cup {m}, NEW y \in N \cup {m}
       PROVE  Agrees(y, x, p) /\ SavedTogether(x, y) /\ SameStart(x, y, c)
  <2>1. CASE x \in N /\ y \in N
    BY <2>1 DEF Coherent
  <2>2. CASE x = m /\ y = m
    BY <1>7, <1>9, <1>12, <2>2
  <2>3. CASE x = m /\ y \in N
    BY <1>6, <1>8, <1>11, <2>3
  <2>4. CASE x \in N /\ y = m
    BY <1>6, <1>8, <1>11, <2>4
  <2>5. QED
    BY <2>1, <2>2, <2>3, <2>4
<1>16. \A x \in N \cup {m} : x.manifest = 0 => x.saved = c
  BY <1>13 DEF Coherent
<1>17. \A x \in N \cup {m} : \A i \in 1..x.saved : Holds(h, x.journal[i])
  BY <1>14 DEF Coherent
<1>18. QED
  BY <1>5, <1>10, <1>15, <1>16, <1>17 DEF Coherent

\* Fewer versions are as coherent.
LEMMA CoherentSubset ==
  ASSUME NEW N, NEW M, M \subseteq N, NEW h, NEW p, NEW c, Coherent(N, h, p, c), Counted(N)
  PROVE  Coherent(M, h, p, c) /\ Counted(M)
BY DEF Coherent, Counted

-----------------------------------------------------------------------------
(* The stacks of a line.                                                   *)

\* A step that did nothing, between a checkpoint and what came after it.
Idle(x, z) ==
    /\ x.end = Len(x.journal) /\ Workbook(x.content) = Workbook(z.content)
    /\ Len(x.journal) <= Len(z.journal)

\* What came after a checkpoint of a stack: the next, or the session.
After(stack, i, a) == IF i = Len(stack) THEN a ELSE stack[i + 1]

\* No version was reached from x by undoing, or redoing, right after it.
TurnsAway(x, verb, N) == \A y \in N : Beyond(y, x) => Turn(y, x) # verb

\* The checkpoints of a stack: what a snapshot of one mints is new, for an idle
\* step is never undone by snapshot.
Settled(stack, verb, a, N) ==
    /\ \A i \in DOMAIN stack :
           Idle(stack[i], After(stack, i, a)) \/ TurnsAway(stack[i], verb, N)
    /\ \A i \in DOMAIN stack :
           Same(a, stack[i]) =>
               \/ Idle(stack[i], After(stack, i, a))
               \/ i = Len(stack) /\ stack[i].end = None
    /\ \A i, j \in DOMAIN stack :
           i < j /\ Same(stack[j], stack[i]) => Idle(stack[i], After(stack, i, a))

\* No version is further on than the session.
Leads(a, N) == \A y \in N : ~Beyond(y, a)

\* A version has what it is a version of.
LEMMA VersionFields ==
  ASSUME NEW x
  PROVE  /\ Version(x).content = x.content /\ Version(x).journal = x.journal
         /\ Version(x).saved = x.saved /\ Version(x).manifest = x.manifest
         /\ Version(x).next = x.next /\ Version(x).nextOp = x.nextOp
BY DEF Version

\* Sessions and checkpoints have versions.
LEMMA VersionType ==
  ASSUME NEW x \in Apps \cup Checkpoints
  PROVE  Version(x) \in Versions
BY DEF Version, Versions, Apps, Checkpoints

\* Close leaves all but the end of the last step.
ClosedFrom(c, stack, n) ==
    /\ c \in Seq(Checkpoints) /\ Len(c) = Len(stack)
    /\ \A i \in DOMAIN stack :
           /\ Version(c[i]) = Version(stack[i])
           /\ c[i].end = IF i = Len(stack) /\ stack[i].end = None THEN n ELSE stack[i].end

\* Closing a stack leaves all but that end.
LEMMA ClosedStackProps ==
  ASSUME NEW stack \in Seq(Checkpoints), NEW n \in Nat
  PROVE  ClosedFrom(ClosedStack(stack, n), stack, n)
<1>1. CASE ~(stack # <<>> /\ Last(stack).end = None)
  <2>1. ClosedStack(stack, n) = stack
    BY <1>1 DEF ClosedStack
  <2>2. \A i \in DOMAIN stack : ~(i = Len(stack) /\ stack[i].end = None)
    <3>1. ASSUME NEW i \in DOMAIN stack, i = Len(stack) PROVE stack # <<>> /\ Last(stack) = stack[i]
      BY <3>1 DEF Last
    <3>2. QED
      BY <1>1, <3>1
  <2>3. QED
    BY <2>1, <2>2 DEF ClosedFrom
<1>2. CASE stack # <<>> /\ Last(stack).end = None
  <2>1. PICK k : k = Len(stack)
    OBVIOUS
  <2>2. k \in DOMAIN stack /\ Last(stack) = stack[k]
    BY <1>2, <2>1, FrontAndLast
  <2>3. stack[k] \in Checkpoints /\ stack[k].end = None
    BY <1>2, <2>2
  <2>4. PICK c : c = [stack[k] EXCEPT !.end = n]
    OBVIOUS
  <2>5. c \in Checkpoints /\ Version(c) = Version(stack[k]) /\ c.end = n
    BY <2>3, <2>4 DEF Checkpoints, Version
  <2>6. ClosedStack(stack, n) = [stack EXCEPT ![k] = c]
    BY <1>2, <2>1, <2>4 DEF ClosedStack
  <2>7. ClosedStack(stack, n) \in Seq(Checkpoints) /\ Len(ClosedStack(stack, n)) = Len(stack)
    BY <2>2, <2>5, <2>6
  <2>8. \A i \in DOMAIN stack : [stack EXCEPT ![k] = c][i] = IF i = k THEN c ELSE stack[i]
    OBVIOUS
  <2>9. \A i \in DOMAIN stack :
            /\ Version(ClosedStack(stack, n)[i]) = Version(stack[i])
            /\ ClosedStack(stack, n)[i].end
                 = IF i = Len(stack) /\ stack[i].end = None THEN n ELSE stack[i].end
    BY <2>1, <2>3, <2>5, <2>6, <2>8
  <2>10. QED
    BY <2>7, <2>9 DEF ClosedFrom
<1>3. QED
  BY <1>1, <1>2

\* The same, by what is compared.
LEMMA IdleSame ==
  ASSUME NEW x, NEW z, NEW v, NEW w,
         Version(v) = Version(x), Version(w) = Version(z), v.end = x.end,
         Idle(x, z)
  PROVE  Idle(v, w)
<1>1. v.journal = x.journal /\ v.content = x.content /\ w.journal = z.journal /\ w.content = z.content
  BY VersionFields
<1>2. QED
  BY <1>1 DEF Idle

\* Versions are compared by their journals.
LEMMA ExtendsSame ==
  ASSUME NEW x, NEW z, NEW v, NEW w, Version(v) = Version(x), Version(w) = Version(z)
  PROVE  /\ Extends(w, v) <=> Extends(z, x)
         /\ Beyond(w, v) <=> Beyond(z, x)
         /\ Same(w, v) <=> Same(z, x)
         /\ Turn(w, v) = Turn(z, x)
<1>1. v.journal = x.journal /\ w.journal = z.journal
  BY VersionFields
<1>2. QED
  BY <1>1 DEF Extends, Beyond, Same, Turn

\* A version of a version is itself.
LEMMA VersionTwice ==
  ASSUME NEW x
  PROVE  Version(Version(x)) = Version(x)
BY DEF Version

\* What a version that springs from another has turned to, seen from any other.
LEMMA SpringTurns ==
  ASSUME NEW N, Counted(N), NEW t \in N, NEW m \in Versions, NEW new \in Seq(Entries), NEW p,
         Springs(m, t, new, N, p), NEW x \in N, Beyond(m, x)
  PROVE  \/ Beyond(t, x) /\ Turn(m, x) = Turn(t, x)
         \/ Same(t, x) /\ Turn(m, x) = new[1].kind
<1>1. /\ t \in Versions /\ x \in Versions /\ Len(x.journal) \in Nat
  BY DEF Counted, Versions
<1>2. Extends(t, x) /\ GrownBy(m, t, new, p) /\ Len(new) \in Nat \ {0}
  BY NotEmpty DEF Springs, Beyond
<1>3. /\ Len(t.journal) \in Nat
      /\ \A i \in 1..Len(t.journal) : m.journal[i] = t.journal[i]
      /\ \A i \in 1..Len(new) : m.journal[Len(t.journal) + i] = new[i]
  BY <1>1, <1>2, GrownEntries
<1>4. CASE Len(x.journal) < Len(t.journal)
  <2>1. Len(x.journal) + 1 \in 1..Len(t.journal)
    BY <1>1, <1>3, <1>4
  <2>2. QED
    BY <1>2, <1>3, <1>4, <2>1 DEF Beyond, Turn
<1>5. CASE Len(x.journal) = Len(t.journal)
  <2>1. m.journal[Len(t.journal) + 1] = new[1]
    BY <1>2, <1>3
  <2>2. QED
    BY <1>2, <1>5, <2>1 DEF Same, Turn
<1>6. QED
  BY <1>1, <1>2, <1>3, <1>4, <1>5 DEF Extends

\* Versions that are the same have the same content.
LEMMA SameContent ==
  ASSUME NEW N, NEW h, NEW p, NEW c, Coherent(N, h, p, c), Counted(N),
         NEW x \in N, NEW y \in N, Same(y, x)
  PROVE  y.content = x.content /\ y.journal = x.journal
<1>1. x \in Versions /\ y \in Versions
  BY DEF Counted
<1>2. PICK new \in Seq(Entries) : GrownBy(y, x, new, p)
  BY DEF Coherent, Agrees, Same
<1>3. Len(y.journal) = Len(x.journal) + Len(new) /\ Len(x.journal) \in Nat /\ Len(new) \in Nat
  BY <1>1, <1>2, GrownEntries
<1>4. Len(new) = 0
  BY <1>3 DEF Same
<1>5. QED
  BY <1>1, <1>2, <1>4, GrownByNothing

\* How the session goes on: to the version it was, or to one that springs from t.
GoesOn(m, a, t, new, N, p) ==
    \/ Version(m) = Version(a)
    \/ Springs(Version(m), t, new, N, p)

\* The stack that the session is pushed on.
LEMMA PushSettled ==
  ASSUME NEW N, NEW h, NEW p, NEW c, Coherent(N, h, p, c), Counted(N),
         NEW a \in Apps, Version(a) \in N, Leads(a, N),
         NEW stack \in Seq(Checkpoints), \A i \in DOMAIN stack : Version(stack[i]) \in N,
         NEW verb, Settled(stack, verb, a, N),
         NEW m \in Apps, NEW t \in N, NEW new \in Seq(Entries),
         GoesOn(m, a, t, new, N, p), new # <<>> => new[1].kind # verb,
         NEW pushed, pushed = Append(ClosedStack(stack, Len(a.journal)), CheckpointOf(a))
  PROVE  Settled(pushed, verb, m, N \cup {Version(m)})
<1>1. PICK shut : shut = ClosedStack(stack, Len(a.journal))
  OBVIOUS
<1>2. PICK k : k = CheckpointOf(a)
  OBVIOUS
<1>3. ClosedFrom(shut, stack, Len(a.journal)) /\ Len(a.journal) \in Nat
  BY <1>1, ClosedStackProps DEF Apps
<1>4. k \in Checkpoints /\ Version(k) = Version(a) /\ k.end = None
  BY <1>2, CheckpointProps DEF CheckpointOf, Version
<1>5. PICK n \in Nat : n = Len(stack) /\ DOMAIN stack = 1..n
  OBVIOUS
<1>6. /\ pushed \in Seq(Checkpoints) /\ Len(pushed) = n + 1 /\ pushed[n + 1] = k
      /\ DOMAIN pushed = 1..(n + 1)
      /\ \A i \in 1..n : pushed[i] = shut[i]
  BY <1>1, <1>2, <1>3, <1>4, <1>5 DEF ClosedFrom
<1>7. ASSUME NEW i \in 1..n
      PROVE  /\ Version(pushed[i]) = Version(stack[i])
             /\ pushed[i].end = IF i = n /\ stack[i].end = None
                                THEN Len(a.journal) ELSE stack[i].end
             /\ Version(After(pushed, i, m)) = Version(After(stack, i, a))
  <2>1. /\ Version(pushed[i]) = Version(stack[i])
        /\ pushed[i].end = IF i = n /\ stack[i].end = None
                           THEN Len(a.journal) ELSE stack[i].end
    BY <1>3, <1>5, <1>6 DEF ClosedFrom
  <2>2. After(pushed, i, m) = pushed[i + 1]
    BY <1>6 DEF After
  <2>3. CASE i = n
    BY <1>4, <1>5, <1>6, <2>1, <2>2, <2>3 DEF After
  <2>4. CASE i # n
    <3>1. i + 1 \in 1..n /\ After(stack, i, a) = stack[i + 1]
      BY <1>5, <2>4 DEF After
    <3>2. Version(pushed[i + 1]) = Version(stack[i + 1])
      BY <1>3, <1>5, <1>6, <3>1 DEF ClosedFrom
    <3>3. QED
      BY <2>1, <2>2, <3>1, <3>2
  <2>5. QED
    BY <2>3, <2>4
<1>8. ASSUME NEW i \in 1..n, Idle(stack[i], After(stack, i, a))
      PROVE  Idle(pushed[i], After(pushed, i, m))
  <2>1. stack[i].end \in Nat /\ stack[i].end # None
    <3>1. stack[i] \in Checkpoints
      BY <1>5
    <3>2. Len(stack[i].journal) \in Nat
      BY <3>1 DEF Checkpoints
    <3>3. QED
      BY <1>8, <3>2, LocalSessionAssumption DEF Idle
  <2>2. pushed[i].end = stack[i].end
    BY <1>7, <2>1
  <2>3. QED
    BY <1>7, <1>8, <2>2, IdleSame
<1>9. ASSUME NEW i \in 1..n, Same(a, stack[i])
      PROVE  Idle(pushed[i], After(pushed, i, m))
  <2>1. CASE Idle(stack[i], After(stack, i, a))
    BY <1>8, <2>1
  <2>2. CASE i = n /\ stack[i].end = None
    <3>1. Version(stack[i]) \in N
      BY <1>5
    <3>2. Same(Version(a), Version(stack[i]))
      BY <1>9, ExtendsSame, VersionTwice
    <3>3. Version(a).content = Version(stack[i]).content /\ Version(a).journal = Version(stack[i]).journal
      BY <3>1, <3>2, SameContent
    <3>4. /\ After(stack, i, a) = a /\ pushed[i].end = Len(a.journal)
          /\ Version(After(pushed, i, m)) = Version(a) /\ Version(pushed[i]) = Version(stack[i])
      BY <1>5, <1>7, <2>2 DEF After
    <3>5. /\ After(pushed, i, m).content = a.content /\ After(pushed, i, m).journal = a.journal
          /\ pushed[i].content = a.content /\ pushed[i].journal = a.journal
      BY <3>3, <3>4, VersionFields
    <3>6. QED
      BY <1>3, <3>4, <3>5 DEF Idle
  <2>3. QED
    BY <1>5, <1>9, <2>1, <2>2 DEF Settled
<1>10. PICK w \in Versions : w = Version(m)
  BY VersionType
<1>11. Settled(pushed, verb, m, N \cup {w})
  <2>1. ASSUME NEW i \in DOMAIN pushed
        PROVE  Idle(pushed[i], After(pushed, i, m)) \/ TurnsAway(pushed[i], verb, N \cup {w})
    <3>1. PICK x \in N : x = Version(pushed[i])
      BY <1>4, <1>5, <1>6, <1>7
    <3>2. CASE i \in 1..n /\ Idle(stack[i], After(stack, i, a))
      BY <1>8, <3>2
    <3>3. CASE i = n + 1 \/ ~Idle(stack[i], After(stack, i, a))
      <4>1. ASSUME NEW y \in N, Beyond(y, x) PROVE Turn(y, x) # verb
        <5>1. CASE i = n + 1
          <6>1. x = Version(a)
            BY <1>4, <1>6, <3>1, <5>1
          <6>2. Beyond(y, a)
            BY <4>1, <6>1, ExtendsSame, VersionTwice
          <6>3. QED
            BY <6>2 DEF Leads
        <5>2. CASE i \in 1..n
          <6>1. x = Version(stack[i]) /\ TurnsAway(stack[i], verb, N)
            BY <1>5, <1>6, <1>7, <3>1, <3>3, <5>2 DEF Settled
          <6>2. Beyond(y, stack[i]) /\ Turn(y, stack[i]) = Turn(y, x)
            BY <4>1, <6>1, ExtendsSame, VersionTwice
          <6>3. QED
            BY <6>1, <6>2 DEF TurnsAway
        <5>3. QED
          BY <1>6, <5>1, <5>2
      <4>2. ASSUME Beyond(w, x) PROVE Turn(w, x) # verb
        <5>1. CASE Version(m) = Version(a)
          BY <1>10, <4>1, <4>2, <5>1
        <5>2. CASE Springs(Version(m), t, new, N, p)
          <6>1. \/ Beyond(t, x) /\ Turn(w, x) = Turn(t, x)
                \/ Same(t, x) /\ Turn(w, x) = new[1].kind
            BY <1>10, <4>2, <5>2, SpringTurns
          <6>2. QED
            BY <4>1, <5>2, <6>1 DEF Springs
        <5>3. QED
          BY <5>1, <5>2 DEF GoesOn
      <4>3. ASSUME NEW y \in N \cup {w}, Beyond(y, pushed[i]) PROVE Turn(y, pushed[i]) # verb
        <5>1. Beyond(y, x) /\ Turn(y, x) = Turn(y, pushed[i])
          BY <3>1, <4>3, ExtendsSame, VersionTwice
        <5>2. QED
          BY <4>1, <4>2, <5>1
      <4>4. QED
        BY <4>3 DEF TurnsAway
    <3>4. QED
      BY <1>6, <3>2, <3>3
  <2>2. ASSUME NEW i \in DOMAIN pushed, Same(m, pushed[i])
        PROVE  Idle(pushed[i], After(pushed, i, m)) \/ (i = Len(pushed) /\ pushed[i].end = None)
    <3>1. CASE i = n + 1
      BY <1>4, <1>6, <3>1
    <3>2. CASE i \in 1..n
      <4>1. PICK x \in N : x = Version(pushed[i])
        BY <1>5, <1>7, <3>2
      <4>2. CASE Version(m) = Version(a)
        <5>1. Same(a, stack[i])
          BY <1>7, <2>2, <3>2, <4>2, ExtendsSame
        <5>2. QED
          BY <1>9, <3>2, <5>1
      <4>3. CASE Springs(Version(m), t, new, N, p)
        <5>1. Same(w, x)
          BY <1>10, <2>2, <4>1, ExtendsSame, VersionTwice
        <5>2. Extends(x, w)
          <6>1. w.journal \in Seq(Entries) /\ x.journal \in Seq(Entries)
            BY <4>1 DEF Counted, Versions
          <6>2. DOMAIN w.journal = DOMAIN x.journal
            BY <5>1, <6>1 DEF Same
          <6>3. Len(w.journal) <= Len(x.journal)
            BY <5>1 DEF Same, Extends
          <6>4. QED
            BY <5>1, <6>2, <6>3 DEF Same, Extends
        <5>3. QED
          BY <1>10, <4>3, <5>2 DEF Springs
      <4>4. QED
        BY <4>2, <4>3 DEF GoesOn
    <3>3. QED
      BY <1>6, <3>1, <3>2
  <2>3. ASSUME NEW i \in DOMAIN pushed, NEW j \in DOMAIN pushed, i < j, Same(pushed[j], pushed[i])
        PROVE  Idle(pushed[i], After(pushed, i, m))
    <3>1. i \in 1..n /\ j \in 1..(n + 1)
      BY <1>6, <2>3
    <3>2. CASE j = n + 1
      <4>1. Same(a, stack[i])
        BY <1>4, <1>6, <1>7, <2>3, <3>1, <3>2, ExtendsSame
      <4>2. QED
        BY <1>9, <3>1, <4>1
    <3>3. CASE j \in 1..n
      <4>1. Same(stack[j], stack[i])
        BY <1>7, <2>3, <3>1, <3>3, ExtendsSame
      <4>2. Idle(stack[i], After(stack, i, a))
        BY <1>5, <2>3, <3>1, <3>3, <4>1 DEF Settled
      <4>3. QED
        BY <1>8, <3>1, <4>2
    <3>4. QED
      BY <3>1, <3>2, <3>3
  <2>4. QED
    BY <2>1, <2>2, <2>3 DEF Settled
<1>12. QED
  BY <1>10, <1>11

\* The stack that the step is popped from.
LEMMA PopSettled ==
  ASSUME NEW N, NEW p, Counted(N),
         NEW a \in Apps, Version(a) \in N, Leads(a, N),
         NEW stack \in Seq(Checkpoints), stack # <<>>,
         \A i \in DOMAIN stack : Version(stack[i]) \in N,
         NEW verb, Settled(stack, verb, a, N),
         NEW m \in Apps, NEW t \in N, NEW new \in Seq(Entries),
         GoesOn(m, a, t, new, N, p), t \in {Version(a), Version(Last(stack))},
         Workbook(Last(stack).content) = Workbook(m.content),
         Len(Last(stack).journal) <= Len(m.journal),
         NEW l \in Nat, NEW popped, popped = ClosedStack(Front(stack), l)
  PROVE  Settled(popped, verb, m, N \cup {Version(m)})
<1>1. PICK n \in Nat : n = Len(stack) - 1 /\ DOMAIN stack = 1..(n + 1)
  <2>1. Len(stack) \in Nat \ {0} /\ DOMAIN stack = 1..Len(stack)
    BY NotEmpty
  <2>2. Len(stack) - 1 \in Nat /\ Len(stack) = (Len(stack) - 1) + 1
    BY <2>1
  <2>3. QED
    BY <2>1, <2>2
<1>2. /\ Last(stack) = stack[n + 1] /\ Front(stack) \in Seq(Checkpoints)
      /\ Len(Front(stack)) = n /\ DOMAIN Front(stack) = 1..n
      /\ \A i \in 1..n : Front(stack)[i] = stack[i]
  <2>1. PICK front \in Seq(Checkpoints) : front = Front(stack)
    BY FrontAndLast
  <2>2. Len(front) = n /\ DOMAIN front = 1..n
    <3>1. Len(Front(stack)) = Len(stack) - 1
      BY FrontAndLast
    <3>2. Len(front) = n
      BY <1>1, <2>1, <3>1
    <3>3. QED
      BY <3>2
  <2>3. QED
    BY <1>1, <2>1, <2>2, FrontAndLast
<1>3. ClosedFrom(popped, Front(stack), l)
  BY <1>2, ClosedStackProps
<1>4. popped \in Seq(Checkpoints) /\ Len(popped) = n /\ DOMAIN popped = 1..n
  BY <1>2, <1>3 DEF ClosedFrom
<1>5. ASSUME NEW i \in 1..n
      PROVE  /\ Version(popped[i]) = Version(stack[i])
             /\ stack[i].end # None => popped[i].end = stack[i].end
             /\ stack[i] \in Checkpoints /\ i \in DOMAIN stack
  <2>1. i \in DOMAIN stack
    BY <1>1
  <2>2. stack[i] \in Checkpoints
    BY <2>1
  <2>3. i \in DOMAIN Front(stack) /\ Front(stack)[i] = stack[i]
    BY <1>2
  <2>4. /\ Version(popped[i]) = Version(Front(stack)[i])
        /\ Front(stack)[i].end # None => popped[i].end = Front(stack)[i].end
    BY <1>3, <2>3 DEF ClosedFrom
  <2>5. QED
    BY <2>1, <2>2, <2>3, <2>4
<1>6. ASSUME NEW i \in 1..n, Idle(stack[i], After(stack, i, a))
      PROVE  Idle(popped[i], After(popped, i, m))
  <2>1. popped[i].end = stack[i].end
    <3>1. Len(stack[i].journal) \in Nat
      BY <1>5 DEF Checkpoints
    <3>2. stack[i].end # None
      BY <1>6, <3>1, LocalSessionAssumption DEF Idle
    <3>3. QED
      BY <1>5, <3>2
  <2>2. After(stack, i, a) = stack[i + 1]
    BY <1>1 DEF After
  <2>3. CASE i = n
    <3>1. After(popped, i, m) = m /\ After(stack, i, a) = Last(stack)
      BY <1>2, <1>4, <2>2, <2>3 DEF After
    <3>2. /\ stack[i].end = Len(stack[i].journal)
          /\ Workbook(stack[i].content) = Workbook(Last(stack).content)
          /\ Len(stack[i].journal) <= Len(Last(stack).journal)
      BY <1>6, <3>1 DEF Idle
    <3>3. /\ popped[i].journal = stack[i].journal /\ popped[i].content = stack[i].content
      <4>1. Version(popped[i]) = Version(stack[i])
        BY <1>5
      <4>2. QED
        BY <4>1, VersionFields
    <3>4. /\ Len(stack[i].journal) \in Nat /\ Len(m.journal) \in Nat
          /\ Len(Last(stack).journal) \in Nat
      <4>1. Last(stack) \in Checkpoints /\ stack[i] \in Checkpoints
        BY <1>5, FrontAndLast
      <4>2. \A c \in Checkpoints : c.journal \in Seq(Entries)
        BY DEF Checkpoints
      <4>3. /\ Last(stack).journal \in Seq(Entries) /\ stack[i].journal \in Seq(Entries)
            /\ m.journal \in Seq(Entries)
        BY <4>1, <4>2 DEF Apps
      <4>4. QED
        BY <4>3
    <3>5. QED
      BY <2>1, <3>1, <3>2, <3>3, <3>4 DEF Idle
  <2>4. CASE i # n
    <3>1. i + 1 \in 1..n /\ After(popped, i, m) = popped[i + 1]
      BY <1>4, <2>4 DEF After
    <3>2. Version(popped[i + 1]) = Version(stack[i + 1])
      BY <1>5, <3>1
    <3>3. QED
      BY <1>5, <1>6, <2>1, <2>2, <3>1, <3>2, IdleSame
  <2>5. QED
    BY <2>3, <2>4
<1>7. PICK w \in Versions : w = Version(m)
  BY VersionType
<1>8. ASSUME NEW i \in 1..n, Same(t, stack[i]) PROVE Idle(stack[i], After(stack, i, a))
  <2>1. CASE t = Version(a)
    <3>1. Same(a, stack[i])
      BY <1>8, <2>1, ExtendsSame, VersionTwice
    <3>2. i # Len(stack)
      BY <1>1
    <3>3. QED
      BY <1>5, <3>1, <3>2 DEF Settled
  <2>2. CASE t = Version(Last(stack))
    <3>1. Same(stack[n + 1], stack[i])
      BY <1>2, <1>8, <2>2, ExtendsSame, VersionTwice
    <3>2. i < n + 1 /\ n + 1 \in DOMAIN stack /\ i \in DOMAIN stack
      BY <1>1
    <3>3. QED
      BY <3>1, <3>2 DEF Settled
  <2>3. QED
    BY <2>1, <2>2
<1>9. Settled(popped, verb, m, N \cup {w})
  <2>1. ASSUME NEW i \in DOMAIN popped
        PROVE  Idle(popped[i], After(popped, i, m)) \/ TurnsAway(popped[i], verb, N \cup {w})
    <3>1. i \in 1..n
      BY <1>4
    <3>2. PICK x \in N : x = Version(stack[i]) /\ x = Version(popped[i])
      BY <1>5, <3>1
    <3>3. CASE Idle(stack[i], After(stack, i, a))
      BY <1>6, <3>1, <3>3
    <3>4. CASE ~Idle(stack[i], After(stack, i, a))
      <4>1. TurnsAway(stack[i], verb, N)
        BY <1>5, <3>1, <3>4 DEF Settled
      <4>2. ASSUME NEW y \in N, Beyond(y, x) PROVE Turn(y, x) # verb
        <5>1. Version(x) = Version(stack[i])
          BY <3>2, VersionTwice
        <5>2. Beyond(y, stack[i]) /\ Turn(y, stack[i]) = Turn(y, x)
          BY <4>2, <5>1, ExtendsSame
        <5>3. QED
          BY <4>1, <5>2 DEF TurnsAway
      <4>3. ASSUME Beyond(w, x) PROVE Turn(w, x) # verb
        <5>1. CASE Version(m) = Version(a)
          BY <1>7, <4>2, <4>3, <5>1
        <5>2. CASE Springs(Version(m), t, new, N, p)
          <6>1. \/ Beyond(t, x) /\ Turn(w, x) = Turn(t, x)
                \/ Same(t, x)
            BY <1>7, <4>3, <5>2, SpringTurns
          <6>2. CASE Same(t, x)
            <7>1. Same(t, stack[i])
              BY <3>2, <6>2, ExtendsSame, VersionTwice
            <7>2. QED
              BY <1>8, <3>1, <3>4, <7>1
          <6>3. QED
            BY <4>2, <6>1, <6>2
        <5>3. QED
          BY <5>1, <5>2 DEF GoesOn
      <4>4. ASSUME NEW y \in N \cup {w}, Beyond(y, popped[i]) PROVE Turn(y, popped[i]) # verb
        <5>1. Beyond(y, x) /\ Turn(y, x) = Turn(y, popped[i])
          BY <3>2, <4>4, ExtendsSame, VersionTwice
        <5>2. QED
          BY <4>2, <4>3, <5>1
      <4>5. QED
        BY <4>4 DEF TurnsAway
    <3>5. QED
      BY <3>3, <3>4
  <2>2. ASSUME NEW i \in DOMAIN popped, Same(m, popped[i])
        PROVE  Idle(popped[i], After(popped, i, m))
    <3>1. i \in 1..n
      BY <1>4
    <3>2. PICK x \in N : x = Version(stack[i]) /\ x = Version(popped[i])
      BY <1>5, <3>1
    <3>3. CASE Version(m) = Version(a)
      <4>1. Same(a, stack[i])
        BY <2>2, <3>2, <3>3, ExtendsSame
      <4>2. i # Len(stack)
        BY <1>1, <3>1
      <4>3. Idle(stack[i], After(stack, i, a))
        BY <1>5, <3>1, <4>1, <4>2 DEF Settled
      <4>4. QED
        BY <1>6, <3>1, <4>3
    <3>4. CASE Springs(Version(m), t, new, N, p)
      <4>1. Same(w, x)
        BY <1>7, <2>2, <3>2, ExtendsSame, VersionTwice
      <4>2. Extends(x, w)
        <5>1. w.journal \in Seq(Entries) /\ x.journal \in Seq(Entries)
          BY DEF Counted, Versions
        <5>2. DOMAIN w.journal = DOMAIN x.journal
          BY <4>1, <5>1 DEF Same
        <5>3. Len(w.journal) <= Len(x.journal)
          BY <4>1 DEF Same, Extends
        <5>4. QED
          BY <4>1, <5>2, <5>3 DEF Same, Extends
      <4>3. QED
        BY <1>7, <3>4, <4>2 DEF Springs
    <3>5. QED
      BY <3>3, <3>4 DEF GoesOn
  <2>3. ASSUME NEW i \in DOMAIN popped, NEW j \in DOMAIN popped, i < j, Same(popped[j], popped[i])
        PROVE  Idle(popped[i], After(popped, i, m))
    <3>1. i \in 1..n /\ j \in 1..n
      BY <1>4
    <3>2. Same(stack[j], stack[i])
      BY <1>5, <2>3, <3>1, ExtendsSame
    <3>3. Idle(stack[i], After(stack, i, a))
      BY <1>5, <2>3, <3>1, <3>2 DEF Settled
    <3>4. QED
      BY <1>6, <3>1, <3>3
  <2>4. QED
    BY <2>1, <2>2, <2>3 DEF Settled
<1>10. QED
  BY <1>7, <1>9

-----------------------------------------------------------------------------
(* How a session grows.                                                    *)

\* The envelopes of these changes.
EnvelopesOf(new, kind, changes) ==
    /\ new \in Seq(Entries) /\ Len(new) = Len(changes)
    /\ \A i \in DOMAIN new :
           new[i].kind = kind /\ new[i].put = changes[i].put /\ new[i].cut = changes[i].cut

\* The operations of a batch are numbered from here, if they are the document's.
NumberedFrom(new, kind, first) ==
    \A i \in DOMAIN new : new[i].op = IF kind = "document" THEN first + i - 1 ELSE 0

\* No checkpoint holds an operation of this actor from this number on.
NoneFrom(first, stack, p) ==
    \A i \in DOMAIN stack : \A j \in DOMAIN stack[i].journal :
        stack[i].journal[j].actor = p => stack[i].journal[j].op < first

\* The inverses of the operations are captured; and as long as no number is said
\* to be reused, it is not one that a stack holds.
Registered(m, a, first, operations, p) ==
    /\ m.inverses = Captured(a.inverses, first, operations)
    /\ ~m.reused => /\ ~a.reused
                    /\ operations # <<>> =>
                           NoneFrom(first, m.undo, p) /\ NoneFrom(first, m.redo, p)

\* Minting those is growing by their envelopes.
MintedAs(m, a, kind, changes) ==
    \E new \in Seq(Entries) :
        /\ EnvelopesOf(new, kind, changes) /\ NumberedFrom(new, kind, a.nextOp)
        /\ GrownBy(Version(m), Version(a), new, process)
        /\ m.saved = a.saved /\ m.manifest = a.manifest
        /\ Registered(m, a, a.nextOp, Operations(kind, changes), process)

\* Where a session does not reuse a number, its checkpoints hold none from there on.
LEMMA ReusesNot ==
  ASSUME NEW a \in Apps, ~Reuses(a)
  PROVE  NoneFrom(a.nextOp, a.undo, process) /\ NoneFrom(a.nextOp, a.redo, process)
<1>1. a.undo \in Seq(Checkpoints) /\ a.redo \in Seq(Checkpoints) /\ a.nextOp \in Nat
  BY DEF Apps
<1>2. ASSUME NEW stack \in {a.undo, a.redo} PROVE NoneFrom(a.nextOp, stack, process)
  <2>1. SUFFICES ASSUME NEW i \in DOMAIN stack, NEW j \in DOMAIN stack[i].journal,
                        stack[i].journal[j].actor = process
                 PROVE  stack[i].journal[j].op < a.nextOp
    BY DEF NoneFrom
  <2>2. stack[i] \in Checkpoints
    BY <1>1, <1>2
  <2>3. stack[i].journal \in Seq(Entries)
    BY <2>2 DEF Checkpoints
  <2>4. stack[i].journal[j] \in Entries
    BY <2>3
  <2>5. stack[i].journal[j].op \in Nat
    BY <2>4 DEF Entries
  <2>6. ~(stack[i].journal[j].op >= a.nextOp)
    BY <1>2, <2>1 DEF Reuses
  <2>7. QED
    BY <1>1, <2>5, <2>6
<1>3. QED
  BY <1>2

\* Minting grows the version of a session, by one envelope for each change.
LEMMA MintedGrows ==
  ASSUME NEW a \in Apps, NEW kind \in Kinds,
         NEW changes \in Seq(Changes), process \in Processes,
         NEW m, m = Minted(a, kind, changes)
  PROVE  MintedAs(m, a, kind, changes)
<1> DEFINE minted == [i \in DOMAIN changes |->
              [actor |-> process, seq |-> a.next + i - 1,
               op |-> IF kind = "document" THEN a.nextOp + i - 1 ELSE 0,
               kind |-> kind, put |-> changes[i].put, cut |-> changes[i].cut]]
<1> DEFINE operations == Operations(kind, changes)
<1>1. a.next \in Nat \ {0} /\ a.nextOp \in Nat \ {0}
  BY DEF Apps
<1>2. Len(changes) \in Nat /\ DOMAIN changes = 1..Len(changes)
  OBVIOUS
<1>3. ASSUME NEW i \in 1..Len(changes) PROVE minted[i] \in Entries
  <2>1. changes[i] \in Changes /\ i \in DOMAIN changes
    BY <1>2
  <2>2. a.next + i - 1 \in Nat \ {0} /\ a.nextOp + i - 1 \in Nat
    BY <1>1
  <2>3. QED
    BY <2>1, <2>2 DEF Changes, Entries
<1>4. minted \in Seq(Entries) /\ Len(minted) = Len(changes) /\ DOMAIN minted = DOMAIN changes
  BY <1>2, <1>3
<1>5. \A i \in DOMAIN minted :
          /\ minted[i].actor = process /\ minted[i].seq = a.next + i - 1
          /\ minted[i].op = IF kind = "document" THEN a.nextOp + i - 1 ELSE 0
          /\ minted[i].kind = kind
          /\ minted[i].put = changes[i].put /\ minted[i].cut = changes[i].cut
  OBVIOUS
<1>6. m = [a EXCEPT !.content = Replayed(@, minted),
                    !.journal = @ \o minted,
                    !.next = @ + Len(changes),
                    !.nextOp = @ + Len(operations),
                    !.inverses = Captured(@, a.nextOp, operations),
                    !.reused = @ \/ (operations # <<>> /\ Reuses(a))]
  BY DEF Minted, Operations
<1>11. operations \in Seq(Changes) /\ Len(operations) \in Nat
  BY DEF Operations
<1>12. IF kind = "document" THEN operations = changes ELSE operations = <<>>
  BY DEF Operations
<1> HIDE DEF operations
<1> HIDE DEF minted
<1>7. /\ m.content = Replayed(a.content, minted) /\ m.journal = a.journal \o minted
      /\ m.next = a.next + Len(changes) /\ m.saved = a.saved /\ m.manifest = a.manifest
      /\ m.nextOp = a.nextOp + Len(operations)
      /\ m.inverses = Captured(a.inverses, a.nextOp, operations)
      /\ m.undo = a.undo /\ m.redo = a.redo
  BY <1>6 DEF Apps
<1>13. m.reused = (a.reused \/ (operations # <<>> /\ Reuses(a)))
  BY <1>6 DEF Apps
<1>14. NumberedFrom(minted, kind, a.nextOp)
  BY <1>5 DEF NumberedFrom
<1>15. Counts(m.nextOp, minted, a.nextOp)
  <2>1. CASE kind = "document"
    <3>1. m.nextOp = a.nextOp + Len(changes)
      BY <1>7, <1>12, <2>1
    <3>2. \A i \in DOMAIN minted : i \in 1..Len(changes) /\ minted[i].op = a.nextOp + i - 1
      BY <1>2, <1>4, <1>5, <2>1
    <3>3. \A i \in DOMAIN minted : minted[i].op < m.nextOp
      BY <1>1, <1>2, <3>1, <3>2
    <3>4. CASE Len(changes) = 0
      <4>1. m.nextOp = a.nextOp
        BY <1>1, <3>1, <3>4
      <4>2. QED
        BY <1>1, <3>3, <4>1 DEF Counts
    <3>5. CASE Len(changes) # 0
      <4>1. Len(changes) \in DOMAIN minted
        BY <1>2, <1>4, <3>5
      <4>2. minted[Len(changes)].op = a.nextOp + Len(changes) - 1
        BY <3>2, <4>1
      <4>3. m.nextOp = minted[Len(changes)].op + 1 /\ m.nextOp >= a.nextOp
        BY <1>1, <1>2, <3>1, <4>2
      <4>4. QED
        BY <3>3, <4>1, <4>3 DEF Counts
    <3>6. QED
      BY <3>4, <3>5
  <2>2. CASE kind # "document"
    <3>1. m.nextOp = a.nextOp
      <4>1. Len(operations) = 0
        BY <1>12, <2>2
      <4>2. QED
        BY <1>1, <1>7, <4>1
    <3>2. \A i \in DOMAIN minted : minted[i].op = 0
      BY <1>5, <2>2
    <3>3. QED
      BY <1>1, <3>1, <3>2 DEF Counts
  <2>3. QED
    BY <2>1, <2>2
<1>8. GrownBy(Version(m), Version(a), minted, process)
  BY <1>4, <1>5, <1>7, <1>15, VersionFields DEF GrownBy
<1>9. EnvelopesOf(minted, kind, changes)
  BY <1>4, <1>5 DEF EnvelopesOf
<1>16. Registered(m, a, a.nextOp, operations, process)
  <2>1. ASSUME ~m.reused
        PROVE  /\ ~a.reused
               /\ operations # <<>> =>
                      NoneFrom(a.nextOp, m.undo, process) /\ NoneFrom(a.nextOp, m.redo, process)
    <3>1. ~(a.reused \/ (operations # <<>> /\ Reuses(a)))
      BY <1>13, <2>1, Zenon
    <3>2. QED
      BY <1>7, <3>1, ReusesNot
  <2>2. QED
    BY <1>7, <2>1 DEF Registered
<1>10. QED
  BY <1>4, <1>7, <1>8, <1>9, <1>14, <1>16 DEF MintedAs, operations

\* Of two versions that a third extends, the longer extends the shorter.
LEMMA ExtendsBoth ==
  ASSUME NEW x \in Versions, NEW y \in Versions, NEW z \in Versions,
         Extends(z, x), Extends(z, y), Len(x.journal) <= Len(y.journal)
  PROVE  Extends(y, x)
<1>1. /\ DOMAIN x.journal = 1..Len(x.journal) /\ DOMAIN y.journal = 1..Len(y.journal)
      /\ Len(x.journal) \in Nat /\ Len(y.journal) \in Nat
  BY DEF Versions
<1>2. \A i \in DOMAIN x.journal : i \in DOMAIN y.journal
  BY <1>1
<1>3. QED
  BY <1>2 DEF Extends

\* What grows from the version that leads the others springs from it.
LEMMA SpringsOnward ==
  ASSUME NEW N, Counted(N), NEW t \in N, Leads(t, N), NEW m \in Versions, NEW p,
         NEW new \in Seq(Entries), GrownBy(m, t, new, p), new # <<>>,
         m.saved = t.saved, m.manifest = t.manifest
  PROVE  Springs(m, t, new, N, p)
<1>1. t \in Versions /\ Extends(m, t)
  BY GrownExtends DEF Counted
<1>2. /\ Len(t.journal) \in Nat /\ Len(m.journal) \in Nat
      /\ Len(t.journal) < Len(m.journal)
  <2>1. Len(new) \in Nat \ {0}
    BY NotEmpty
  <2>2. QED
    BY <1>1, <2>1, GrownEntries
<1>3. ASSUME NEW y \in N PROVE ~Extends(y, m) /\ (Extends(m, y) => Extends(t, y))
  <2>1. y \in Versions /\ Len(y.journal) \in Nat /\ ~Beyond(y, t)
    BY DEF Counted, Versions, Leads
  <2>2. ASSUME Extends(y, m) PROVE FALSE
    <3>1. Extends(y, t)
      BY <1>1, <2>1, <2>2, ExtendsTwice
    <3>2. Len(t.journal) < Len(y.journal)
      BY <1>2, <2>1, <2>2 DEF Extends
    <3>3. QED
      BY <2>1, <3>1, <3>2 DEF Beyond
  <2>3. ASSUME Extends(m, y) PROVE Extends(t, y)
    <3>1. CASE Len(y.journal) <= Len(t.journal)
      BY <1>1, <2>1, <2>3, <3>1, ExtendsBoth
    <3>2. CASE Len(t.journal) < Len(y.journal)
      <4>1. Len(t.journal) <= Len(y.journal)
        BY <1>2, <2>1, <3>2
      <4>2. Extends(y, t)
        BY <1>1, <2>1, <2>3, <4>1, ExtendsBoth
      <4>3. QED
        BY <2>1, <3>2, <4>2 DEF Beyond
    <3>3. QED
      BY <1>2, <2>1, <3>1, <3>2
  <2>4. QED
    BY <2>2, <2>3
<1>4. QED
  BY <1>3 DEF Springs

\* One envelope after a version that nobody has turned to in that way springs from it.
LEMMA SpringsBack ==
  ASSUME NEW N, Counted(N), NEW t \in N, NEW verb, TurnsAway(t, verb, N),
         NEW m \in Versions, NEW p, NEW new \in Seq(Entries), GrownBy(m, t, new, p),
         Len(new) = 1, new[1].kind = verb,
         m.saved = t.saved, m.manifest = t.manifest
  PROVE  Springs(m, t, new, N, p)
<1>1. t \in Versions /\ Extends(m, t)
  BY GrownExtends DEF Counted
<1>2. /\ Len(t.journal) \in Nat /\ Len(m.journal) = Len(t.journal) + 1
      /\ m.journal[Len(t.journal) + 1] = new[1]
      /\ DOMAIN m.journal = 1..Len(m.journal)
  <2>1. 1 \in 1..Len(new)
    OBVIOUS
  <2>2. m.journal \in Seq(Entries)
    BY DEF Versions
  <2>3. /\ Len(m.journal) = Len(t.journal) + Len(new)
        /\ \A i \in 1..Len(new) : m.journal[Len(t.journal) + i] = new[i]
        /\ Len(t.journal) \in Nat
    BY <1>1, GrownEntries
  <2>4. QED
    BY <2>1, <2>2, <2>3
<1>3. ASSUME NEW y \in N PROVE ~Extends(y, m)
  <2>1. SUFFICES ASSUME Extends(y, m) PROVE FALSE
    OBVIOUS
  <2>2. y \in Versions /\ Len(y.journal) \in Nat
    BY DEF Counted, Versions
  <2>3. Extends(y, t)
    BY <1>1, <2>1, <2>2, ExtendsTwice
  <2>4. Len(t.journal) + 1 \in DOMAIN m.journal /\ Len(m.journal) <= Len(y.journal)
    BY <1>2, <2>1 DEF Extends
  <2>5. Beyond(y, t)
    BY <1>2, <2>2, <2>3, <2>4 DEF Beyond
  <2>6. Identity(y.journal[Len(t.journal) + 1]) = Identity(new[1])
    BY <1>2, <2>1, <2>4 DEF Extends
  <2>7. Turn(y, t) = verb
    BY <2>6 DEF Identity, Turn
  <2>8. QED
    BY <2>5, <2>7 DEF TurnsAway
<1>4. ASSUME NEW y \in N, Extends(m, y) PROVE Extends(t, y)
  <2>1. y \in Versions /\ Len(y.journal) \in Nat /\ Len(y.journal) <= Len(m.journal)
    BY <1>4 DEF Counted, Versions, Extends
  <2>2. CASE Len(y.journal) = Len(m.journal)
    <3>1. y.journal \in Seq(Entries) /\ m.journal \in Seq(Entries)
      BY <2>1 DEF Versions
    <3>2. DOMAIN y.journal = DOMAIN m.journal
      BY <2>2, <3>1
    <3>3. Len(m.journal) <= Len(y.journal)
      BY <1>2, <2>2
    <3>4. Extends(y, m)
      BY <1>4, <3>2, <3>3 DEF Extends
    <3>5. QED
      BY <1>3, <3>4
  <2>3. CASE Len(y.journal) <= Len(t.journal)
    BY <1>1, <1>4, <2>1, <2>3, ExtendsBoth
  <2>4. QED
    BY <1>2, <2>1, <2>2, <2>3
<1>5. new # <<>>
  <2>1. Len(<<>>) = 0 /\ 0 # 1
    OBVIOUS
  <2>2. new = <<>> => Len(new) = Len(<<>>)
    OBVIOUS
  <2>3. QED
    BY <2>1, <2>2, Zenon
<1>6. QED
  BY <1>3, <1>4, <1>5 DEF Springs

\* Entries that touch the document alone leave the workbook.
LEMMA ReplayedDocs ==
  ASSUME NEW base, NEW S, NEW s \in Seq(S),
         \A i \in DOMAIN s : \A d \in s[i].put \cup s[i].cut : d[1] = "doc"
  PROVE  Workbook(Replayed(base, s)) = Workbook(base)
<1>1. \A e : e \in Replayed(base, s) <=> InEffect(e, base, s)
  BY ReplayedHolds
<1>2. ASSUME NEW e, e[1] = "sheet" PROVE InEffect(e, base, s) <=> e \in base
  <2>1. \A i \in DOMAIN s : e \notin s[i].put /\ e \notin s[i].cut
    BY <1>2
  <2>2. QED
    BY <2>1 DEF InEffect
<1>3. QED
  BY <1>1, <1>2 DEF Workbook

\* Entries that do nothing change nothing.
LEMMA ReplayedMarkers ==
  ASSUME NEW base, NEW S, NEW s \in Seq(S),
         \A i \in DOMAIN s : s[i].put = {} /\ s[i].cut = {}
  PROVE  Replayed(base, s) = base
<1>1. \A e : e \in Replayed(base, s) <=> InEffect(e, base, s)
  BY ReplayedHolds
<1>2. \A e : InEffect(e, base, s) <=> e \in base
  BY DEF InEffect
<1>3. QED
  BY <1>1, <1>2

Opposite(verb) == IF verb = "undo" THEN "redo" ELSE "undo"

\* The stacks of a session in a step: the one is popped, the other pushed on.
StacksMoved(x, a, verb) ==
    /\ Stack(x, verb) = ClosedStack(Front(Stack(a, verb)), Len(a.journal))
    /\ Stack(x, Opposite(verb))
         = Append(ClosedStack(Stack(a, Opposite(verb)), Len(a.journal)), CheckpointOf(a))
    /\ x.open = a.open /\ x.recovered = a.recovered /\ x.lost = a.lost /\ x.half = a.half

\* What is numbered of a session but not counted in its versions.
SameInverses(x, a) == x.inverses = a.inverses /\ x.reused = a.reused

\* Popping, closing and pushing is that.
LEMMA StacksMove ==
  ASSUME NEW a \in Apps, NEW verb \in {"undo", "redo"}, Stack(a, verb) # <<>>,
         NEW b, b = Popped(a, verb),
         NEW x, x = Pushed(Closed(b), verb, CheckpointOf(a))
  PROVE  /\ b \in Apps /\ Version(b) = Version(a) /\ SameInverses(b, a)
         /\ x \in Apps /\ Version(x) = Version(a) /\ SameInverses(x, a)
         /\ StacksMoved(x, a, verb)
<1>1. a.undo \in Seq(Checkpoints) /\ a.redo \in Seq(Checkpoints) /\ Len(a.journal) \in Nat
  BY DEF Apps
<1>2. PICK n \in Nat : n = Len(a.journal)
  BY <1>1
<1>3. PICK k \in Checkpoints : k = CheckpointOf(a)
  BY CheckpointProps
<1>4. CASE verb = "undo"
  <2>1. a.undo # <<>>
    BY <1>4 DEF Stack
  <2>2. PICK front \in Seq(Checkpoints) : front = Front(a.undo)
    BY <1>1, <2>1, FrontAndLast
  <2>3. b = [a EXCEPT !.undo = front]
    BY <1>4, <2>2 DEF Popped, Apps
  <2>4. /\ b \in Apps /\ b.undo = front /\ b.redo = a.redo /\ b.journal = a.journal
        /\ b.open = a.open /\ b.recovered = a.recovered /\ b.lost = a.lost
        /\ b.half = a.half /\ SameInverses(b, a)
        /\ Version(b) = Version(a)
    BY <2>3 DEF Apps, Version, SameInverses
  <2>5. PICK u \in Seq(Checkpoints) : u = ClosedStack(front, n)
    BY ClosedStackProps DEF ClosedFrom
  <2>6. PICK r \in Seq(Checkpoints) : r = ClosedStack(a.redo, n)
    BY <1>1, ClosedStackProps DEF ClosedFrom
  <2>7. Closed(b) = [b EXCEPT !.undo = u, !.redo = r]
    BY <1>2, <2>4, <2>5, <2>6 DEF Closed, ClosedStack, Apps
  <2>8. PICK r2 \in Seq(Checkpoints) : r2 = Append(r, k)
    <3>1. Append(r, k) \in Seq(Checkpoints)
      OBVIOUS
    <3>2. QED
      BY <3>1
  <2>9. x = [b EXCEPT !.undo = u, !.redo = r2]
    BY <1>3, <1>4, <2>4, <2>7, <2>8 DEF Pushed, Apps
  <2>10. /\ x \in Apps /\ Version(x) = Version(b) /\ x.undo = u /\ x.redo = r2
         /\ x.open = b.open /\ x.recovered = b.recovered /\ x.lost = b.lost
         /\ x.half = b.half /\ SameInverses(x, b)
    BY <2>4, <2>9 DEF Apps, Version, SameInverses
  <2>11. StacksMoved(x, a, verb)
    BY <1>2, <1>3, <1>4, <2>2, <2>4, <2>5, <2>6, <2>8, <2>10 DEF StacksMoved, Stack, Opposite
  <2>12. QED
    BY <2>4, <2>10, <2>11 DEF SameInverses
<1>5. CASE verb = "redo"
  <2>1. a.redo # <<>>
    BY <1>5 DEF Stack
  <2>2. PICK front \in Seq(Checkpoints) : front = Front(a.redo)
    BY <1>1, <2>1, FrontAndLast
  <2>3. b = [a EXCEPT !.redo = front]
    BY <1>5, <2>2 DEF Popped, Apps
  <2>4. /\ b \in Apps /\ b.redo = front /\ b.undo = a.undo /\ b.journal = a.journal
        /\ b.open = a.open /\ b.recovered = a.recovered /\ b.lost = a.lost
        /\ b.half = a.half /\ SameInverses(b, a)
        /\ Version(b) = Version(a)
    BY <2>3 DEF Apps, Version, SameInverses
  <2>5. PICK r \in Seq(Checkpoints) : r = ClosedStack(front, n)
    BY ClosedStackProps DEF ClosedFrom
  <2>6. PICK u \in Seq(Checkpoints) : u = ClosedStack(a.undo, n)
    BY <1>1, ClosedStackProps DEF ClosedFrom
  <2>7. Closed(b) = [b EXCEPT !.undo = u, !.redo = r]
    BY <1>2, <2>4, <2>5, <2>6 DEF Closed, ClosedStack, Apps
  <2>8. PICK u2 \in Seq(Checkpoints) : u2 = Append(u, k)
    <3>1. Append(u, k) \in Seq(Checkpoints)
      OBVIOUS
    <3>2. QED
      BY <3>1
  <2>9. x = [b EXCEPT !.undo = u2, !.redo = r]
    BY <1>3, <1>5, <2>4, <2>7, <2>8 DEF Pushed, Apps
  <2>10. /\ x \in Apps /\ Version(x) = Version(b) /\ x.undo = u2 /\ x.redo = r
         /\ x.open = b.open /\ x.recovered = b.recovered /\ x.lost = b.lost
         /\ x.half = b.half /\ SameInverses(x, b)
    BY <2>4, <2>9 DEF Apps, Version, SameInverses
  <2>11. StacksMoved(x, a, verb)
    BY <1>2, <1>3, <1>5, <2>2, <2>4, <2>5, <2>6, <2>8, <2>10 DEF StacksMoved, Stack, Opposite
  <2>12. QED
    BY <2>4, <2>10, <2>11 DEF SameInverses
<1>6. QED
  BY <1>4, <1>5

\* A snapshot brings the version that it is of.
LEMMA RestoredVersion ==
  ASSUME NEW a \in Apps, NEW target \in Checkpoints, target.saved <= Len(target.journal),
         NEW m, m = Restored(a, target)
  PROVE  /\ m \in Apps /\ Version(m) = Version(target)
         /\ m.undo = a.undo /\ m.redo = a.redo
         /\ m.open = a.open /\ m.recovered = a.recovered /\ m.lost = a.lost
         /\ m.half = a.half /\ SameInverses(m, a)
<1>1. /\ target.content \in Documents /\ target.journal \in Seq(Entries)
      /\ target.manifest \in 0..MaxCommits /\ target.next \in Nat \ {0}
      /\ target.saved \in Nat /\ target.nextOp \in Nat \ {0}
  BY DEF Checkpoints
<1>2. (IF target.saved < Len(target.journal) THEN target.saved ELSE Len(target.journal))
          = target.saved
  BY <1>1
<1>3. m = [a EXCEPT !.content = target.content,
                    !.journal = target.journal,
                    !.manifest = target.manifest,
                    !.saved = target.saved,
                    !.next = target.next, !.nextOp = target.nextOp]
  BY <1>2 DEF Restored
<1>4. m \in Apps
  BY <1>1, <1>3 DEF Apps
<1>5. QED
  BY <1>3, <1>4 DEF Apps, Version, SameInverses

\* What a step of the edit history does, with the checkpoint it goes to.
SteppedFrom(m, a, verb, t, new) ==
    /\ m \in Apps /\ StacksMoved(m, a, verb)
    /\ Reversible(a, t) =>
           /\ EnvelopesOf(new, "document", InverseOf(a, t))
           /\ NumberedFrom(new, "document", a.nextOp)
           /\ GrownBy(Version(m), Version(a), new, process)
           /\ m.saved = a.saved /\ m.manifest = a.manifest
           /\ Registered(m, a, a.nextOp, InverseOf(a, t), process)
    /\ ~Reversible(a, t) =>
           /\ EnvelopesOf(new, verb, <<Marker>>)
           /\ GrownBy(Version(m), Version(t), new, process)
           /\ m.saved = t.saved /\ m.manifest = t.manifest
           /\ m.inverses = a.inverses /\ (~m.reused => ~a.reused)

\* Undo and redo grow the version they start from: the session's by the inverse,
\* or the checkpoint's by a marker.
LEMMA SteppedGrows ==
  ASSUME NEW a \in Apps, NEW verb \in {"undo", "redo"}, Stack(a, verb) # <<>>,
         process \in Processes,
         NEW t \in Checkpoints, t = Last(Stack(a, verb)), t.saved <= Len(t.journal),
         NEW m, m = Stepped(a, verb)
  PROVE  \E new \in Seq(Entries) : SteppedFrom(m, a, verb, t, new)
<1>1. PICK popped : popped = Popped(a, verb)
  OBVIOUS
<1>2. PICK stacked : stacked = Pushed(Closed(popped), verb, CheckpointOf(a))
  OBVIOUS
<1>3. /\ popped \in Apps /\ Version(popped) = Version(a) /\ SameInverses(popped, a)
      /\ stacked \in Apps /\ Version(stacked) = Version(a) /\ SameInverses(stacked, a)
      /\ StacksMoved(stacked, a, verb)
  BY <1>1, <1>2, StacksMove
<1>4. popped.journal = a.journal /\ popped.content = a.content /\ popped.inverses = a.inverses
  BY <1>3, VersionFields DEF SameInverses
<1>9. Window(popped, t) = Window(a, t) /\ \A op : InversesOf(popped, op) = InversesOf(a, op)
  BY <1>4 DEF Window, InversesOf
<1>5. (Reversible(popped, t) <=> Reversible(a, t)) /\ InverseOf(popped, t) = InverseOf(a, t)
  BY <1>4, <1>9 DEF Reversible, InverseOf
<1> verb \in Kinds /\ "document" \in Kinds /\ verb # "document"
  BY DEF Kinds
<1>6. CASE Reversible(a, t)
  <2>1. PICK changes \in Seq(Changes) : changes = InverseOf(popped, t)
    BY <1>3, <1>5, <1>6, InverseType
  <2>2. m = Minted(stacked, "document", changes)
    BY <1>1, <1>2, <1>5, <1>6, <2>1 DEF Stepped
  <2>9. MintedAs(m, stacked, "document", changes)
    BY <1>3, <2>2, MintedGrows
  <2>3. PICK new \in Seq(Entries) :
            /\ EnvelopesOf(new, "document", changes)
            /\ NumberedFrom(new, "document", stacked.nextOp)
            /\ GrownBy(Version(m), Version(stacked), new, process)
            /\ m.saved = stacked.saved /\ m.manifest = stacked.manifest
            /\ Registered(m, stacked, stacked.nextOp, Operations("document", changes), process)
    BY <2>9 DEF MintedAs
  <2>10. stacked.nextOp = a.nextOp /\ Operations("document", changes) = changes
    BY <1>3, VersionFields DEF Operations
  <2>11. Registered(m, a, a.nextOp, changes, process)
    BY <1>3, <2>3, <2>10 DEF Registered, SameInverses
  <2>4. MintedFrom(m, stacked, changes, process)
    BY <1>3, <2>2, MintedProps
  <2>5. m \in Apps /\ StacksMoved(m, a, verb)
    BY <1>3, <2>4 DEF MintedFrom, StacksMoved, Stack
  <2>6. m.saved = a.saved /\ m.manifest = a.manifest
    BY <1>3, <2>3, VersionFields
  <2>7. SteppedFrom(m, a, verb, t, new)
    BY <1>3, <1>5, <1>6, <2>1, <2>3, <2>5, <2>6, <2>10, <2>11 DEF SteppedFrom
  <2>8. QED
    BY <2>7
<1>7. CASE ~Reversible(a, t)
  <2>1. PICK restored : restored = Restored(stacked, t)
    OBVIOUS
  <2>2. /\ restored \in Apps /\ Version(restored) = Version(t)
        /\ restored.undo = stacked.undo /\ restored.redo = stacked.redo
        /\ restored.open = stacked.open /\ restored.recovered = stacked.recovered
        /\ restored.lost = stacked.lost /\ restored.half = stacked.half
        /\ SameInverses(restored, stacked)
    BY <1>3, <2>1, RestoredVersion
  <2>3. PICK changes \in Seq(Changes) : changes = <<Marker>>
    <3>1. Marker \in Changes
      BY DEF Marker, Changes, Documents
    <3>2. <<Marker>> \in Seq(Changes)
      BY <3>1
    <3>3. QED
      BY <3>2
  <2>4. m = Minted(restored, verb, changes)
    BY <1>1, <1>2, <1>5, <1>7, <2>1, <2>3 DEF Stepped
  <2>11. MintedAs(m, restored, verb, changes)
    BY <2>2, <2>4, MintedGrows
  <2>5. PICK new \in Seq(Entries) :
            /\ EnvelopesOf(new, verb, changes)
            /\ GrownBy(Version(m), Version(restored), new, process)
            /\ m.saved = restored.saved /\ m.manifest = restored.manifest
            /\ Registered(m, restored, restored.nextOp, Operations(verb, changes), process)
    BY <2>11 DEF MintedAs
  <2>12. Operations(verb, changes) = <<>>
    BY DEF Operations
  <2>13. Captured(restored.inverses, restored.nextOp, <<>>) = restored.inverses
    <3>1. DOMAIN <<>> = {}
      OBVIOUS
    <3>2. QED
      BY <3>1 DEF Captured
  <2>14. m.inverses = a.inverses /\ (~m.reused => ~a.reused)
    BY <1>3, <2>2, <2>5, <2>12, <2>13 DEF Registered, SameInverses
  <2>6. MintedFrom(m, restored, changes, process)
    BY <2>2, <2>4, MintedProps
  <2>7. m \in Apps /\ StacksMoved(m, a, verb)
    BY <1>3, <2>2, <2>6 DEF MintedFrom, StacksMoved, Stack
  <2>8. m.saved = t.saved /\ m.manifest = t.manifest
    BY <2>2, <2>5, VersionFields
  <2>9. SteppedFrom(m, a, verb, t, new)
    BY <1>7, <2>2, <2>3, <2>5, <2>7, <2>8, <2>14 DEF SteppedFrom
  <2>10. QED
    BY <2>9
<1>8. QED
  BY <1>6, <1>7

\* The line of a session, with the history of the head.
Lined(a, h, p, c) ==
    /\ Coherent(Line(a), h, p, c) /\ Counted(Line(a))
    /\ Leads(a, Line(a))
    /\ Settled(a.undo, "undo", a, Line(a)) /\ Settled(a.redo, "redo", a, Line(a))

\* Fewer versions turn as well.
LEMMA SettledSubset ==
  ASSUME NEW stack, NEW verb, NEW a, NEW N, NEW M, M \subseteq N, Settled(stack, verb, a, N)
  PROVE  Settled(stack, verb, a, M)
BY DEF Settled, TurnsAway

\* The versions of a line.
LEMMA LineHas ==
  ASSUME NEW a
  PROVE  /\ Version(a) \in Line(a)
         /\ \A i \in DOMAIN a.undo : Version(a.undo[i]) \in Line(a)
         /\ \A i \in DOMAIN a.redo : Version(a.redo[i]) \in Line(a)
BY DEF Line

\* The session leads the version that it goes on to.
LEMMA LeadsOn ==
  ASSUME NEW N, NEW p, Counted(N), NEW a, Leads(a, N), Version(a) \in N,
         NEW m \in Apps, NEW t \in N, NEW new \in Seq(Entries), GoesOn(m, a, t, new, N, p)
  PROVE  Leads(m, N \cup {Version(m)})
<1>1. SUFFICES ASSUME NEW y \in N \cup {Version(m)}, Beyond(y, m) PROVE FALSE
  BY DEF Leads
<1>2. Beyond(y, Version(m))
  BY <1>1, ExtendsSame, VersionTwice
<1>3. CASE y = Version(m)
  <2>1. Len(y.journal) \in Nat
    BY <1>3, VersionType DEF Versions
  <2>2. QED
    BY <1>2, <1>3, <2>1 DEF Beyond
<1>4. CASE y \in N /\ Version(m) = Version(a)
  <2>1. Beyond(y, a)
    BY <1>2, <1>4, ExtendsSame, VersionTwice
  <2>2. QED
    BY <1>4, <2>1 DEF Leads
<1>5. CASE y \in N /\ Springs(Version(m), t, new, N, p)
  BY <1>2, <1>5 DEF Springs, Beyond
<1>6. QED
  BY <1>1, <1>3, <1>4, <1>5 DEF GoesOn

\* And the line stays coherent.
LEMMA CoherentOn ==
  ASSUME NEW N, NEW h, NEW p, NEW c, Coherent(N, h, p, c), Counted(N), NEW a, Version(a) \in N,
         NEW m \in Apps, NEW t \in N, NEW new \in Seq(Entries), GoesOn(m, a, t, new, N, p)
  PROVE  Coherent(N \cup {Version(m)}, h, p, c) /\ Counted(N \cup {Version(m)})
<1>1. CASE Version(m) = Version(a)
  <2>1. N \cup {Version(m)} = N
    BY <1>1
  <2>2. QED
    BY <2>1
<1>2. CASE Springs(Version(m), t, new, N, p)
  BY <1>2, VersionType, CoherentGrows
<1>3. QED
  BY <1>1, <1>2 DEF GoesOn

\* The versions on a stack that is pushed on or popped.
LEMMA PushedVersions ==
  ASSUME NEW stack \in Seq(Checkpoints), NEW a \in Apps, NEW N, Version(a) \in N,
         \A i \in DOMAIN stack : Version(stack[i]) \in N,
         NEW pushed, pushed = Append(ClosedStack(stack, Len(a.journal)), CheckpointOf(a))
  PROVE  \A i \in DOMAIN pushed : Version(pushed[i]) \in N
<1>1. PICK c : c = ClosedStack(stack, Len(a.journal))
  OBVIOUS
<1>2. PICK k : k = CheckpointOf(a)
  OBVIOUS
<1>3. ClosedFrom(c, stack, Len(a.journal))
  <2>1. Len(a.journal) \in Nat
    BY DEF Apps
  <2>2. QED
    BY <1>1, <2>1, ClosedStackProps
<1>4. Version(k) = Version(a)
  BY <1>2 DEF CheckpointOf, Version
<1>5. ASSUME NEW i \in DOMAIN pushed
      PROVE  pushed[i] = k \/ (i \in DOMAIN stack /\ pushed[i] = c[i])
  <2>1. c \in Seq(Checkpoints) /\ Len(c) = Len(stack) /\ pushed = Append(c, k)
    BY <1>1, <1>2, <1>3 DEF ClosedFrom
  <2>2. QED
    BY <1>5, <2>1
<1>6. QED
  BY <1>3, <1>4, <1>5 DEF ClosedFrom

\* The checkpoints of a stack that is popped are old versions.
LEMMA PoppedVersions ==
  ASSUME NEW stack \in Seq(Checkpoints), stack # <<>>, NEW N, NEW l \in Nat,
         \A i \in DOMAIN stack : Version(stack[i]) \in N,
         NEW popped, popped = ClosedStack(Front(stack), l)
  PROVE  \A i \in DOMAIN popped : Version(popped[i]) \in N
<1>1. PICK front \in Seq(Checkpoints) :
          /\ front = Front(stack)
          /\ \A i \in DOMAIN front : i \in DOMAIN stack /\ front[i] = stack[i]
  BY FrontAndLast
<1>2. ClosedFrom(popped, front, l)
  BY <1>1, ClosedStackProps
<1>3. DOMAIN popped = DOMAIN front
  BY <1>2 DEF ClosedFrom
<1>4. QED
  BY <1>1, <1>2, <1>3 DEF ClosedFrom

\* An edit: the stack of undo is pushed on, that of redo emptied.
LEMMA EditLined ==
  ASSUME NEW a \in Apps, NEW h, NEW p, NEW c, Lined(a, h, p, c),
         NEW m \in Apps, NEW new \in Seq(Entries), new # <<>>, new[1].kind \notin {"undo", "redo"},
         GrownBy(Version(m), Version(a), new, p),
         m.saved = a.saved, m.manifest = a.manifest,
         m.undo = Append(ClosedStack(a.undo, Len(a.journal)), CheckpointOf(a)),
         m.redo = <<>>
  PROVE  Lined(m, h, p, c)
<1>1. PICK N : N = Line(a)
  OBVIOUS
<1>2. /\ Coherent(N, h, p, c) /\ Counted(N) /\ Leads(a, N) /\ Version(a) \in N
      /\ Settled(a.undo, "undo", a, N)
      /\ \A i \in DOMAIN a.undo : Version(a.undo[i]) \in N
  BY <1>1, LineHas DEF Lined
<1>3. PICK t \in N : t = Version(a)
  BY <1>2
<1>4. Leads(t, N)
  BY <1>2, <1>3, ExtendsSame, VersionTwice DEF Leads
<1>5. Springs(Version(m), t, new, N, p)
  <2>1. Version(m) \in Versions
    BY VersionType
  <2>2. Version(m).saved = t.saved /\ Version(m).manifest = t.manifest
    BY <1>3, VersionFields
  <2>3. QED
    BY <1>2, <1>3, <1>4, <2>1, <2>2, SpringsOnward
<1>6. GoesOn(m, a, t, new, N, p)
  BY <1>5 DEF GoesOn
<1>7. PICK M : M = N \cup {Version(m)}
  OBVIOUS
<1>8. Coherent(M, h, p, c) /\ Counted(M) /\ Leads(m, M)
  BY <1>2, <1>6, <1>7, CoherentOn, LeadsOn
<1>9. a.undo \in Seq(Checkpoints)
  BY DEF Apps
<1>10. Settled(m.undo, "undo", m, M)
  BY <1>2, <1>6, <1>7, <1>9, PushSettled
<1>11. \A i \in DOMAIN m.undo : Version(m.undo[i]) \in N
  BY <1>2, <1>9, PushedVersions
<1>12. Settled(m.redo, "redo", m, M) /\ DOMAIN m.redo = {}
  BY DEF Settled
<1>13. Line(m) \subseteq M
  BY <1>7, <1>11, <1>12 DEF Line
<1>14. Coherent(Line(m), h, p, c) /\ Counted(Line(m))
  BY <1>8, <1>13, CoherentSubset
<1>15. Leads(m, Line(m))
  BY <1>8, <1>13 DEF Leads
<1>16. Settled(m.undo, "undo", m, Line(m)) /\ Settled(m.redo, "redo", m, Line(m))
  BY <1>10, <1>12, <1>13, SettledSubset
<1>17. QED
  BY <1>14, <1>15, <1>16 DEF Lined

\* The window of a step, and its inverse entry by entry.
LEMMA WindowProps ==
  ASSUME NEW a \in Apps, NEW t \in Checkpoints, Reversible(a, t)
  PROVE  /\ Window(a, t) \in Seq(Entries)
         /\ Len(InverseOf(a, t)) = Len(Window(a, t))
         /\ \A i \in 1..Len(Window(a, t)) :
                \E r \in InversesOf(a, Window(a, t)[Len(Window(a, t)) - i + 1].op) :
                    InverseOf(a, t)[i].put = r.put /\ InverseOf(a, t)[i].cut = r.cut
<1>1. /\ a.journal \in Seq(Entries) /\ t.journal \in Seq(Entries)
      /\ t.end \in Nat \cup {None}
  BY DEF Apps, Checkpoints
<1>2. PICK n : n = IF t.end = None \/ t.end > Len(a.journal) THEN Len(a.journal) ELSE t.end
  OBVIOUS
<1>3. n \in Nat /\ n <= Len(a.journal)
  BY <1>1, <1>2
<1>4. Window(a, t) = SubSeq(a.journal, Len(t.journal) + 1, n)
  BY <1>2 DEF Window
<1>5. Window(a, t) \in Seq(Entries)
  BY <1>1, <1>3, <1>4
<1>6. PICK w \in Seq(Entries) : w = Window(a, t)
  BY <1>5
<1>7. Reverse(w) = [i \in 1..Len(w) |-> w[(Len(w) - i) + 1]]
  BY DEF Reverse
<1>8. PICK step : step = Reverse(w)
  OBVIOUS
<1>9. DOMAIN step = 1..Len(w) /\ \A i \in 1..Len(w) : step[i] = w[(Len(w) - i) + 1]
  BY <1>7, <1>8
<1>10. PICK inverse : inverse = [i \in 1..Len(w) |-> CHOOSE r \in InversesOf(a, step[i].op) : TRUE]
  OBVIOUS
<1>14. InverseOf(a, t) = [i \in 1..Len(w) |-> [put |-> inverse[i].put, cut |-> inverse[i].cut]]
  BY <1>6, <1>8, <1>9, <1>10 DEF InverseOf
<1>11. ASSUME NEW i \in 1..Len(w)
       PROVE  \E r \in InversesOf(a, w[Len(w) - i + 1].op) :
                  InverseOf(a, t)[i].put = r.put /\ InverseOf(a, t)[i].cut = r.cut
  <2>1. PICK k : k = Len(w) - i + 1
    OBVIOUS
  <2>2. k \in DOMAIN w
    BY <1>6, <2>1
  <2>3. InversesOf(a, w[k].op) # {}
    BY <1>6, <2>2 DEF Reversible
  <2>4. inverse[i] = CHOOSE r \in InversesOf(a, w[k].op) : TRUE
    BY <1>9, <1>10, <2>1
  <2>5. inverse[i] \in InversesOf(a, w[k].op)
    BY <2>3, <2>4
  <2>6. InverseOf(a, t)[i].put = inverse[i].put /\ InverseOf(a, t)[i].cut = inverse[i].cut
    BY <1>14
  <2>7. QED
    BY <2>1, <2>5, <2>6
<1>12. Len(InverseOf(a, t)) = Len(w)
  <2>1. InverseOf(a, t) \in Seq(Changes) /\ Len(w) \in Nat
    BY <1>6, InverseType
  <2>2. DOMAIN InverseOf(a, t) = 1..Len(w)
    BY <1>14
  <2>3. QED
    BY <2>1, <2>2
<1>13. QED
  BY <1>6, <1>11, <1>12

\* The inverses that a session holds touch the document alone.
DocInverses(a) == \A r \in a.inverses : \A d \in r.put \cup r.cut : d[1] = "doc"

\* The inverse of a step that has one touches the document alone.
LEMMA InverseDocs ==
  ASSUME NEW a \in Apps, NEW t \in Checkpoints, Reversible(a, t), DocInverses(a),
         NEW new, NEW kind, EnvelopesOf(new, kind, InverseOf(a, t))
  PROVE  \A i \in DOMAIN new : \A d \in new[i].put \cup new[i].cut : d[1] = "doc"
<1>1. PICK w \in Seq(Entries) : w = Window(a, t)
  BY WindowProps
<1>2. PICK inv : inv = InverseOf(a, t)
  OBVIOUS
<1>3. /\ Len(inv) = Len(w)
      /\ \A i \in 1..Len(w) : \E r \in a.inverses : inv[i].put = r.put /\ inv[i].cut = r.cut
  BY <1>1, <1>2, WindowProps DEF InversesOf
<1>5. /\ DOMAIN new = 1..Len(w)
      /\ \A i \in DOMAIN new : new[i].put = inv[i].put /\ new[i].cut = inv[i].cut
  <2>1. new \in Seq(Entries) /\ Len(new) = Len(w)
    BY <1>2, <1>3 DEF EnvelopesOf
  <2>2. QED
    BY <1>2, <2>1 DEF EnvelopesOf
<1>6. ASSUME NEW i \in DOMAIN new, NEW d \in new[i].put \cup new[i].cut PROVE d[1] = "doc"
  <2>1. PICK r \in a.inverses : inv[i].put = r.put /\ inv[i].cut = r.cut
    BY <1>3, <1>5
  <2>2. d \in r.put \cup r.cut
    BY <1>5, <2>1
  <2>3. QED
    BY <2>2 DEF DocInverses
<1>7. QED
  BY <1>6

\* An idle step has an inverse, which does nothing.
LEMMA IdleIsReversible ==
  ASSUME NEW a \in Apps, NEW t \in Checkpoints, Idle(t, a)
  PROVE  Reversible(a, t)
<1>1. /\ Len(t.journal) \in Nat /\ Len(a.journal) \in Nat /\ a.journal \in Seq(Entries)
      /\ Len(t.journal) <= Len(a.journal) /\ t.end = Len(t.journal)
      /\ Workbook(t.content) = Workbook(a.content)
  BY DEF Apps, Checkpoints, Idle
<1>2. t.end # None /\ ~(t.end > Len(a.journal))
  BY <1>1, LocalSessionAssumption
<1>3. Window(a, t) = SubSeq(a.journal, Len(t.journal) + 1, Len(t.journal))
  BY <1>1, <1>2 DEF Window
<1>4. DOMAIN Window(a, t) = {}
  BY <1>1, <1>3
<1>5. QED
  BY <1>1, <1>4 DEF Reversible

\* A step back springs from the version of its checkpoint, which was not idle.
LEMMA StepSprings ==
  ASSUME NEW a \in Apps, NEW verb \in {"undo", "redo"}, NEW N, Counted(N),
         Version(a) \in N, Leads(a, N),
         NEW stack \in Seq(Checkpoints), stack # <<>>, Settled(stack, verb, a, N),
         NEW t \in Checkpoints, t = Last(stack), Version(t) \in N,
         NEW m, NEW new \in Seq(Entries), SteppedFrom(m, a, verb, t, new), DocInverses(a)
  PROVE  /\ \E v \in {Version(a), Version(t)} : GoesOn(m, a, v, new, N, process)
         /\ Workbook(t.content) = Workbook(m.content)
         /\ Len(t.journal) <= Len(m.journal)
         /\ new # <<>> => new[1].kind \in {"document", verb}
<1>1. m \in Apps
  BY DEF SteppedFrom
<1>2. /\ Version(m) \in Versions /\ Version(a) \in Versions /\ Version(t) \in Versions
  BY <1>1, VersionType
<1>3. new # <<>> => 1 \in DOMAIN new
  <2>1. new # <<>> => Len(new) \in Nat \ {0}
    BY NotEmpty
  <2>2. QED
    BY <2>1
<1>4. new # <<>> => new[1].kind = IF Reversible(a, t) THEN "document" ELSE verb
  BY <1>3 DEF SteppedFrom, EnvelopesOf
<1>5. CASE Reversible(a, t)
  <2>1. /\ EnvelopesOf(new, "document", InverseOf(a, t))
        /\ GrownBy(Version(m), Version(a), new, process)
        /\ m.saved = a.saved /\ m.manifest = a.manifest
    BY <1>5 DEF SteppedFrom
  <2>2. GoesOn(m, a, Version(a), new, N, process)
    <3>1. CASE new = <<>>
      <4>1. Len(new) = 0
        BY <3>1
      <4>2. /\ Version(m).journal = Version(a).journal /\ Version(m).content = Version(a).content
            /\ Version(m).next = Version(a).next /\ Version(m).nextOp = Version(a).nextOp
        BY <1>2, <2>1, <4>1, GrownByNothing
      <4>3. Version(m) = Version(a)
        BY <2>1, <4>2 DEF Version
      <4>4. QED
        BY <4>3 DEF GoesOn
    <3>2. CASE new # <<>>
      <4>1. Leads(Version(a), N)
        BY ExtendsSame, VersionTwice DEF Leads
      <4>2. Version(m).saved = Version(a).saved /\ Version(m).manifest = Version(a).manifest
        BY <2>1, VersionFields
      <4>3. Springs(Version(m), Version(a), new, N, process)
        BY <1>2, <2>1, <3>2, <4>1, <4>2, SpringsOnward
      <4>4. QED
        BY <4>3 DEF GoesOn
    <3>3. QED
      BY <3>1, <3>2
  <2>3. Workbook(t.content) = Workbook(m.content)
    <3>1. Workbook(t.content) = Workbook(a.content)
      BY <1>5 DEF Reversible
    <3>2. m.content = Replayed(a.content, new)
      BY <2>1, VersionFields DEF GrownBy
    <3>3. \A i \in DOMAIN new : \A d \in new[i].put \cup new[i].cut : d[1] = "doc"
      BY <1>5, <2>1, InverseDocs
    <3>4. Workbook(Replayed(a.content, new)) = Workbook(a.content)
      BY <3>3, ReplayedDocs
    <3>5. QED
      BY <3>1, <3>2, <3>4
  <2>4. Len(t.journal) <= Len(m.journal)
    <3>1. Len(t.journal) <= Len(a.journal)
      BY <1>5 DEF Reversible
    <3>2. Len(Version(m).journal) = Len(Version(a).journal) + Len(new)
      BY <1>2, <2>1, GrownEntries
    <3>3. Len(m.journal) = Len(a.journal) + Len(new)
      BY <3>2, VersionFields
    <3>4. Len(a.journal) \in Nat /\ Len(t.journal) \in Nat /\ Len(new) \in Nat
      <4>1. a.journal \in Seq(Entries) /\ t.journal \in Seq(Entries)
        BY DEF Apps, Checkpoints
      <4>2. QED
        BY <4>1
    <3>5. QED
      BY <3>1, <3>3, <3>4
  <2>5. QED
    BY <1>4, <1>5, <2>2, <2>3, <2>4
<1>6. CASE ~Reversible(a, t)
  <2>1. /\ EnvelopesOf(new, verb, <<Marker>>)
        /\ GrownBy(Version(m), Version(t), new, process)
        /\ m.saved = t.saved /\ m.manifest = t.manifest
    BY <1>6 DEF SteppedFrom
  <2>2. Len(new) = 1 /\ new # <<>> /\ DOMAIN new = {1} /\ new[1].put = {} /\ new[1].cut = {}
    <3>1. Len(<<Marker>>) = 1 /\ <<Marker>>[1] = Marker
      OBVIOUS
    <3>2. Len(new) = 1
      BY <2>1, <3>1 DEF EnvelopesOf
    <3>3. DOMAIN new = {1}
      BY <3>2
    <3>4. new[1].put = {} /\ new[1].cut = {}
      BY <2>1, <3>1, <3>3 DEF EnvelopesOf, Marker
    <3>5. DOMAIN <<>> = {}
      OBVIOUS
    <3>6. new # <<>>
      BY <3>3, <3>5, Zenon
    <3>7. QED
      BY <3>2, <3>3, <3>4, <3>6
  <2>3. TurnsAway(t, verb, N)
    <3>1. PICK i \in DOMAIN stack : i = Len(stack) /\ t = stack[i]
      BY FrontAndLast
    <3>2. After(stack, i, a) = a
      BY <3>1 DEF After
    <3>3. ~Idle(t, a)
      BY <1>6, IdleIsReversible
    <3>4. QED
      BY <3>1, <3>2, <3>3 DEF Settled
  <2>4. TurnsAway(Version(t), verb, N)
    BY <2>3, ExtendsSame, VersionTwice DEF TurnsAway
  <2>5. Version(m).saved = Version(t).saved /\ Version(m).manifest = Version(t).manifest
    BY <2>1, VersionFields
  <2>6. Springs(Version(m), Version(t), new, N, process)
    BY <1>2, <1>4, <1>6, <2>1, <2>2, <2>4, <2>5, SpringsBack
  <2>7. GoesOn(m, a, Version(t), new, N, process)
    BY <2>6 DEF GoesOn
  <2>8. m.content = t.content
    <3>1. m.content = Replayed(t.content, new)
      BY <2>1, VersionFields DEF GrownBy
    <3>2. Replayed(t.content, new) = t.content
      BY <2>2, ReplayedMarkers
    <3>3. QED
      BY <3>1, <3>2
  <2>9. Len(t.journal) <= Len(m.journal)
    <3>1. Len(Version(m).journal) = Len(Version(t).journal) + Len(new)
      BY <1>2, <2>1, GrownEntries
    <3>2. Len(m.journal) = Len(t.journal) + 1
      BY <2>2, <3>1, VersionFields
    <3>3. Len(t.journal) \in Nat
      BY DEF Checkpoints
    <3>4. QED
      BY <3>2, <3>3
  <2>10. QED
    BY <1>4, <1>6, <2>7, <2>8, <2>9
<1>7. QED
  BY <1>5, <1>6

\* A step of the edit history keeps the line.
LEMMA StepLined ==
  ASSUME NEW a \in Apps, NEW verb \in {"undo", "redo"}, NEW h, NEW c, Lined(a, h, process, c),
         Stack(a, verb) # <<>>, NEW t \in Checkpoints, t = Last(Stack(a, verb)),
         NEW m, NEW new \in Seq(Entries), SteppedFrom(m, a, verb, t, new), DocInverses(a)
  PROVE  Lined(m, h, process, c)
<1>1. PICK N : N = Line(a)
  OBVIOUS
<1>2. PICK other : other = Opposite(verb)
  OBVIOUS
<1>3. PICK from \in Seq(Checkpoints) : from = Stack(a, verb)
  BY DEF Apps, Stack
<1>4. PICK onto \in Seq(Checkpoints) : onto = Stack(a, other)
  BY DEF Apps, Stack
<1>5. other \in {"undo", "redo"} /\ other # verb
  BY <1>2 DEF Opposite
<1>6. /\ Coherent(N, h, process, c) /\ Counted(N) /\ Leads(a, N) /\ Version(a) \in N
      /\ Settled(from, verb, a, N) /\ Settled(onto, other, a, N)
      /\ \A i \in DOMAIN from : Version(from[i]) \in N
      /\ \A i \in DOMAIN onto : Version(onto[i]) \in N
  BY <1>1, <1>2, <1>3, <1>4, LineHas DEF Lined, Stack, Opposite
<1>7. from # <<>> /\ t = Last(from)
  BY <1>3
<1>8. Version(t) \in N
  BY <1>6, <1>7, FrontAndLast
<1>9. /\ \E v \in {Version(a), Version(t)} : GoesOn(m, a, v, new, N, process)
      /\ Workbook(t.content) = Workbook(m.content)
      /\ Len(t.journal) <= Len(m.journal)
      /\ new # <<>> => new[1].kind \in {"document", verb}
  BY <1>6, <1>7, <1>8, StepSprings
<1>10. PICK v \in N : v \in {Version(a), Version(t)} /\ GoesOn(m, a, v, new, N, process)
  BY <1>6, <1>8, <1>9
<1>11. m \in Apps /\ StacksMoved(m, a, verb)
  BY DEF SteppedFrom
<1>12. PICK popped : popped = Stack(m, verb)
  OBVIOUS
<1>13. PICK pushed : pushed = Stack(m, other)
  OBVIOUS
<1>14. /\ popped = ClosedStack(Front(from), Len(a.journal))
       /\ pushed = Append(ClosedStack(onto, Len(a.journal)), CheckpointOf(a))
  BY <1>2, <1>3, <1>4, <1>11, <1>12, <1>13 DEF StacksMoved
<1>15. PICK M : M = N \cup {Version(m)}
  OBVIOUS
<1>16. Coherent(M, h, process, c) /\ Counted(M) /\ Leads(m, M)
  BY <1>6, <1>10, <1>11, <1>15, CoherentOn, LeadsOn
<1>17. Len(a.journal) \in Nat
  BY DEF Apps
<1>18. Settled(popped, verb, m, M)
  BY <1>6, <1>7, <1>9, <1>10, <1>11, <1>14, <1>15, <1>17, PopSettled
<1>19. Settled(pushed, other, m, M)
  BY <1>5, <1>6, <1>9, <1>10, <1>11, <1>14, <1>15, PushSettled
<1>20. \A i \in DOMAIN popped : Version(popped[i]) \in N
  BY <1>6, <1>7, <1>14, <1>17, PoppedVersions
<1>21. \A i \in DOMAIN pushed : Version(pushed[i]) \in N
  BY <1>6, <1>14, PushedVersions
<1>22. Line(m) \subseteq M
  BY <1>2, <1>12, <1>13, <1>15, <1>20, <1>21 DEF Line, Stack, Opposite
<1>23. Coherent(Line(m), h, process, c) /\ Counted(Line(m))
  BY <1>16, <1>22, CoherentSubset
<1>24. Leads(m, Line(m))
  BY <1>16, <1>22 DEF Leads
<1>25. Settled(popped, verb, m, Line(m)) /\ Settled(pushed, other, m, Line(m))
  BY <1>18, <1>19, <1>22, SettledSubset
<1>26. QED
  BY <1>2, <1>12, <1>13, <1>23, <1>24, <1>25 DEF Lined, Stack, Opposite

\* A session without steps to undo or redo is a line by itself.
LEMMA LoneLined ==
  ASSUME NEW a \in Apps, NEW h, NEW p, NEW c \in Nat, a.undo = <<>>, a.redo = <<>>,
         a.saved <= Len(a.journal), a.manifest = 0 => a.saved = c, c <= Len(a.journal),
         \A i \in 1..a.saved : Holds(h, a.journal[i])
  PROVE  Lined(a, h, p, c)
<1>1. PICK v \in Versions : v = Version(a)
  BY VersionType
<1>2. Line(a) = {v}
  BY <1>1 DEF Line
<1>3. /\ v.journal = a.journal /\ v.saved = a.saved /\ v.manifest = a.manifest
      /\ a.journal \in Seq(Entries) /\ Len(a.journal) \in Nat /\ a.saved \in Nat /\ v.next \in Nat
  BY <1>1, VersionFields DEF Apps, Versions
<1>4. Agrees(v, v, p)
  <2>1. <<>> \in Seq(Entries) /\ v.journal \o <<>> = v.journal /\ Len(<<>>) = 0 /\ DOMAIN <<>> = {}
    BY <1>3
  <2>2. v.next = v.next + 0 /\ v.nextOp >= v.nextOp
    BY <1>3 DEF Versions
  <2>3. GrownBy(v, v, <<>>, p)
    BY <2>1, <2>2, ReplayedNothing DEF GrownBy, Counts
  <2>4. QED
    BY <2>1, <2>3 DEF Agrees
<1>5. SavedTogether(v, v) /\ SameStart(v, v, c)
  BY <1>3 DEF SavedTogether, SameStart
<1>6. Coherent({v}, h, p, c) /\ Counted({v})
  BY <1>3, <1>4, <1>5 DEF Coherent, Counted
<1>7. Leads(a, {v})
  BY <1>3 DEF Leads, Beyond
<1>8. Settled(a.undo, "undo", a, {v}) /\ Settled(a.redo, "redo", a, {v})
  BY DEF Settled
<1>9. QED
  BY <1>2, <1>6, <1>7, <1>8 DEF Lined

\* A history that grows holds what it held.
LEMMA LinedGrows ==
  ASSUME NEW a, NEW h \in Seq(Entries), NEW more \in Seq(Entries), NEW p, NEW c, Lined(a, h, p, c)
  PROVE  Lined(a, h \o more, p, c)
<1>1. ASSUME NEW e, Holds(h, e) PROVE Holds(h \o more, e)
  <2>1. PICK k \in DOMAIN h : h[k] = e
    BY <1>1 DEF Holds
  <2>2. k \in DOMAIN (h \o more) /\ (h \o more)[k] = e
    BY <2>1
  <2>3. QED
    BY <2>2 DEF Holds
<1>2. \A x \in Line(a) : \A i \in 1..x.saved : Holds(h, x.journal[i])
  BY DEF Lined, Coherent
<1>3. \A x \in Line(a) : \A i \in 1..x.saved : Holds(h \o more, x.journal[i])
  BY <1>1, <1>2
<1>4. Coherent(Line(a), h \o more, p, c)
  BY <1>3 DEF Lined, Coherent
<1>5. QED
  BY <1>4 DEF Lined

\* Stacks go by the journal and the content of the session.
LEMMA SettledSaved ==
  ASSUME NEW stack, NEW verb, NEW a, NEW m, NEW N, Version(a) \in N,
         m.journal = a.journal, m.content = a.content, Settled(stack, verb, a, N)
  PROVE  Settled(stack, verb, m, N \cup {Version(m)})
<1>1. PICK v : v = Version(m)
  OBVIOUS
<1>2. PICK u : u = Version(a)
  OBVIOUS
<1>3. u \in N /\ v.journal = u.journal
  BY <1>1, <1>2, VersionFields
<1>4. ASSUME NEW i \in DOMAIN stack, Idle(stack[i], After(stack, i, a))
      PROVE  Idle(stack[i], After(stack, i, m))
  <2>1. CASE i = Len(stack)
    BY <1>4, <2>1 DEF After, Idle
  <2>2. CASE i # Len(stack)
    <3>1. After(stack, i, m) = After(stack, i, a)
      BY <2>2 DEF After
    <3>2. QED
      BY <1>4, <3>1
  <2>3. QED
    BY <2>1, <2>2
<1>5. ASSUME NEW x, TurnsAway(x, verb, N) PROVE TurnsAway(x, verb, N \cup {v})
  <2>1. Beyond(v, x) => Beyond(u, x) /\ Turn(v, x) = Turn(u, x)
    BY <1>3 DEF Beyond, Extends, Turn
  <2>2. QED
    BY <1>3, <1>5, <2>1 DEF TurnsAway
<1>6. \A x : Same(m, x) => Same(a, x)
  BY DEF Same, Extends
<1>7. \A i \in DOMAIN stack :
          Idle(stack[i], After(stack, i, m)) \/ TurnsAway(stack[i], verb, N \cup {v})
  BY <1>4, <1>5 DEF Settled
<1>8. \A i \in DOMAIN stack :
           Same(m, stack[i]) =>
               \/ Idle(stack[i], After(stack, i, m))
               \/ i = Len(stack) /\ stack[i].end = None
  BY <1>4, <1>6 DEF Settled
<1>9. \A i, j \in DOMAIN stack :
           i < j /\ Same(stack[j], stack[i]) => Idle(stack[i], After(stack, i, m))
  BY <1>4 DEF Settled
<1>10. QED
  BY <1>1, <1>7, <1>8, <1>9 DEF Settled

\* An accepted save: what any version of the line has saved, the session has.
LEMMA SavedHasAll ==
  ASSUME NEW a \in Apps, NEW h \in Seq(Entries), NEW p, NEW c, Lined(a, h, p, c), NEW k \in Nat,
         \A y \in Line(a) : y.manifest <= k,
         a.manifest # 0 => a.manifest = k,
         a.manifest = 0 => UniqueEnvelopes(h \o Pending(a)),
         NEW y \in Line(a)
  PROVE  y.saved <= Len(a.journal) /\ \A i \in 1..y.saved : y.journal[i] = a.journal[i]
<1>1. PICK v \in Line(a) : v = Version(a)
  BY LineHas
<1>2. /\ v.journal = a.journal /\ v.saved = a.saved /\ v.manifest = a.manifest
      /\ a.journal \in Seq(Entries) /\ Len(a.journal) \in Nat
  BY <1>1, VersionFields DEF Apps
<1>3. /\ y \in Versions /\ y.journal \in Seq(Entries) /\ y.saved \in Nat
      /\ y.saved <= Len(y.journal) /\ a.saved <= Len(a.journal) /\ a.saved \in Nat
      /\ SavedTogether(v, y) /\ SameStart(v, y, c) /\ y.manifest <= k
      /\ Len(y.journal) \in Nat
  BY <1>1, <1>2 DEF Lined, Counted, Coherent, Versions
<1>4. CASE a.manifest # 0
  <2>1. y.saved <= a.saved /\ \A i \in 1..y.saved : y.journal[i] = a.journal[i]
    BY <1>2, <1>3, <1>4 DEF SavedTogether
  <2>2. QED
    BY <1>2, <1>3, <2>1
<1>5. CASE a.manifest = 0
  <2>1. c \in Nat /\ a.saved = c /\ c <= Len(a.journal) /\ c <= Len(y.journal)
        /\ \A i \in 1..c : a.journal[i] = y.journal[i]
    BY <1>1, <1>2, <1>3, <1>5 DEF Lined, Coherent, SameStart
  <2>2. y.saved <= c
    <3>1. SUFFICES ASSUME c < y.saved PROVE FALSE
      BY <1>3, <2>1
    <3>2. c + 1 \in 1..y.saved /\ c < Len(y.journal)
      BY <1>3, <2>1, <3>1
    <3>3. PICK j \in DOMAIN h : h[j] = y.journal[c + 1]
      BY <3>2 DEF Lined, Coherent, Holds
    <3>4. c < Len(a.journal)
      <4>1. SUFFICES ASSUME Len(a.journal) = c PROVE FALSE
        BY <1>2, <2>1
      <4>2. DOMAIN a.journal = 1..c
        BY <1>2, <4>1
      <4>3. Beyond(y, a)
        BY <2>1, <3>2, <4>1, <4>2 DEF Beyond, Extends
      <4>4. QED
        BY <4>3 DEF Lined, Leads
    <3>5. a.journal[c + 1].actor = h[j].actor /\ a.journal[c + 1].seq = h[j].seq
      BY <1>2, <1>3, <3>2, <3>3, <3>4 DEF SameStart
    <3>6. PICK new \in Seq(Entries) : new = Pending(a) /\ Len(new) \in Nat \ {0}
                                       /\ new[1] = a.journal[c + 1]
      <4>1. PICK b \in Seq(Entries) : b = a.journal
        BY <1>2
      <4>2. /\ SubSeq(b, c + 1, Len(b)) \in Seq(Entries)
            /\ Len(SubSeq(b, c + 1, Len(b))) = Len(b) - c
            /\ \A i \in 1..(Len(b) - c) : SubSeq(b, c + 1, Len(b))[i] = b[c + i]
        BY <2>1, <4>1, SinceProps
      <4>3. PICK q \in Seq(Entries) : q = SubSeq(b, c + 1, Len(b))
        BY <4>2
      <4>4. Len(q) \in Nat \ {0} /\ q[1] = b[c + 1]
        <5>1. Len(b) - c \in Nat \ {0} /\ 1 \in 1..(Len(b) - c)
          BY <1>2, <2>1, <3>4, <4>1
        <5>2. QED
          BY <4>2, <4>3, <5>1
      <4>5. q = Pending(a)
        BY <2>1, <4>1, <4>3 DEF Pending, Since
      <4>6. QED
        BY <4>1, <4>4, <4>5
    <3>8. PICK all : all = h \o new
      OBVIOUS
    <3>9. PICK n \in Nat : n = Len(h) /\ j \in 1..n
      BY <3>3
    <3>10. /\ j \in DOMAIN all /\ all[j] = h[j]
           /\ n + 1 \in DOMAIN all /\ all[n + 1] = new[1]
      BY <3>6, <3>8, <3>9, EntriesConcat
    <3>11. j = n + 1
      <4>1. UniqueEnvelopes(all)
        BY <1>5, <3>6, <3>8
      <4>2. all[j].actor = all[n + 1].actor /\ all[j].seq = all[n + 1].seq
        BY <3>5, <3>6, <3>10
      <4>3. QED
        BY <3>10, <4>1, <4>2 DEF UniqueEnvelopes
    <3>12. QED
      BY <3>9, <3>11
  <2>3. y.saved <= Len(a.journal) /\ \A i \in 1..y.saved : i \in 1..c
    BY <1>2, <1>3, <2>1, <2>2
  <2>4. QED
    BY <2>1, <2>3
<1>6. QED
  BY <1>4, <1>5

\* A save: all of the session is in the history, as the last of its commits.
LEMMA SaveLined ==
  ASSUME NEW a \in Apps, NEW h \in Seq(Entries), NEW p, NEW c, Lined(a, h, p, c), NEW k \in Nat,
         \A y \in Line(a) : y.manifest <= k,
         a.manifest # 0 => a.manifest = k,
         a.manifest = 0 => UniqueEnvelopes(h \o Pending(a)),
         NEW m \in Apps, m.undo = a.undo, m.redo = a.redo, m.journal = a.journal,
         m.content = a.content, m.next = a.next, m.nextOp = a.nextOp,
         m.saved = Len(a.journal), m.manifest = k + 1
  PROVE  Lined(m, h \o Pending(a), p, c)
<1>1. PICK N : N = Line(a)
  OBVIOUS
<1>2. PICK u \in N : u = Version(a)
  BY <1>1, LineHas
<1>3. PICK v \in Versions : v = Version(m)
  BY VersionType
<1>4. /\ Coherent(N, h, p, c) /\ Counted(N) /\ Leads(a, N)
      /\ Settled(a.undo, "undo", a, N) /\ Settled(a.redo, "redo", a, N)
  BY <1>1 DEF Lined
<1>5. PICK j \in Seq(Entries), n \in Nat : j = a.journal /\ n = Len(j) /\ DOMAIN j = 1..n
  BY DEF Apps
<1>6. /\ u \in Versions /\ u.journal = j /\ u.content = a.content /\ u.next = a.next
      /\ u.nextOp = a.nextOp /\ v.nextOp = a.nextOp
      /\ u.saved = a.saved /\ u.saved \in Nat /\ u.saved <= n
      /\ v.journal = j /\ v.content = a.content /\ v.next = a.next
      /\ v.saved = n /\ v.manifest = k + 1
  BY <1>2, <1>3, <1>4, <1>5, VersionFields DEF Counted, Apps
<1>7. ASSUME NEW y \in N
      PROVE  /\ y \in Versions /\ y.saved \in Nat /\ y.saved <= n
             /\ \A i \in 1..y.saved : y.journal[i] = j[i]
             /\ y.manifest <= k /\ y.manifest \in Nat
             /\ y.saved <= Len(y.journal) /\ Len(y.journal) \in Nat
  <2>1. y.saved <= n /\ \A i \in 1..y.saved : y.journal[i] = j[i]
    BY <1>1, <1>5, SavedHasAll
  <2>2. y \in Versions /\ y.saved <= Len(y.journal) /\ y.manifest <= k
    BY <1>1, <1>4 DEF Counted
  <2>3. y.saved \in Nat /\ Len(y.journal) \in Nat /\ y.manifest \in Nat
    BY <2>2, LocalSessionAssumption DEF Versions
  <2>4. QED
    BY <2>1, <2>2, <2>3
<1>8. ASSUME NEW x, NEW y, NEW new, GrownBy(y, x, new, p)
      PROVE  /\ y = u => GrownBy(v, x, new, p)
             /\ x = u => GrownBy(y, v, new, p)
  BY <1>6, <1>8 DEF GrownBy
<1>9. \A x \in N : Agrees(u, x, p) /\ Agrees(x, u, p)
  BY <1>4 DEF Coherent
<1>10. ASSUME NEW x \in N PROVE Agrees(v, x, p) /\ Agrees(x, v, p)
  <2>1. ASSUME Extends(v, x)
        PROVE  /\ \E new \in Seq(Entries) : GrownBy(v, x, new, p)
               /\ ~(x.saved < Len(x.journal) /\ x.saved = v.saved)
    <3>1. Extends(u, x)
      BY <1>6, <2>1 DEF Extends
    <3>2. PICK new \in Seq(Entries) : GrownBy(u, x, new, p)
      BY <1>9, <3>1 DEF Agrees
    <3>3. GrownBy(v, x, new, p)
      BY <1>8, <3>2
    <3>4. Len(x.journal) <= n
      BY <1>5, <1>6, <2>1 DEF Extends
    <3>5. ~(x.saved < Len(x.journal) /\ x.saved = v.saved)
      BY <1>6, <1>7, <3>4
    <3>6. QED
      BY <3>3, <3>5
  <2>2. ASSUME Extends(x, v)
        PROVE  /\ \E new \in Seq(Entries) : GrownBy(x, v, new, p)
               /\ ~(v.saved < Len(v.journal))
    <3>1. Extends(x, u)
      BY <1>6, <2>2 DEF Extends
    <3>2. PICK new \in Seq(Entries) : GrownBy(x, u, new, p)
      BY <1>9, <3>1 DEF Agrees
    <3>3. GrownBy(x, v, new, p)
      BY <1>8, <3>2
    <3>4. ~(v.saved < Len(v.journal))
      BY <1>5, <1>6
    <3>5. QED
      BY <3>3, <3>4
  <2>3. QED
    BY <2>1, <2>2 DEF Agrees
<1>11. Agrees(v, v, p)
  <2>1. \E new \in Seq(Entries) : GrownBy(v, u, new, p)
    <3>1. Extends(v, u)
      BY <1>5, <1>6 DEF Extends
    <3>2. QED
      BY <1>2, <1>10, <3>1 DEF Agrees
  <2>2. \E new \in Seq(Entries) : GrownBy(v, v, new, p)
    BY <1>8, <2>1
  <2>3. ~(v.saved < Len(v.journal))
    BY <1>5, <1>6
  <2>4. QED
    BY <2>2, <2>3 DEF Agrees
<1>12. ASSUME NEW x \in N PROVE SavedTogether(v, x) /\ SavedTogether(x, v)
  <2>1. SavedTogether(v, x)
    BY <1>6, <1>7 DEF SavedTogether
  <2>2. ~(v.manifest <= x.manifest)
    BY <1>6, <1>7
  <2>3. SavedTogether(x, v)
    BY <2>2 DEF SavedTogether
  <2>4. QED
    BY <2>1, <2>3
<1>13. SavedTogether(v, v) /\ SameStart(v, v, c)
  <2>1. SameStart(u, u, c)
    BY <1>4 DEF Coherent
  <2>2. QED
    BY <1>6, <2>1 DEF SavedTogether, SameStart
<1>14. ASSUME NEW x \in N PROVE SameStart(v, x, c) /\ SameStart(x, v, c)
  <2>1. SameStart(u, x, c) /\ SameStart(x, u, c)
    BY <1>4 DEF Coherent
  <2>2. QED
    BY <1>6, <2>1 DEF SameStart
<1>15. PICK new \in Seq(Entries) :
           /\ new = Pending(a) /\ Len(new) = n - u.saved
           /\ \A i \in 1..(n - u.saved) : new[i] = j[u.saved + i]
  <2>1. Pending(a) = SubSeq(j, u.saved + 1, n)
    BY <1>5, <1>6 DEF Pending, Since
  <2>2. PICK s \in Nat : s = u.saved
    BY <1>6
  <2>3. s <= Len(j) /\ Pending(a) = SubSeq(j, s + 1, Len(j)) /\ n = Len(j)
    BY <1>5, <1>6, <2>1, <2>2
  <2>4. /\ SubSeq(j, s + 1, Len(j)) \in Seq(Entries)
        /\ Len(SubSeq(j, s + 1, Len(j))) = Len(j) - s
        /\ \A i \in 1..(Len(j) - s) : SubSeq(j, s + 1, Len(j))[i] = j[s + i]
    BY <2>3, SinceProps
  <2>5. PICK q \in Seq(Entries) : q = SubSeq(j, s + 1, Len(j))
    BY <2>4
  <2>6. q = Pending(a) /\ Len(q) = n - s /\ \A i \in 1..(n - s) : q[i] = j[s + i]
    BY <2>3, <2>4, <2>5
  <2>7. QED
    BY <2>2, <2>6
<1>16. ASSUME NEW e, Holds(h, e) PROVE Holds(h \o new, e)
  <2>1. PICK i \in DOMAIN h : h[i] = e
    BY <1>16 DEF Holds
  <2>2. i \in DOMAIN (h \o new) /\ (h \o new)[i] = e
    BY <2>1
  <2>3. QED
    BY <2>2 DEF Holds
<1>17. ASSUME NEW i \in 1..n PROVE Holds(h \o new, j[i])
  <2>1. CASE i <= u.saved
    <3>1. i \in 1..u.saved
      BY <1>6, <2>1
    <3>2. Holds(h, u.journal[i])
      BY <1>4, <3>1 DEF Coherent
    <3>3. QED
      BY <1>6, <1>16, <3>2
  <2>2. CASE i > u.saved
    <3>1. PICK l \in 1..(n - u.saved) : i = u.saved + l
      <4>1. i - u.saved \in 1..(n - u.saved) /\ i = u.saved + (i - u.saved)
        BY <1>6, <2>2
      <4>2. QED
        BY <4>1
    <3>2. new[l] = j[i] /\ l \in 1..Len(new)
      BY <1>15, <3>1
    <3>3. Len(h) + l \in DOMAIN (h \o new) /\ (h \o new)[Len(h) + l] = new[l]
      BY <3>2
    <3>4. QED
      BY <3>2, <3>3 DEF Holds
  <2>3. QED
    BY <1>6, <2>1, <2>2
<1>18. PICK M : M = N \cup {v}
  OBVIOUS
<1>19. Coherent(M, h \o new, p, c)
  <2>1. ASSUME NEW x \in M, NEW y \in M
        PROVE  Agrees(y, x, p) /\ SavedTogether(x, y) /\ SameStart(x, y, c)
    <3>1. CASE x \in N /\ y \in N
      BY <1>4, <3>1 DEF Coherent
    <3>2. CASE x = v /\ y = v
      BY <1>11, <1>13, <3>2
    <3>3. CASE x = v /\ y \in N
      BY <1>10, <1>12, <1>14, <3>3
    <3>4. CASE x \in N /\ y = v
      BY <1>10, <1>12, <1>14, <3>4
    <3>5. QED
      BY <1>18, <3>1, <3>2, <3>3, <3>4
  <2>4. c \in Nat
    BY <1>4 DEF Coherent
  <2>2. \A x \in M : x.manifest = 0 => x.saved = c
    <3>1. v.manifest # 0
      BY <1>6
    <3>2. QED
      BY <1>4, <1>18, <3>1 DEF Coherent
  <2>3. \A x \in M : \A i \in 1..x.saved : Holds(h \o new, x.journal[i])
    <3>1. \A i \in 1..v.saved : Holds(h \o new, v.journal[i])
      BY <1>6, <1>17
    <3>2. \A x \in N : \A i \in 1..x.saved : Holds(h \o new, x.journal[i])
      BY <1>4, <1>16 DEF Coherent
    <3>3. QED
      BY <1>18, <3>1, <3>2
  <2>5. QED
    BY <2>1, <2>2, <2>3, <2>4 DEF Coherent
<1>20. Counted(M)
  BY <1>4, <1>5, <1>6, <1>18 DEF Counted
<1>21. Leads(m, M)
  <2>1. ASSUME NEW y \in M, Beyond(y, m) PROVE FALSE
    <3>1. Beyond(y, a)
      BY <2>1 DEF Beyond, Extends
    <3>2. CASE y \in N
      BY <1>4, <3>1, <3>2 DEF Leads
    <3>3. CASE y = v
      BY <1>5, <1>6, <3>1, <3>3 DEF Beyond
    <3>4. QED
      BY <1>18, <3>2, <3>3
  <2>2. QED
    BY <2>1 DEF Leads
<1>22. Settled(m.undo, "undo", m, M) /\ Settled(m.redo, "redo", m, M)
  BY <1>2, <1>3, <1>4, <1>18, SettledSaved
<1>23. Line(m) \subseteq M
  BY <1>1, <1>3, <1>18 DEF Line
<1>24. Coherent(Line(m), h \o new, p, c) /\ Counted(Line(m))
  BY <1>19, <1>20, <1>23, CoherentSubset
<1>25. Leads(m, Line(m))
  BY <1>21, <1>23 DEF Leads
<1>26. Settled(m.undo, "undo", m, Line(m)) /\ Settled(m.redo, "redo", m, Line(m))
  BY <1>22, <1>23, SettledSubset
<1>27. QED
  BY <1>15, <1>24, <1>25, <1>26 DEF Lined

-----------------------------------------------------------------------------
(* The line of the session, action by action.                               *)

\* The line of the session there is.
LineInv == ~app.half => \E c \in Nat : Lined(app, Past(repo), process, c)

\* The inverses that the session holds touch the document alone.
DocInv == DocInverses(app)

\* So do those that are captured.
LEMMA CapturedDocs ==
  ASSUME NEW a, DocInverses(a), NEW first, NEW operations,
         NEW m, m.inverses = Captured(a.inverses, first, operations)
  PROVE  DocInverses(m)
<1>1. SUFFICES ASSUME NEW r \in m.inverses PROVE \A d \in r.put \cup r.cut : d[1] = "doc"
  BY DEF DocInverses
<1>2. CASE r \in a.inverses
  BY <1>2 DEF DocInverses
<1>3. CASE r \notin a.inverses
  <2>1. PICK i \in DOMAIN operations :
            /\ \A e \in operations[i].put \cup operations[i].cut : e[1] = "doc"
            /\ r = [op |-> first + i - 1, put |-> operations[i].cut, cut |-> operations[i].put]
    BY <1>3 DEF Captured
  <2>2. r.put = operations[i].cut /\ r.cut = operations[i].put
    BY <2>1
  <2>3. QED
    BY <2>1, <2>2
<1>4. QED
  BY <1>2, <1>3

\* The kind of the envelope of an edit.
KindOf(e) == IF e[1] = "sheet" THEN "sheet" ELSE "document"

\* What an edit does to a session.
EditFrom(m, a, e, new) ==
    /\ EnvelopesOf(new, KindOf(e), <<[put |-> {e}, cut |-> {}]>>)
    /\ NumberedFrom(new, KindOf(e), a.nextOp)
    /\ Registered(m, a, a.nextOp, Operations(KindOf(e), <<[put |-> {e}, cut |-> {}]>>), process)
    /\ GrownBy(Version(m), Version(a), new, process)
    /\ m \in Apps /\ m.saved = a.saved /\ m.manifest = a.manifest
    /\ m.undo = Append(ClosedStack(a.undo, Len(a.journal)), CheckpointOf(a))
    /\ m.redo = <<>>
    /\ m.open = a.open /\ m.recovered = a.recovered /\ m.lost = a.lost /\ m.half = a.half

\* An edit, at the session.
LEMMA EditGrows ==
  ASSUME IInv, NEW type \in {"doc", "fixed", "sheet"}, Edit(type)
  PROVE  \E new \in Seq(Entries) : EditFrom(app', app, <<type, edits + 1>>, new)
<1>1. /\ app \in Apps /\ process \in Processes /\ app' \in Apps
      /\ app.undo \in Seq(Checkpoints) /\ app.redo \in Seq(Checkpoints)
      /\ Len(app.journal) \in Nat
  <2>1. IInv'
    BY EditInv
  <2>2. app \in Apps /\ process \in Processes
    BY DEF IInv, TypeOK
  <2>3. app' \in Apps
    BY <2>1 DEF IInv, TypeOK
  <2>4. QED
    BY <2>2, <2>3 DEF Apps
<1>2. PICK u \in Seq(Checkpoints) : u = ClosedStack(app.undo, Len(app.journal))
  BY <1>1, ClosedStackProps DEF ClosedFrom
<1>3. PICK r \in Seq(Checkpoints) : r = ClosedStack(app.redo, Len(app.journal))
  BY <1>1, ClosedStackProps DEF ClosedFrom
<1>4. Closed(app) = [app EXCEPT !.undo = u, !.redo = r]
  BY <1>1, <1>2, <1>3 DEF Closed, ClosedStack, Apps
<1>5. PICK c \in Checkpoints : c = CheckpointOf(app)
  BY <1>1, CheckpointProps
<1>6. PICK stepped :
          stepped = [Closed(app) EXCEPT !.undo = Append(@, CheckpointOf(app)), !.redo = <<>>]
  OBVIOUS
<1>7. PICK w \in Seq(Checkpoints) : w = Append(u, c)
  <2>1. Append(u, c) \in Seq(Checkpoints)
    OBVIOUS
  <2>2. QED
    BY <2>1
<1>8. stepped = [app EXCEPT !.undo = w, !.redo = <<>>]
  <2>1. PICK b : b = Closed(app)
    OBVIOUS
  <2>2. b \in Apps /\ b.undo = u
    BY <1>1, <1>4, <2>1 DEF Apps
  <2>3. stepped = [b EXCEPT !.undo = w, !.redo = <<>>]
    BY <1>5, <1>6, <1>7, <2>1, <2>2 DEF Apps
  <2>4. [b EXCEPT !.undo = w, !.redo = <<>>] = [app EXCEPT !.undo = w, !.redo = <<>>]
    BY <1>1, <1>4, <2>1 DEF Apps
  <2>5. QED
    BY <2>3, <2>4
<1>9. /\ stepped \in Apps /\ stepped.undo = w /\ stepped.redo = <<>>
      /\ stepped.journal = app.journal /\ stepped.content = app.content
      /\ stepped.saved = app.saved /\ stepped.manifest = app.manifest
      /\ stepped.next = app.next /\ stepped.nextOp = app.nextOp /\ stepped.open = app.open
      /\ stepped.recovered = app.recovered /\ stepped.lost = app.lost
      /\ stepped.inverses = app.inverses /\ stepped.reused = app.reused
      /\ stepped.half = app.half
  <2>1. <<>> \in Seq(Checkpoints)
    OBVIOUS
  <2>2. QED
    BY <1>1, <1>8, <2>1 DEF Apps
<1>10. Version(stepped) = Version(app)
  BY <1>9 DEF Version
<1>11. PICK e : e = <<type, edits + 1>>
  OBVIOUS
<1>12. PICK changes : changes = <<[put |-> {e}, cut |-> {}]>>
  OBVIOUS
<1>13. changes \in Seq(Changes)
  <2>1. edits \in 0..MaxEdits /\ edits < MaxEdits
    BY DEF IInv, TypeOK, Edit
  <2>2. edits + 1 \in 1..MaxEdits
    BY <2>1, LocalSessionAssumption
  <2>3. [put |-> {e}, cut |-> {}] \in Changes
    BY <1>11, <2>2 DEF Changes, Documents, Edits
  <2>4. QED
    BY <1>12, <2>3
<1>20. PICK kind \in Kinds : kind = KindOf(e) /\ kind = IF type = "sheet" THEN "sheet" ELSE "document"
  BY <1>11 DEF KindOf, Kinds
<1>14. app' = Minted(stepped, kind, changes)
  BY <1>6, <1>11, <1>12, <1>20 DEF Edit
<1>15. MintedAs(app', stepped, kind, changes)
  BY <1>1, <1>9, <1>13, <1>14, MintedGrows
<1>16. PICK new \in Seq(Entries) :
           /\ EnvelopesOf(new, kind, changes) /\ NumberedFrom(new, kind, app.nextOp)
           /\ Registered(app', stepped, app.nextOp, Operations(kind, changes), process)
           /\ GrownBy(Version(app'), Version(stepped), new, process)
           /\ app'.saved = stepped.saved /\ app'.manifest = stepped.manifest
  BY <1>9, <1>15 DEF MintedAs
<1>21. Registered(app', app, app.nextOp, Operations(kind, changes), process)
  BY <1>9, <1>16 DEF Registered
<1>17. /\ app'.undo = w /\ app'.redo = <<>> /\ app'.open = app.open
       /\ app'.recovered = app.recovered /\ app'.lost = app.lost /\ app'.half = app.half
  BY <1>9, <1>14 DEF Minted, Apps
<1>18. EditFrom(app', app, e, new)
  BY <1>1, <1>2, <1>5, <1>7, <1>9, <1>10, <1>12, <1>16, <1>17, <1>20, <1>21 DEF EditFrom
<1>19. QED
  BY <1>11, <1>18

\* A step of the edit history, at the session.
LEMMA StepGrows ==
  ASSUME IInv, NEW verb \in {"undo", "redo"}, Step(verb)
  PROVE  /\ Last(Stack(app, verb)) \in Checkpoints
         /\ \E m \in Apps : \E new \in Seq(Entries) :
                /\ SteppedFrom(m, app, verb, Last(Stack(app, verb)), new)
                /\ m = Stepped(app, verb)
                /\ Version(app') = Version(m) /\ app' \in Apps
                /\ app'.undo = m.undo /\ app'.redo = m.redo
                /\ app'.open = m.open /\ app'.recovered = m.recovered
                /\ app'.half = m.half /\ SameInverses(app', m)
                /\ app'.lost = (m.lost \/ \E e \in app.content \ m.content : e[1] = "fixed")
<1>1. /\ app \in Apps /\ process \in Processes /\ app' \in Apps
      /\ Numbered(app, repo, process) /\ StacksNumbered(app, repo, process)
  BY StepInv DEF IInv, TypeOK, SessionNumbered, StacksNumbered
<1>2. PICK t : t = Last(Stack(app, verb))
  OBVIOUS
<1>3. Stack(app, verb) # <<>>
  BY DEF Step
<1>4. t \in Checkpoints /\ t.saved <= Len(t.journal)
  BY <1>1, <1>2, <1>3, StackedProps DEF Numbered
<1>5. PICK m : m = Stepped(app, verb)
  OBVIOUS
<1>6. PICK new \in Seq(Entries) : SteppedFrom(m, app, verb, t, new)
  BY <1>1, <1>2, <1>3, <1>4, <1>5, SteppedGrows
<1>7. m \in Apps
  BY <1>6 DEF SteppedFrom
<1>8. PICK lost \in BOOLEAN :
          lost = (m.lost \/ \E e \in app.content \ m.content : e[1] = "fixed")
  BY <1>7 DEF Apps
<1>9. app' = [m EXCEPT !.lost = lost]
  BY <1>5, <1>7, <1>8 DEF Step, Apps
<1>10. /\ app'.undo = m.undo /\ app'.redo = m.redo /\ app'.content = m.content
       /\ app'.journal = m.journal /\ app'.saved = m.saved /\ app'.manifest = m.manifest
       /\ app'.next = m.next /\ app'.nextOp = m.nextOp
       /\ app'.open = m.open /\ app'.recovered = m.recovered
       /\ app'.lost = lost /\ app'.half = m.half
       /\ app'.inverses = m.inverses /\ app'.reused = m.reused
  BY <1>7, <1>9 DEF Apps
<1>11. Version(app') = Version(m)
  BY <1>10 DEF Version
<1>13. SameInverses(app', m)
  BY <1>10 DEF SameInverses
<1>12. QED
  BY <1>1, <1>2, <1>4, <1>5, <1>6, <1>7, <1>8, <1>10, <1>11, <1>13

\* The same versions and the same stacks are the same line.
LEMMA LinedSame ==
  ASSUME NEW a, NEW m, NEW h, NEW p, NEW c, Lined(m, h, p, c),
         Version(a) = Version(m), a.undo = m.undo, a.redo = m.redo
  PROVE  Lined(a, h, p, c)
<1>1. Line(a) = Line(m)
  BY DEF Line
<1>2. /\ a.content = m.content /\ a.journal = m.journal
  BY VersionFields
<1>3. ASSUME NEW x PROVE /\ Beyond(x, a) <=> Beyond(x, m)
                         /\ Same(a, x) <=> Same(m, x)
                         /\ Idle(x, a) <=> Idle(x, m)
  BY <1>2 DEF Beyond, Extends, Same, Idle
<1>4. Leads(a, Line(a))
  BY <1>1, <1>3 DEF Lined, Leads
<1>5. ASSUME NEW stack, NEW verb, Settled(stack, verb, m, Line(m))
      PROVE  Settled(stack, verb, a, Line(a))
  <2>1. \A i \in DOMAIN stack : Idle(stack[i], After(stack, i, m)) => Idle(stack[i], After(stack, i, a))
    BY <1>3 DEF After
  <2>2. QED
    BY <1>1, <1>3, <1>5, <2>1 DEF Settled
<1>6. QED
  BY <1>1, <1>4, <1>5 DEF Lined

\* A session without stacks is on a line.
LEMMA LoneLine ==
  ASSUME NEW a \in Apps, NEW r, NEW p, a.undo = <<>>, a.redo = <<>>,
         Numbered(a, r, p),
         \A i \in 1..a.saved : Holds(Past(r), a.journal[i])
  PROVE  \E c \in Nat : Lined(a, Past(r), p, c)
<1>1. PICK c \in Nat : c = a.saved
  BY DEF Apps
<1>2. a.saved <= Len(a.journal)
  BY DEF Numbered
<1>3. Lined(a, Past(r), p, c)
  BY <1>1, <1>2, LoneLined
<1>4. QED
  BY <1>3

\* A new document is on a line.
LEMMA LineInit == Init => LineInv
<1> SUFFICES ASSUME Init PROVE LineInv
  OBVIOUS
<1>1. IInv
  BY InitInv
<1>2. app \in Apps /\ Numbered(app, repo, process)
  BY <1>1 DEF IInv, TypeOK, SessionNumbered
<1>3. app.undo = <<>> /\ app.redo = <<>> /\ app.saved = 0
  BY DEF Init, NoDocument
<1>4. QED
  BY <1>2, <1>3, LoneLine DEF LineInv

\* All versions of a line are of commits that there are.
LEMMA LineManifests ==
  ASSUME IInv, NEW y \in Line(app)
  PROVE  y.manifest <= Len(repo)
<1>1. /\ app.manifest <= Len(repo)
      /\ \A i \in DOMAIN app.undo : app.undo[i].manifest <= Len(repo)
      /\ \A i \in DOMAIN app.redo : app.redo[i].manifest <= Len(repo)
  BY DEF IInv, SessionNumbered, StackNumbered, Numbered
<1>2. QED
  BY <1>1, VersionFields DEF Line

\* An edit goes on with the line.
LEMMA LineEdit ==
  ASSUME IInv, LineInv, NEW type \in {"doc", "fixed", "sheet"}, Edit(type)
  PROVE  LineInv'
<1>1. PICK new \in Seq(Entries) : EditFrom(app', app, <<type, edits + 1>>, new)
  BY EditGrows
<1>2. new # <<>> /\ new[1].kind \notin {"undo", "redo"}
  <2>1. PICK changes : changes = <<[put |-> {<<type, edits + 1>>}, cut |-> {}]>>
    OBVIOUS
  <2>2. Len(changes) = 1
    BY <2>1
  <2>3. Len(new) = 1 /\ \A i \in DOMAIN new : new[i].kind \in {"sheet", "document"}
    <3>1. EnvelopesOf(new, KindOf(<<type, edits + 1>>), changes)
      BY <1>1, <2>1 DEF EditFrom
    <3>2. KindOf(<<type, edits + 1>>) \in {"sheet", "document"}
      BY DEF KindOf
    <3>3. QED
      BY <2>2, <3>1, <3>2 DEF EnvelopesOf
  <2>4. DOMAIN new = 1..1
    BY <2>3
  <2>5. 1 \in DOMAIN new
    BY <2>4
  <2>6. new[1].kind \in {"sheet", "document"}
    BY <2>3, <2>5
  <2>7. new # <<>>
    BY <2>5
  <2>8. QED
    BY <2>6, <2>7
<1>3. app \in Apps /\ repo' = repo /\ process' = process /\ app'.half = app.half
  BY <1>1 DEF IInv, TypeOK, Edit, EditFrom
<1>4. ASSUME NEW c \in Nat, Lined(app, Past(repo), process, c)
      PROVE  Lined(app', Past(repo), process, c)
  <2>1. Lined(app, Past(repo), process, c)
    BY <1>4
  <2>2. /\ app' \in Apps /\ GrownBy(Version(app'), Version(app), new, process)
        /\ app'.saved = app.saved /\ app'.manifest = app.manifest
        /\ app'.undo = Append(ClosedStack(app.undo, Len(app.journal)), CheckpointOf(app))
        /\ app'.redo = <<>>
    BY <1>1 DEF EditFrom
  <2>3. QED
    BY <1>2, <1>3, <2>1, <2>2, EditLined
<1>5. QED
  BY <1>3, <1>4 DEF LineInv

\* So does a step of the edit history.
LEMMA LineStep ==
  ASSUME IInv, DocInv, LineInv, NEW verb \in {"undo", "redo"}, Step(verb)
  PROVE  LineInv'
<1>1. PICK t \in Checkpoints : t = Last(Stack(app, verb))
  BY StepGrows
<1>2. PICK m \in Apps, new \in Seq(Entries) :
          /\ SteppedFrom(m, app, verb, t, new)
          /\ Version(app') = Version(m) /\ app' \in Apps
          /\ app'.undo = m.undo /\ app'.redo = m.redo /\ app'.half = m.half
  BY <1>1, StepGrows
<1>3. app \in Apps /\ repo' = repo /\ process' = process /\ Stack(app, verb) # <<>>
  BY DEF IInv, TypeOK, Step
<1>7. m.half = app.half
  BY <1>2 DEF SteppedFrom, StacksMoved
<1>4. ASSUME NEW c \in Nat, Lined(app, Past(repo), process, c)
      PROVE  Lined(app', Past(repo), process, c)
  <2>1. DocInverses(app)
    BY DEF DocInv
  <2>2. Lined(m, Past(repo), process, c)
    BY <1>1, <1>2, <1>3, <1>4, <2>1, StepLined
  <2>3. QED
    BY <1>2, <2>2, LinedSame
<1>6. QED
  BY <1>2, <1>3, <1>4, <1>7 DEF LineInv

\* A save puts all of the session in the history.
LEMMA LineSave == ASSUME IInv, LineInv, Save PROVE LineInv'
<1>1. PICK d : d = [content |-> app.content, history |-> History \o Pending(app),
                    behind |-> Behind(app)]
  OBVIOUS
<1>2. /\ repo' = Append(repo, d) /\ Accepted(app) /\ process' = process
      /\ app' = [app EXCEPT !.saved = Len(app.journal), !.manifest = Len(repo) + 1,
                            !.recovered = FALSE]
  BY <1>1 DEF Save, Commit
<1>3. Past(repo') = Past(repo) \o Pending(app)
  <2>1. Past(repo') = d.history
    BY <1>1, <1>2, CommitInv
  <2>2. History = Past(repo)
    BY DEF History, Past
  <2>3. QED
    BY <1>1, <2>1, <2>2
<1>4. /\ app \in Apps /\ repo \in Seq(Commits) /\ Len(repo) \in Nat /\ app' \in Apps
      /\ Past(repo) \in Seq(Entries)
  BY SaveInv, PastType DEF IInv, TypeOK
<1>5. /\ app'.undo = app.undo /\ app'.redo = app.redo /\ app'.journal = app.journal
      /\ app'.content = app.content /\ app'.next = app.next /\ app'.nextOp = app.nextOp
      /\ app'.half = app.half /\ app'.saved = Len(app.journal) /\ app'.manifest = Len(repo) + 1
  BY <1>2, <1>4 DEF Apps
<1>6. app.manifest # 0 => app.manifest = Len(repo)
  BY <1>2 DEF Accepted
<1>7. app.manifest = 0 => UniqueEnvelopes(Past(repo) \o Pending(app))
  BY <1>2 DEF Accepted, Unique, History, Past
<1>8. \A y \in Line(app) : y.manifest <= Len(repo)
  BY LineManifests
<1>9. ASSUME NEW c \in Nat, Lined(app, Past(repo), process, c)
      PROVE  Lined(app', Past(repo) \o Pending(app), process, c)
  <2>1. PICK k \in Nat : k = Len(repo)
    BY <1>4
  <2>2. PICK h \in Seq(Entries) : h = Past(repo)
    BY <1>4
  <2>3. Lined(app, h, process, c)
    BY <1>9, <2>2
  <2>4. /\ \A y \in Line(app) : y.manifest <= k
        /\ app.manifest # 0 => app.manifest = k
        /\ app.manifest = 0 => UniqueEnvelopes(h \o Pending(app))
        /\ app'.manifest = k + 1
    BY <1>5, <1>6, <1>7, <1>8, <2>1, <2>2
  <2>5. Lined(app', h \o Pending(app), process, c)
    BY <1>4, <1>5, <2>3, <2>4, SaveLined
  <2>6. QED
    BY <2>2, <2>5
<1>10. QED
  BY <1>2, <1>3, <1>5, <1>9 DEF LineInv

\* A save that fails half way does so too, and the session does not know.
LEMMA LineSaveHalf == ASSUME IInv, LineInv, SaveHalf PROVE LineInv'
<1>1. PICK d : d = [content |-> app.content, history |-> History \o Pending(app),
                    behind |-> Behind(app)]
  OBVIOUS
<1>2. repo' = Append(repo, d) /\ Accepted(app) /\ process' = process /\ app' = app
  BY <1>1 DEF SaveHalf, Commit
<1>3. Past(repo') = Past(repo) \o Pending(app)
  <2>1. Past(repo') = d.history
    BY <1>1, <1>2, CommitInv
  <2>2. History = Past(repo)
    BY DEF History, Past
  <2>3. QED
    BY <1>1, <2>1, <2>2
<1>4. Past(repo) \in Seq(Entries) /\ Pending(app) \in Seq(Entries)
  <2>1. app \in Apps /\ repo \in Seq(Commits) /\ app.saved <= Len(app.journal)
    BY DEF IInv, TypeOK
  <2>2. PICK j \in Seq(Entries), n \in Nat : j = app.journal /\ n = app.saved /\ n <= Len(j)
    BY <2>1 DEF Apps
  <2>3. SubSeq(j, n + 1, Len(j)) \in Seq(Entries)
    BY <2>2, SinceProps
  <2>4. QED
    BY <2>1, <2>2, <2>3, PastType DEF Pending, Since
<1>5. QED
  BY <1>2, <1>3, <1>4, LinedGrows DEF LineInv

\* What is opened is a line by itself.
LEMMA LineOpen == ASSUME IInv, LineInv, Open PROVE LineInv'
<1>1. /\ repo # <<>> /\ repo' = repo /\ process' = process
      /\ app' = [NoDocument EXCEPT !.open = TRUE,
                                   !.content = Last(repo).content,
                                   !.journal = History,
                                   !.saved = Len(History),
                                   !.manifest = Len(repo),
                                   !.next = Rebased(History, app.next),
                                   !.nextOp = RebasedOp(History, app.nextOp),
                                   !.inverses = app.inverses]
  BY DEF Open
<1>2. /\ app' \in Apps /\ Numbered(app', repo, process)
      /\ repo \in Seq(Commits)
  BY <1>1, OpenInv DEF IInv, TypeOK, SessionNumbered
<1>3. PICK h \in Seq(Entries) : h = Past(repo)
  BY <1>2, PastType
<1>4. /\ app'.undo = <<>> /\ app'.redo = <<>> /\ app'.journal = h /\ app'.saved = Len(h)
      /\ app'.manifest = Len(repo)
  BY <1>1, <1>3 DEF NoDocument, History, Past
<1>6. \A i \in 1..app'.saved : Holds(h, h[i])
  BY <1>4 DEF Holds
<1>7. QED
  BY <1>1, <1>2, <1>3, <1>4, <1>6, LoneLine DEF LineInv

\* When an open fails, what is there is a line by itself if there are no stacks.
LEMMA LineOpenHalf == ASSUME IInv, OpenHalf PROVE LineInv'
<1>1. /\ repo # <<>> /\ repo' = repo /\ process' = process
      /\ app' = [app EXCEPT !.open = TRUE,
                            !.content = Last(repo).content,
                            !.journal = History,
                            !.saved = Len(History),
                            !.next = Rebased(History, @),
                            !.nextOp = RebasedOp(History, @),
                            !.recovered = FALSE,
                            !.half = @ \/ app.undo # <<>> \/ app.redo # <<>>]
  BY DEF OpenHalf
<1>2. /\ app \in Apps /\ app' \in Apps /\ Numbered(app', repo, process)
      /\ repo \in Seq(Commits)
  BY <1>1, OpenHalfInv DEF IInv, TypeOK, SessionNumbered
<1>3. PICK h \in Seq(Entries) : h = Past(repo)
  BY <1>2, PastType
<1>4. /\ app'.undo = app.undo /\ app'.redo = app.redo /\ app'.journal = h
      /\ app'.saved = Len(h)
      /\ ~app'.half => app.undo = <<>> /\ app.redo = <<>>
  <2>1. History = h
    BY <1>3 DEF History, Past
  <2>2. QED
    BY <1>1, <1>2, <2>1 DEF Apps
<1>5. \A i \in 1..app'.saved : Holds(h, h[i])
  BY <1>4 DEF Holds
<1>6. QED
  BY <1>1, <1>2, <1>3, <1>4, <1>5, LoneLine DEF LineInv

\* What is recovered, or nothing.
LEMMA LineUnsaved ==
  ASSUME NEW a \in Apps, NEW r, NEW p, a.undo = <<>>, a.redo = <<>>,
         Numbered(a, r, p), a.saved = 0
  PROVE  \E c \in Nat : Lined(a, Past(r), p, c)
BY LoneLine

\* So is a closed document.
LEMMA LineNothing ==
  ASSUME NEW r \in Seq(Commits), NEW p
  PROVE  \E c \in Nat : Lined(NoDocument, Past(r), p, c)
<1>1. NoDocument.undo = <<>> /\ NoDocument.redo = <<>> /\ NoDocument.saved = 0
  BY DEF NoDocument
<1>2. QED
  BY <1>1, NothingOpen, LineUnsaved

\* So is what is recovered.
LEMMA LineRecovered ==
  ASSUME IInv, NEW s \in Ids, segments[s] # None
  PROVE  \E c \in Nat : Lined(Recovered(segments[s]), Past(repo), process, c)
<1>1. PICK a \in Apps : a = Recovered(segments[s]) /\ Numbered(a, repo, process)
  BY RecoveredProps
<1>2. a.undo = <<>> /\ a.redo = <<>> /\ a.saved = 0
  BY <1>1 DEF Recovered, NoDocument
<1>3. QED
  BY <1>1, <1>2, LineUnsaved

\* Every step keeps the session on a line.
LEMMA LineNext == ASSUME IInv, DocInv, LineInv, [Next]_vars PROVE LineInv'
<1>1. ASSUME NEW type \in {"doc", "fixed", "sheet"}, Edit(type) PROVE LineInv'
  BY <1>1, LineEdit
<1>2. ASSUME NEW verb \in {"undo", "redo"}, Step(verb) PROVE LineInv'
  BY <1>2, LineStep
<1>3. CASE Save
  BY <1>3, LineSave
<1>4. CASE SaveHalf
  BY <1>4, LineSaveHalf
<1>5. CASE Open
  BY <1>5, LineOpen
<1>13. CASE OpenHalf
  BY <1>13, LineOpenHalf
<1>6. repo \in Seq(Commits)
  BY DEF IInv, TypeOK
<1>7. CASE Close
  BY <1>6, <1>7, LineNothing DEF Close, LineInv
<1>8. CASE Restart
  BY <1>6, <1>8, LineNothing DEF Restart, LineInv
<1>9. ASSUME NEW s \in Ids, Recover(s) \/ RecoverHalf(s) PROVE LineInv'
  BY <1>9, LineRecovered DEF Recover, RecoverHalf, LineInv
<1>10. CASE UNCHANGED <<app, repo, process>>
  BY <1>10 DEF LineInv
<1>11. ASSUME \/ \E s \in Ids : Discard(s)
              \/ SyncRemove \/ SyncAppend \/ SyncBegin \/ SyncReplace \/ SyncNothing
              \/ UNCHANGED vars
       PROVE  UNCHANGED <<app, repo, process>>
  BY <1>11 DEF Discard, SyncRemove, SyncAppend, SyncBegin, SyncReplace, SyncNothing, vars
<1>12. QED
  BY <1>1, <1>2, <1>3, <1>4, <1>5, <1>7, <1>8, <1>9, <1>10, <1>11, <1>13 DEF Next

\* There are no inverses at first.
LEMMA DocInit == Init => DocInv
BY DEF Init, NoDocument, DocInv, DocInverses

\* Every step captures inverses of the document alone.
LEMMA DocNext == ASSUME IInv, DocInv, [Next]_vars PROVE DocInv'
<1>1. ASSUME NEW type \in {"doc", "fixed", "sheet"}, Edit(type) PROVE DocInv'
  <2>1. PICK new \in Seq(Entries) : EditFrom(app', app, <<type, edits + 1>>, new)
    BY <1>1, EditGrows
  <2>2. PICK operations : app'.inverses = Captured(app.inverses, app.nextOp, operations)
    BY <2>1 DEF EditFrom, Registered
  <2>3. QED
    BY <2>2, CapturedDocs DEF DocInv
<1>2. ASSUME NEW verb \in {"undo", "redo"}, Step(verb) PROVE DocInv'
  <2>1. PICK t \in Checkpoints : t = Last(Stack(app, verb))
    BY <1>2, StepGrows
  <2>2. PICK m \in Apps, new \in Seq(Entries) :
            SteppedFrom(m, app, verb, t, new) /\ SameInverses(app', m)
    BY <1>2, <2>1, StepGrows
  <2>3. CASE Reversible(app, t)
    <3>1. m.inverses = Captured(app.inverses, app.nextOp, InverseOf(app, t))
      BY <2>2, <2>3 DEF SteppedFrom, Registered
    <3>2. DocInverses(m)
      BY <3>1, CapturedDocs DEF DocInv
    <3>3. QED
      BY <2>2, <3>2 DEF DocInv, DocInverses, SameInverses
  <2>4. CASE ~Reversible(app, t)
    BY <2>2, <2>4 DEF SteppedFrom, DocInv, DocInverses, SameInverses
  <2>5. QED
    BY <2>3, <2>4
<1>3. app \in Apps
  BY DEF IInv, TypeOK
<1>4. app'.inverses \in {app.inverses, {}} => DocInv'
  BY DEF DocInv, DocInverses
<1>5. CASE Save \/ SaveHalf \/ Open \/ OpenHalf \/ Close \/ Restart
  <2>1. CASE Save \/ SaveHalf
    BY <1>3, <1>4, <2>1 DEF Save, SaveHalf, Apps
  <2>2. CASE OpenHalf
    BY <1>3, <1>4, <2>2 DEF OpenHalf, Apps
  <2>3. CASE Open
    <3>1. app'.inverses = app.inverses
      BY <2>3 DEF Open, NoDocument
    <3>2. QED
      BY <1>4, <3>1
  <2>4. CASE Close \/ Restart
    <3>1. app'.inverses = {}
      BY <2>4 DEF Close, Restart, NoDocument
    <3>2. QED
      BY <1>4, <3>1
  <2>5. QED
    BY <1>5, <2>1, <2>2, <2>3, <2>4
<1>6. ASSUME NEW s \in Ids, Recover(s) \/ RecoverHalf(s) PROVE DocInv'
  <2>1. app' = Recovered(segments[s])
    BY <1>6 DEF Recover, RecoverHalf
  <2>2. app'.inverses = app.inverses
    BY <2>1 DEF Recovered, NoDocument
  <2>3. QED
    BY <1>4, <2>2
<1>7. ASSUME \/ \E s \in Ids : Discard(s)
             \/ SyncRemove \/ SyncAppend \/ SyncBegin \/ SyncReplace \/ SyncNothing
             \/ UNCHANGED vars
      PROVE  app' = app
  BY <1>7 DEF Discard, SyncRemove, SyncAppend, SyncBegin, SyncReplace, SyncNothing, vars
<1>8. QED
  BY <1>1, <1>2, <1>4, <1>5, <1>6, <1>7 DEF Next

-----------------------------------------------------------------------------
(* The shadow of a session.                                                *)

\* The first free number is the highest of those after next and after the
\* process's own.
FirstFree(n, entries, next, p) ==
    /\ n = next \/ \E i \in DOMAIN entries : entries[i].actor = p /\ n = entries[i].seq + 1
    /\ n >= next
    /\ \A i \in DOMAIN entries : entries[i].actor = p => n >= entries[i].seq + 1

\* The greatest of a set is its maximum.
LEMMA MaxIs ==
  ASSUME NEW S \in SUBSET Nat, NEW n \in S, \A m \in S : n >= m
  PROVE  Max(S) = n
<1>1. PICK c : c = CHOOSE x \in S : \A y \in S : x >= y
  OBVIOUS
<1>2. c \in S /\ \A y \in S : c >= y
  BY <1>1
<1>3. c = n
  BY <1>2
<1>4. QED
  BY <1>1, <1>3 DEF Max

\* The first free number is what rebasing gives.
LEMMA RebasedIs ==
  ASSUME NEW entries \in Seq(Entries), NEW next \in Nat, NEW n \in Nat,
         FirstFree(n, entries, next, process)
  PROVE  Rebased(entries, next) = n
<1>1. PICK free : free = {next} \cup {entries[i].seq + 1 : i \in Own(entries)}
  OBVIOUS
<1>2. \A i \in DOMAIN entries : entries[i].seq \in Nat
  BY OwnFinite
<1>3. free \in SUBSET Nat
  BY <1>1, <1>2 DEF Own
<1>4. n \in free /\ \A m \in free : n >= m
  BY <1>1 DEF FirstFree, Own
<1>5. Max(free) = n
  BY <1>3, <1>4, MaxIs
<1>6. QED
  BY <1>1, <1>5 DEF Rebased

\* Likewise the number of the next operation, after this actor's operations.
LEMMA RebasedOpIs ==
  ASSUME NEW entries \in Seq(Entries), NEW nextOp \in Nat, NEW n \in Nat,
         Counts(n, entries, nextOp), \A i \in DOMAIN entries : entries[i].actor = process
  PROVE  RebasedOp(entries, nextOp) = n
<1>1. PICK free : free = {nextOp} \cup {entries[i].op + 1 : i \in Own(entries)}
  OBVIOUS
<1>2. \A i \in DOMAIN entries : entries[i].op \in Nat
  BY OwnFinite
<1>3. free \in SUBSET Nat
  BY <1>1, <1>2 DEF Own
<1>4. n \in free
  BY <1>1 DEF Counts, Own
<1>5. \A m \in free : n >= m
  <2>1. n >= nextOp /\ \A i \in DOMAIN entries : entries[i].op < n
    BY DEF Counts
  <2>2. \A i \in Own(entries) : n >= entries[i].op + 1
    BY <1>2, <2>1 DEF Own
  <2>3. QED
    BY <1>1, <2>1, <2>2
<1>6. Max(free) = n
  BY <1>3, <1>4, <1>5, MaxIs
<1>7. QED
  BY <1>1, <1>6 DEF RebasedOp

\* Envelopes minted from the first free number move it on by one each.
LEMMA FirstFreeGrows ==
  ASSUME NEW entries \in Seq(Entries), NEW next \in Nat, NEW new \in Seq(Entries),
         NEW k \in Nat, NEW p, FirstFree(k, entries, next, p),
         \A i \in DOMAIN new : new[i].actor = p /\ new[i].seq = k + i - 1
  PROVE  FirstFree(k + Len(new), entries \o new, next, p)
<1>1. /\ k >= next
      /\ \A i \in DOMAIN entries : entries[i].actor = p => entries[i].seq + 1 <= k
  BY DEF FirstFree
<1>2. PICK l \in Nat : l = Len(new) /\ DOMAIN new = 1..l
  OBVIOUS
<1>3. CASE l = 0
  <2>1. new = <<>>
    BY <1>2, <1>3, EmptySeq
  <2>2. entries \o <<>> = entries
    OBVIOUS
  <2>3. QED
    BY <1>1, <1>2, <1>3, <2>1, <2>2
<1>4. CASE l # 0
  <2>1. PICK u \in Seq(Entries), n \in Nat :
            /\ u = entries \o new /\ n = Len(entries) /\ DOMAIN u = 1..(n + l)
            /\ \A i \in 1..n : i \in DOMAIN entries /\ u[i] = entries[i]
            /\ \A i \in 1..l : u[n + i] = new[i]
    <3>1. entries \o new \in Seq(Entries) /\ Len(entries) \in Nat
      BY EntriesConcat
    <3>2. QED
      BY <1>2, <3>1, EntriesConcat
  <2>2. l \in 1..l /\ n + l \in DOMAIN u
    BY <1>4, <2>1
  <2>3. u[n + l].actor = p /\ k + l = u[n + l].seq + 1
    <3>1. u[n + l] = new[l] /\ new[l].actor = p /\ new[l].seq = k + l - 1
      BY <1>2, <2>1, <2>2
    <3>2. QED
      BY <1>1, <3>1
  <2>4. ASSUME NEW i \in DOMAIN u, u[i].actor = p PROVE k + l >= u[i].seq + 1
    <3>1. CASE i <= n
      <4>1. i \in DOMAIN entries /\ u[i] = entries[i]
        BY <2>1, <3>1
      <4>2. entries[i].seq + 1 <= k /\ entries[i].seq \in Nat
        BY <1>1, <2>4, <4>1, EntryFacts
      <4>3. QED
        BY <1>1, <4>1, <4>2
    <3>2. CASE i > n
      <4>1. i - n \in 1..l /\ i = n + (i - n)
        BY <2>1, <3>2
      <4>2. PICK j \in 1..l : i = n + j
        BY <4>1
      <4>3. u[i] = new[j] /\ new[j].seq = k + j - 1
        BY <1>2, <2>1, <4>2
      <4>4. QED
        BY <1>1, <4>3
    <3>3. QED
      BY <2>1, <3>1, <3>2
  <2>5. k + l \in Nat /\ k + l >= next /\ next \in Nat
    BY <1>1
  <2>6. FirstFree(k + l, u, next, p)
    BY <2>2, <2>3, <2>4, <2>5 DEF FirstFree
  <2>7. QED
    BY <1>2, <2>1, <2>6
<1>5. QED
  BY <1>3, <1>4

\* The entries after a position, of a journal that has been appended to.
LEMMA SinceConcat ==
  ASSUME NEW j \in Seq(Entries), NEW new \in Seq(Entries), NEW n \in Nat, n <= Len(j)
  PROVE  SubSeq(j \o new, n + 1, Len(j \o new)) = SubSeq(j, n + 1, Len(j)) \o new
<1>1. PICK k \in Seq(Entries), l \in Nat, m \in Nat :
          /\ k = j \o new /\ l = Len(j) /\ m = Len(new) /\ Len(k) = l + m
          /\ \A i \in 1..l : k[i] = j[i]
          /\ \A i \in 1..m : k[l + i] = new[i]
  <2>1. j \o new \in Seq(Entries) /\ Len(j \o new) = Len(j) + Len(new)
    OBVIOUS
  <2>2. Len(j) \in Nat /\ Len(new) \in Nat
    OBVIOUS
  <2>3. /\ \A i \in 1..Len(j) : (j \o new)[i] = j[i]
        /\ \A i \in 1..Len(new) : (j \o new)[Len(j) + i] = new[i]
    BY EntriesConcat
  <2>4. QED
    BY <2>1, <2>2, <2>3
<1>2. PICK w \in Seq(Entries) : w = SubSeq(k, n + 1, Len(k))
  <2>1. n <= Len(k)
    BY <1>1
  <2>2. SubSeq(k, n + 1, Len(k)) \in Seq(Entries)
    BY <2>1, SinceProps
  <2>3. QED
    BY <2>2
<1>3. Len(w) = l + m - n /\ \A i \in 1..(l + m - n) : w[i] = k[n + i]
  <2>1. PICK c \in Nat : c = Len(k) /\ c = l + m /\ n <= c
    BY <1>1
  <2>2. /\ Len(SubSeq(k, n + 1, Len(k))) = c - n
        /\ \A i \in 1..(c - n) : SubSeq(k, n + 1, Len(k))[i] = k[n + i]
    BY <2>1, SinceProps
  <2>3. QED
    BY <1>2, <2>1, <2>2
<1>4. PICK u \in Seq(Entries) : u = SubSeq(j, n + 1, Len(j))
  BY SinceProps
<1>5. Len(u) = l - n /\ \A i \in 1..(l - n) : u[i] = j[n + i]
  <2>1. /\ Len(SubSeq(j, n + 1, Len(j))) = Len(j) - n
        /\ \A i \in 1..(Len(j) - n) : SubSeq(j, n + 1, Len(j))[i] = j[n + i]
    BY SinceProps
  <2>2. QED
    BY <1>1, <1>4, <2>1
<1>6. \A i \in DOMAIN u : w[i] = u[i]
  <2>0. DOMAIN u = 1..(l - n)
    BY <1>5
  <2>1. SUFFICES ASSUME NEW i \in 1..(l - n) PROVE w[i] = u[i]
    BY <2>0
  <2>2. i \in 1..(l + m - n) /\ n + i \in 1..l
    BY <1>1, <2>1
  <2>3. w[i] = k[n + i] /\ u[i] = j[n + i] /\ k[n + i] = j[n + i]
    BY <1>1, <1>3, <1>5, <2>1, <2>2
  <2>4. QED
    BY <2>3
<1>7. \A i \in DOMAIN new : w[Len(u) + i] = new[i]
  <2>1. SUFFICES ASSUME NEW i \in 1..m PROVE w[(l - n) + i] = new[i]
    BY <1>1, <1>5
  <2>2. (l - n) + i \in 1..(l + m - n) /\ n + ((l - n) + i) = l + i
    BY <1>1
  <2>3. QED
    BY <1>1, <1>3, <2>2
<1>8. w = u \o new
  <2>1. Len(w) = Len(u) + Len(new)
    BY <1>1, <1>3, <1>5
  <2>2. QED
    BY <1>6, <1>7, <2>1, ConcatPointwise
<1>9. QED
  BY <1>1, <1>2, <1>4, <1>8

\* With the entries `new' appended to it, a segment replays to a session.
Shadows(s, new, a, p) ==
    /\ s # None
    /\ Replayed(s.base, s.frames \o new) = a.content
    /\ s.manifest = a.manifest
    /\ FirstFree(a.next, s.frames \o new, s.next, p)
    /\ Counts(a.nextOp, s.frames \o new, s.nextOp)
    /\ \A i \in DOMAIN (s.frames \o new) : (s.frames \o new)[i].actor = p
    /\ s.noted \o Identities(s.frames \o new) = Identities(Pending(a))

\* A segment that shadows a session shadows, with what the session has grown
\* by, the session that it has grown to.
LEMMA ShadowsGrown ==
  ASSUME NEW s \in Segments, NEW a \in Apps, NEW b \in Apps, NEW new \in Seq(Entries), NEW p,
         Shadows(s, <<>>, a, p), GrownBy(Version(b), Version(a), new, p),
         a.manifest = b.manifest, a.saved = b.saved, a.saved <= Len(a.journal)
  PROVE  Shadows(s, new, b, p)
<1>1. /\ s.frames \in Seq(Entries) /\ s.noted \in Seq(EntryIds) /\ s.next \in Nat \ {0}
      /\ s.nextOp \in Nat
  BY DEF Segments
<1>2. PICK f \in Seq(Entries) : f = s.frames
  BY <1>1
<1>3. f \o <<>> = f
  OBVIOUS
<1>4. /\ s # None /\ Replayed(s.base, f) = a.content /\ s.manifest = a.manifest
      /\ FirstFree(a.next, f, s.next, p) /\ Counts(a.nextOp, f, s.nextOp)
      /\ \A i \in DOMAIN f : f[i].actor = p
      /\ s.noted \o Identities(f) = Identities(Pending(a))
  BY <1>2, <1>3 DEF Shadows
<1>5. /\ b.journal = a.journal \o new /\ b.content = Replayed(a.content, new)
      /\ b.next = a.next + Len(new) /\ Counts(b.nextOp, new, a.nextOp)
      /\ \A i \in DOMAIN new : new[i].actor = p /\ new[i].seq = a.next + i - 1
  BY VersionFields DEF GrownBy
<1>6. Replayed(s.base, f \o new) = b.content
  BY <1>4, <1>5, ReplayedTwice
<1>7. FirstFree(b.next, f \o new, s.next, p)
  <2>1. a.next \in Nat /\ s.next \in Nat
    BY <1>1 DEF Apps
  <2>2. QED
    BY <1>4, <1>5, <2>1, FirstFreeGrows
<1>13. Counts(b.nextOp, f \o new, s.nextOp)
  <2>1. a.nextOp \in Nat /\ b.nextOp \in Nat
    BY DEF Apps
  <2>2. QED
    BY <1>1, <1>4, <1>5, <2>1, CountsOn
<1>14. \A i \in DOMAIN (f \o new) : (f \o new)[i].actor = p
  BY <1>4, <1>5, EntriesConcat
<1>8. PICK j \in Seq(Entries), n \in Nat : j = a.journal /\ n = a.saved /\ n <= Len(j)
  BY DEF Apps
<1>9. PICK w \in Seq(Entries) : w = Pending(a)
  BY <1>8, SinceProps DEF Pending, Since
<1>10. Pending(b) = w \o new
  <2>1. w = SubSeq(j, n + 1, Len(j))
    BY <1>8, <1>9 DEF Pending, Since
  <2>2. SubSeq(j \o new, n + 1, Len(j \o new)) = SubSeq(j, n + 1, Len(j)) \o new
    BY <1>8, SinceConcat
  <2>3. QED
    BY <1>5, <1>8, <2>1, <2>2 DEF Pending, Since
<1>11. s.noted \o Identities(f \o new) = Identities(Pending(b))
  <2>1. Identities(w \o new) = Identities(w) \o Identities(new)
    BY IdentitiesConcat
  <2>2. Identities(f \o new) = Identities(f) \o Identities(new)
    BY IdentitiesConcat
  <2>3. Identities(f) \in Seq(EntryIds) /\ Identities(new) \in Seq(EntryIds)
    BY IdentitiesProps
  <2>4. s.noted \o (Identities(f) \o Identities(new)) = (s.noted \o Identities(f)) \o Identities(new)
    BY <1>1, <2>3, IdsAssociative
  <2>5. QED
    BY <1>4, <1>9, <1>10, <2>1, <2>2, <2>4
<1>12. QED
  BY <1>2, <1>4, <1>5, <1>6, <1>7, <1>11, <1>13, <1>14 DEF Shadows

\* What a segment covers of a session whose part it is: the unsaved entries of the
\* version that it shadows, and so it does with the rest appended.
LEMMA CurrentShadows ==
  ASSUME NEW b \in Apps, NEW h, NEW p, NEW c, Lined(b, h, p, c),
         NEW a \in Apps, Version(a) \in Line(b), a.saved < Len(a.journal), a.saved = b.saved,
         NEW s \in Segments, Shadows(s, <<>>, a, p),
         NEW covered \in Seq(EntryIds), covered = s.noted \o Identities(s.frames),
         Len(b.journal) >= b.saved + Len(covered),
         Identities(SubSeq(b.journal, b.saved + 1, b.saved + Len(covered))) = covered
  PROVE  Shadows(s, Since(b, b.saved + Len(covered)), b, p)
<1>1. PICK j \in Seq(Entries), l \in Nat : j = a.journal /\ l = Len(j) /\ DOMAIN j = 1..l
  BY DEF Apps
<1>2. PICK k \in Seq(Entries), m \in Nat : k = b.journal /\ m = Len(k) /\ DOMAIN k = 1..m
  BY DEF Apps
<1>3. PICK n \in Nat : n = a.saved /\ n = b.saved /\ n < l
  BY <1>1 DEF Apps
<1>4. covered = Identities(Pending(a))
  <2>1. s.frames \in Seq(Entries)
    BY DEF Segments
  <2>2. s.frames \o <<>> = s.frames
    BY <2>1
  <2>3. QED
    BY <2>2 DEF Shadows
<1>5. PICK w \in Seq(Entries) : /\ w = Pending(a) /\ Len(w) = l - n
                                /\ \A i \in 1..(l - n) : w[i] = j[n + i]
  <2>1. n <= Len(j)
    BY <1>1, <1>3
  <2>2. /\ SubSeq(j, n + 1, Len(j)) \in Seq(Entries)
        /\ Len(SubSeq(j, n + 1, Len(j))) = Len(j) - n
        /\ \A i \in 1..(Len(j) - n) : SubSeq(j, n + 1, Len(j))[i] = j[n + i]
    BY <2>1, SinceProps
  <2>3. Pending(a) = SubSeq(j, n + 1, Len(j))
    BY <1>1, <1>3 DEF Pending, Since
  <2>4. QED
    BY <1>1, <2>2, <2>3
<1>6. Len(covered) = l - n /\ \A i \in 1..(l - n) : covered[i] = Identity(j[n + i])
  <2>1. DOMAIN w = 1..(l - n)
    BY <1>5
  <2>2. Len(Identities(w)) = Len(w) /\ \A i \in DOMAIN w : Identities(w)[i] = Identity(w[i])
    BY IdentitiesProps
  <2>3. QED
    BY <1>4, <1>5, <2>1, <2>2
<1>7. m >= l
  BY <1>2, <1>3, <1>6
<1>8. \A i \in 1..(l - n) : Identity(k[n + i]) = Identity(j[n + i])
  <2>1. PICK d \in Nat : d = l - n /\ n + d <= Len(k)
    BY <1>2, <1>3, <1>7
  <2>2. /\ SubSeq(k, n + 1, n + d) \in Seq(Entries)
        /\ Len(SubSeq(k, n + 1, n + d)) = d
        /\ \A i \in 1..d : SubSeq(k, n + 1, n + d)[i] = k[n + i]
    <3>1. n + d <= Len(k)
      BY <2>1
    <3>2. QED
      BY ONLY <3>1, k \in Seq(Entries), n \in Nat, d \in Nat, SliceProps
  <2>3. PICK v \in Seq(Entries) : v = SubSeq(k, n + 1, n + d)
    BY <2>2
  <2>4. DOMAIN v = 1..d
    BY <2>2, <2>3
  <2>5. \A i \in 1..d : Identities(v)[i] = Identity(v[i])
    BY <2>4, IdentitiesProps
  <2>6. Identities(v) = covered
    <3>1. /\ Len(covered) = d /\ b.saved = n /\ b.journal = k
      BY <1>2, <1>3, <1>6, <2>1
    <3>2. QED
      BY <2>3, <3>1
  <2>7. QED
    BY <1>6, <2>1, <2>2, <2>3, <2>5, <2>6
<1>9. \A i \in 1..n : k[i] = j[i]
  <2>1. PICK x \in Versions : x = Version(a) /\ x \in Line(b)
    BY VersionType
  <2>2. PICK y \in Versions : y = Version(b) /\ y \in Line(b)
    BY VersionType, LineHas
  <2>3. /\ x.journal = j /\ x.saved = n /\ x.manifest \in Nat
        /\ y.journal = k /\ y.saved = n /\ y.manifest \in Nat
    <3>1. x.manifest \in 0..MaxCommits /\ y.manifest \in 0..MaxCommits
      BY DEF Versions
    <3>2. x.manifest \in Nat /\ y.manifest \in Nat
      BY <3>1, LocalSessionAssumption
    <3>3. QED
      BY <1>1, <1>2, <1>3, <2>1, <2>2, <3>2, VersionFields
  <2>4. SavedTogether(x, y) /\ SavedTogether(y, x)
    BY <2>1, <2>2 DEF Lined, Coherent
  <2>5. CASE y.manifest <= x.manifest
    BY <2>3, <2>4, <2>5 DEF SavedTogether
  <2>6. CASE x.manifest <= y.manifest
    BY <2>3, <2>4, <2>6 DEF SavedTogether
  <2>7. QED
    BY <2>3, <2>5, <2>6
<1>10. Extends(Version(b), Version(a))
  <2>1. ASSUME NEW i \in 1..l PROVE Identity(k[i]) = Identity(j[i])
    <3>1. CASE i <= n
      BY <1>9, <3>1
    <3>2. CASE i > n
      <4>1. i - n \in 1..(l - n) /\ n + (i - n) = i
        BY <1>3, <3>2
      <4>2. QED
        BY <1>8, <4>1
    <3>3. QED
      BY <1>3, <3>1, <3>2
  <2>2. /\ Version(a).journal = j /\ Version(b).journal = k
    BY <1>1, <1>2, VersionFields
  <2>3. QED
    BY <1>1, <1>2, <1>7, <2>1, <2>2 DEF Extends
<1>11. PICK new \in Seq(Entries) : GrownBy(Version(b), Version(a), new, p)
  BY <1>10, LineHas DEF Lined, Coherent, Agrees
<1>12. a.manifest = b.manifest
  <2>1. Agrees(Version(b), Version(a), p)
    BY LineHas DEF Lined, Coherent
  <2>2. /\ Version(a).saved = a.saved /\ Version(a).journal = a.journal
        /\ Version(a).manifest = a.manifest
        /\ Version(b).saved = b.saved /\ Version(b).manifest = b.manifest
    BY VersionFields
  <2>3. QED
    BY <1>10, <2>1, <2>2 DEF Agrees
<1>13. Shadows(s, new, b, p)
  <2>1. a.saved <= Len(a.journal)
    BY <1>1, <1>3
  <2>2. QED
    BY <1>11, <1>12, <2>1, ShadowsGrown
<1>14. Since(b, b.saved + Len(covered)) = new
  <2>1. k = j \o new
    BY <1>1, <1>2, <1>11, VersionFields DEF GrownBy
  <2>2. b.saved + Len(covered) = l
    BY <1>3, <1>6
  <2>3. SubSeq(j \o new, l + 1, Len(j \o new)) = SubSeq(j, l + 1, Len(j)) \o new
    <3>1. l <= Len(j)
      BY <1>1
    <3>2. QED
      BY <3>1, SinceConcat
  <2>4. SubSeq(j, l + 1, Len(j)) = <<>>
    BY <1>1
  <2>5. <<>> \o new = new
    OBVIOUS
  <2>6. QED
    BY <1>2, <2>1, <2>2, <2>3, <2>4, <2>5 DEF Since
<1>15. QED
  BY <1>13, <1>14

\* What the segment of the cursor does not cover yet.
Uncovered == Since(app, cursor.saved + Len(cursor.covered))

\* The segment of the cursor shadows the session, and covers all of it.
Shadowed ==
    /\ cursor # None /\ cursor.saved = app.saved
    /\ Shadows(segments[cursor.session], <<>>, app, process)

\* Between commands the segment shadows the session; in one, it does if it is
\* taken for current.
ShadowInv ==
    /\ pc = "replaced" => ~Stray(cursor) /\ ToShadow
    /\ ~Stray(cursor) /\ ~app.half =>
           /\ pc = "rest" => IF ToShadow THEN Shadowed ELSE cursor = None
           /\ pc = "warned" => cursor = None
           /\ pc = "sync" /\ cursor # None /\ ToShadow /\ IsCurrent =>
                  Shadows(segments[cursor.session], Uncovered, app, process)
           /\ pc = "replaced" => Shadowed

\* A command that the session grows by, or that leaves it, and the segment.
LEMMA ShadowCommand ==
  ASSUME IInv, IInv', LineInv', ShadowInv, AtRest,
         cursor' = cursor, process' = process, pc' = "sync", app'.half = app.half,
         cursor # None => segments'[cursor.session] = segments[cursor.session],
         ToShadow' => Version(app) \in Line(app')
  PROVE  ShadowInv'
<1>1. SUFFICES ASSUME ~Stray(cursor), ~app.half, cursor # None, ToShadow', IsCurrent'
               PROVE  (Shadows(segments[cursor.session], Uncovered, app, process))'
  BY DEF ShadowInv, Stray
<1>2. pc = "rest" /\ ToShadow /\ Shadowed
  BY <1>1 DEF ShadowInv, AtRest
<1>3. PICK s \in Segments : /\ s = segments[cursor.session] /\ s = segments'[cursor.session]
                            /\ cursor.covered = s.noted \o Identities(s.frames)
  <2>1. cursor \in Cursors /\ cursor.session \in Ids
    BY <1>1 DEF IInv, TypeOK, Cursors
  <2>2. /\ segments[cursor.session] # None
        /\ cursor.covered = segments[cursor.session].noted
                              \o Identities(segments[cursor.session].frames)
    BY <1>1 DEF IInv, CursorCovers
  <2>3. segments[cursor.session] \in Segments
    BY <2>1, <2>2 DEF IInv, TypeOK
  <2>4. QED
    BY <1>1, <2>2, <2>3
<1>4. PICK covered \in Seq(EntryIds) : covered = cursor.covered
  BY <1>1 DEF IInv, TypeOK, Cursors
<1>5. PICK a \in Apps : a = app
  BY DEF IInv, TypeOK
<1>6. PICK b \in Apps : b = app'
  BY DEF IInv, TypeOK
<1>7. PICK p : p = process /\ p = process'
  OBVIOUS
<1>8. PICK h : h = Past(repo')
  OBVIOUS
<1>15. PICK c \in Nat : Lined(b, h, p, c)
  BY <1>1, <1>6, <1>7, <1>8 DEF LineInv
<1>9. Lined(b, h, p, c) /\ Version(a) \in Line(b)
  BY <1>1, <1>5, <1>6, <1>15
<1>10. a.saved = cursor.saved /\ Shadows(s, <<>>, a, p)
  BY <1>2, <1>3, <1>5, <1>7 DEF Shadowed
<1>11. /\ cursor.saved = b.saved /\ Len(b.journal) >= b.saved + Len(covered)
       /\ Identities(SubSeq(b.journal, b.saved + 1, b.saved + Len(covered))) = covered
  BY <1>1, <1>4, <1>6 DEF IsCurrent
<1>12. a.saved < Len(a.journal)
  <2>1. a.saved # Len(a.journal) /\ a.saved <= Len(a.journal)
    BY <1>2, <1>5 DEF ToShadow, Dirty, IInv, TypeOK
  <2>2. a.saved \in Nat /\ Len(a.journal) \in Nat
    BY DEF Apps
  <2>3. QED
    BY <2>1, <2>2
<1>13. Shadows(s, Since(b, b.saved + Len(covered)), b, p)
  BY <1>3, <1>4, <1>9, <1>10, <1>11, <1>12, CurrentShadows
<1>14. QED
  BY <1>3, <1>4, <1>6, <1>7, <1>11, <1>13 DEF Uncovered

\* A command that leaves nothing to shadow.
LEMMA ShadowIdle ==
  ASSUME pc' = "sync", ~ToShadow'
  PROVE  ShadowInv'
BY DEF ShadowInv

\* An edit.
LEMMA ShadowEdit ==
  ASSUME IInv, LineInv, ShadowInv, NEW type \in {"doc", "fixed", "sheet"}, Edit(type)
  PROVE  ShadowInv'
<1>1. PICK new \in Seq(Entries) : EditFrom(app', app, <<type, edits + 1>>, new)
  BY EditGrows
<1>2. app.undo \in Seq(Checkpoints) /\ app \in Apps /\ Len(app.journal) \in Nat
  BY DEF IInv, TypeOK, Apps
<1>3. PICK u \in Seq(Checkpoints) : u = ClosedStack(app.undo, Len(app.journal))
  BY <1>2, ClosedStackProps DEF ClosedFrom
<1>4. app'.undo = Append(u, CheckpointOf(app))
  BY <1>1, <1>3 DEF EditFrom
<1>5. /\ Len(u) + 1 \in DOMAIN app'.undo
      /\ app'.undo[Len(u) + 1] = CheckpointOf(app)
  BY <1>4
<1>6. Version(CheckpointOf(app)) = Version(app)
  BY DEF Version, CheckpointOf
<1>7. Version(app) \in Line(app')
  BY <1>5, <1>6, LineHas
<1>8. IInv' /\ LineInv'
  BY EditInv, LineEdit
<1>9. /\ AtRest /\ cursor' = cursor /\ process' = process /\ pc' = "sync"
      /\ segments' = segments /\ app'.half = app.half
  BY <1>1 DEF Edit, Done, EditFrom
<1>10. QED
  BY <1>7, <1>8, <1>9, ShadowCommand

\* A step of the edit history.
LEMMA ShadowStep ==
  ASSUME IInv, DocInv, LineInv, ShadowInv, NEW verb \in {"undo", "redo"}, Step(verb)
  PROVE  ShadowInv'
<1>1. PICK t \in Checkpoints : t = Last(Stack(app, verb))
  BY StepGrows
<1>2. PICK m \in Apps, new \in Seq(Entries) :
          /\ SteppedFrom(m, app, verb, t, new)
          /\ app'.undo = m.undo /\ app'.redo = m.redo /\ app'.half = m.half
  BY <1>1, StepGrows
<1>3. PICK o : o = Opposite(verb)
  OBVIOUS
<1>4. Stack(app, o) \in Seq(Checkpoints) /\ app \in Apps /\ Len(app.journal) \in Nat
  BY DEF IInv, TypeOK, Apps, Stack
<1>5. PICK u \in Seq(Checkpoints) : u = ClosedStack(Stack(app, o), Len(app.journal))
  BY <1>4, ClosedStackProps DEF ClosedFrom
<1>6. Stack(app', o) = Append(u, CheckpointOf(app))
  BY <1>2, <1>3, <1>5 DEF SteppedFrom, StacksMoved, Stack
<1>7. /\ Len(u) + 1 \in DOMAIN Stack(app', o)
      /\ Stack(app', o)[Len(u) + 1] = CheckpointOf(app)
  BY <1>6
<1>8. Version(CheckpointOf(app)) = Version(app)
  BY DEF Version, CheckpointOf
<1>9. Version(app) \in Line(app')
  BY <1>7, <1>8, LineHas DEF Stack
<1>10. IInv' /\ LineInv'
  BY StepInv, LineStep
<1>11. /\ AtRest /\ cursor' = cursor /\ process' = process /\ pc' = "sync"
       /\ segments' = segments /\ app'.half = app.half
  BY <1>2 DEF Step, Done, SteppedFrom, StacksMoved
<1>12. QED
  BY <1>9, <1>10, <1>11, ShadowCommand

\* An offered segment is discarded: never the cursor's.
LEMMA ShadowDiscard ==
  ASSUME IInv, LineInv, ShadowInv, NEW s \in Ids, Discard(s)
  PROVE  ShadowInv'
<1>1. /\ AtRest /\ cursor' = cursor /\ process' = process /\ pc' = "sync" /\ app' = app
      /\ repo' = repo /\ s \in offers /\ segments' = [segments EXCEPT ![s] = None]
  BY DEF Discard, Done
<1>2. cursor # None => segments'[cursor.session] = segments[cursor.session]
  <2>1. SUFFICES ASSUME cursor # None PROVE segments'[cursor.session] = segments[cursor.session]
    OBVIOUS
  <2>2. cursor.session \in Ids /\ cursor.session # s
    BY <1>1, <2>1 DEF IInv, TypeOK, Cursors, CursorCovers
  <2>3. QED
    BY <1>1, <2>2 DEF IInv, TypeOK
<1>3. Version(app) \in Line(app')
  BY <1>1, LineHas
<1>4. IInv' /\ LineInv'
  BY <1>1, DiscardInv DEF LineInv
<1>5. QED
  BY <1>1, <1>2, <1>3, <1>4, ShadowCommand

\* A recovery or an open that fails leaves a cursor that is stray.
LEMMA ShadowStrays ==
  ASSUME IInv, OpenHalf \/ \E s \in Ids : RecoverHalf(s)
  PROVE  ShadowInv'
<1>1. /\ pc' = "warned"
      /\ cursor' = (IF cursor = None THEN None ELSE [cursor EXCEPT !.stray = TRUE])
  BY DEF RecoverHalf, OpenHalf
<1>2. cursor' = None \/ Stray(cursor')
  <2>1. CASE cursor = None
    BY <1>1, <2>1
  <2>2. CASE cursor # None
    <3>1. cursor \in Cursors
      BY <2>2 DEF IInv, TypeOK
    <3>2. cursor' \in Cursors /\ cursor'.stray
      BY <1>1, <2>2, <3>1 DEF Cursors
    <3>3. cursor' # None
      BY <3>2, LocalSessionAssumption
    <3>4. QED
      BY <3>2, <3>3 DEF Stray
  <2>3. QED
    BY <2>1, <2>2
<1>3. QED
  BY <1>1, <1>2 DEF ShadowInv

\* What a sync that has ended owes.
LEMMA ShadowEnds ==
  ASSUME pc' \in {"rest", "warned"}, pc' = "warned" => cursor' = None,
         pc' = "rest" /\ ~Stray(cursor') /\ ~app'.half => IF ToShadow' THEN Shadowed' ELSE cursor' = None
  PROVE  ShadowInv'
BY DEF ShadowInv, Stray

\* A sync with nothing to shadow.
LEMMA ShadowRemove ==
  ASSUME SyncRemove \/ SyncNothing
  PROVE  ShadowInv'
<1>1. ~ToShadow /\ app' = app /\ cursor' = None /\ pc' \in {"rest", "warned"}
  BY DEF SyncRemove, SyncNothing, Finish, Warn
<1>2. ~ToShadow'
  BY <1>1 DEF ToShadow
<1>3. QED
  BY <1>1, <1>2, ShadowEnds

\* A segment that has been appended to shadows what it did with that to come.
LEMMA ShadowAppended ==
  ASSUME NEW s \in Segments, NEW new \in Seq(Entries), NEW a, NEW p, Shadows(s, new, a, p)
  PROVE  LET grown == [s EXCEPT !.frames = @ \o new]
         IN  grown \in Segments /\ Shadows(grown, <<>>, a, p)
<1>1. s.frames \in Seq(Entries)
  BY DEF Segments
<1>2. PICK f \in Seq(Entries) : f = s.frames \o new
  <2>1. s.frames \o new \in Seq(Entries)
    BY <1>1, EntriesConcat
  <2>2. QED
    BY <2>1
<1>3. f \o <<>> = f
  OBVIOUS
<1>4. PICK grown : grown = [s EXCEPT !.frames = @ \o new]
  OBVIOUS
<1>5. grown = [s EXCEPT !.frames = f]
  BY <1>2, <1>4 DEF Segments
<1>6. /\ grown \in Segments /\ grown.frames = f /\ grown.base = s.base
      /\ grown.noted = s.noted /\ grown.manifest = s.manifest /\ grown.next = s.next
      /\ grown.nextOp = s.nextOp
  BY <1>5 DEF Segments
<1>7. grown # None
  BY <1>6, LocalSessionAssumption
<1>8. Shadows(grown, <<>>, a, p)
  BY <1>2, <1>3, <1>6, <1>7 DEF Shadows
<1>9. QED
  BY <1>4, <1>6, <1>8

\* The segment gets what it does not cover.
LEMMA ShadowAppend == ASSUME IInv, ShadowInv, SyncAppend PROVE ShadowInv'
<1>1. PICK new : new = Since(app, cursor.saved + Len(cursor.covered))
  OBVIOUS
<1>2. /\ pc = "sync" /\ ToShadow /\ IsCurrent /\ cursor # None
      /\ app' = app /\ process' = process
      /\ \/ /\ segments' = [segments EXCEPT ![cursor.session].frames = @ \o new]
            /\ cursor' = [cursor EXCEPT !.covered = @ \o Identities(new)]
            /\ pc' = "rest"
         \/ cursor' = None /\ pc' = "warned"
  BY <1>1 DEF SyncAppend, IsCurrent, Finish, Warn
<1>3. CASE cursor' = None /\ pc' = "warned"
  BY <1>3, ShadowEnds
<1>4. CASE /\ segments' = [segments EXCEPT ![cursor.session].frames = @ \o new]
           /\ cursor' = [cursor EXCEPT !.covered = @ \o Identities(new)]
           /\ pc' = "rest"
  <2>1. cursor \in Cursors /\ cursor.session \in Ids /\ segments[cursor.session] \in Segments
    BY <1>2 DEF IInv, TypeOK, Cursors, CursorCovers
  <2>2. cursor' \in Cursors /\ cursor'.session = cursor.session
        /\ cursor'.saved = cursor.saved /\ cursor'.stray = cursor.stray
    <3>1. PICK covered \in Seq(EntryIds) : covered = cursor.covered \o Identities(new)
      <4>1. cursor.covered \o Identities(new) \in Seq(EntryIds)
        BY <1>1, <1>2, AppendedNumbering DEF IInv
      <4>2. QED
        BY <4>1
    <3>2. cursor' = [cursor EXCEPT !.covered = covered]
      BY <1>4, <2>1, <3>1 DEF Cursors
    <3>3. QED
      BY <2>1, <3>2 DEF Cursors
  <2>3. cursor' # None
    BY <2>2, LocalSessionAssumption
  <2>4. ASSUME ~Stray(cursor'), ~app'.half PROVE Shadowed'
    <3>1. ~Stray(cursor) /\ ~app.half
      BY <1>2, <2>2, <2>3, <2>4 DEF Stray
    <3>2. PICK s \in Segments : s = segments[cursor.session]
      BY <2>1
    <3>3. Shadows(s, new, app, process)
      BY <1>1, <1>2, <3>1, <3>2 DEF ShadowInv, Uncovered
    <3>4. new \in Seq(Entries)
      <4>1. PICK n \in Nat : n = cursor.saved + Len(cursor.covered)
        BY <2>1 DEF Cursors
      <4>2. PICK j \in Seq(Entries) : j = app.journal /\ n <= Len(j)
        BY <1>2, <2>1, <4>1 DEF IInv, TypeOK, Apps, Cursors, IsCurrent
      <4>3. QED
        BY <1>1, <4>1, <4>2, SinceProps DEF Since
    <3>5. PICK grown : grown = [s EXCEPT !.frames = @ \o new]
      OBVIOUS
    <3>6. Shadows(grown, <<>>, app, process)
      BY <3>2, <3>3, <3>4, <3>5, ShadowAppended
    <3>7. segments'[cursor.session] = grown
      BY <1>4, <2>1, <3>2, <3>5 DEF IInv, TypeOK
    <3>8. cursor.saved = app.saved
      BY <1>2 DEF IsCurrent
    <3>9. QED
      BY <1>2, <2>2, <2>3, <3>6, <3>7, <3>8 DEF Shadowed
  <2>5. ToShadow'
    BY <1>2 DEF ToShadow
  <2>6. QED
    BY <1>4, <2>4, <2>5, ShadowEnds
<1>5. QED
  BY <1>2, <1>3, <1>4

\* A segment that is begun shadows the session that it is begun for.
LEMMA ShadowBegun ==
  ASSUME NEW a \in Apps, a.saved <= Len(a.journal), NEW p, NEW s,
         s = [base |-> a.content, noted |-> Identities(Pending(a)), frames |-> <<>>,
              manifest |-> a.manifest, next |-> a.next, nextOp |-> a.nextOp]
  PROVE  Shadows(s, <<>>, a, p)
<1>1. PICK j \in Seq(Entries), n \in Nat : j = a.journal /\ n = a.saved /\ n <= Len(j)
  BY DEF Apps
<1>2. PICK w \in Seq(Entries) : w = Pending(a)
  BY <1>1, SinceProps DEF Pending, Since
<1>3. PICK noted \in Seq(EntryIds) : noted = Identities(w)
  BY <1>2, IdentitiesProps
<1>4. PICK e : e = <<>>
  OBVIOUS
<1>5. /\ e \in Seq(Entries) /\ Len(e) = 0 /\ e \o e = e /\ DOMAIN e = {}
  BY <1>4
<1>6. Identities(e) = <<>>
  <2>1. Identities(e) \in Seq(EntryIds) /\ Len(Identities(e)) = 0
    BY <1>5, IdentitiesProps
  <2>2. QED
    BY <2>1, EmptySeq
<1>7. noted \o <<>> = noted
  OBVIOUS
<1>8. s.base = a.content /\ s.noted = noted /\ s.frames = e /\ s.manifest = a.manifest
      /\ s.next = a.next /\ s.nextOp = a.nextOp
  BY <1>2, <1>3, <1>4
<1>9. s # None
  <2>1. s \in Segments
    <3>1. s = [base |-> a.content, noted |-> noted, frames |-> e,
               manifest |-> a.manifest, next |-> a.next, nextOp |-> a.nextOp]
      BY <1>2, <1>3, <1>4
    <3>2. QED
      BY <1>5, <3>1 DEF Segments, Apps
  <2>2. QED
    BY <2>1, LocalSessionAssumption
<1>10. Replayed(s.base, e) = a.content
  BY <1>4, <1>8, ReplayedNothing
<1>11. FirstFree(a.next, e, s.next, p)
  <2>1. a.next >= s.next
    BY <1>8 DEF Apps
  <2>2. QED
    BY <1>5, <1>8, <2>1 DEF FirstFree
<1>14. Counts(a.nextOp, e, s.nextOp)
  <2>1. a.nextOp >= s.nextOp
    BY <1>8 DEF Apps
  <2>2. QED
    BY <1>5, <1>8, <2>1 DEF Counts
<1>12. s.noted \o Identities(e) = Identities(Pending(a))
  BY <1>2, <1>3, <1>6, <1>7, <1>8
<1>13. QED
  BY <1>4, <1>5, <1>8, <1>9, <1>10, <1>11, <1>12, <1>14 DEF Shadows

\* A new segment.
LEMMA ShadowBegin == ASSUME IInv, SyncBegin PROVE ShadowInv'
<1>1. /\ ToShadow /\ app' = app /\ process' = process
      /\ \/ \E s \in Ids :
                /\ segments' = [segments EXCEPT ![s] = Segment]
                /\ cursor' = CursorOn(s)
                /\ pc' \in {"rest", "replaced"}
         \/ cursor' = None /\ pc' = "warned"
  BY DEF SyncBegin, Finish, Warn
<1>2. CASE cursor' = None /\ pc' = "warned"
  BY <1>2, ShadowEnds
<1>3. CASE \E s \in Ids : /\ segments' = [segments EXCEPT ![s] = Segment]
                          /\ cursor' = CursorOn(s)
                          /\ pc' \in {"rest", "replaced"}
  <2>1. PICK s \in Ids : /\ segments' = [segments EXCEPT ![s] = Segment]
                         /\ cursor' = CursorOn(s)
                         /\ pc' \in {"rest", "replaced"}
    BY <1>3
  <2>2. cursor'.session = s /\ cursor'.saved = app.saved /\ cursor'.stray = FALSE
    BY <2>1 DEF CursorOn
  <2>3. PICK g : g = Segment
    OBVIOUS
  <2>4. segments'[s] = g
    BY <2>1, <2>3 DEF IInv, TypeOK
  <2>5. Shadows(g, <<>>, app, process)
    <3>1. app \in Apps /\ app.saved <= Len(app.journal)
      BY DEF IInv, TypeOK
    <3>2. QED
      BY <2>3, <3>1, ShadowBegun DEF Segment
  <2>6. cursor' # None
    <3>1. CursorOn(s) \in Cursors
      <4>1. Identities(Pending(app)) \in Seq(EntryIds)
        BY <1>1, BegunNumbering DEF IInv, ToShadow
      <4>2. app.saved \in Nat
        BY DEF IInv, TypeOK, Apps
      <4>3. QED
        BY <4>1, <4>2 DEF CursorOn, Cursors
    <3>2. QED
      BY <2>1, <3>1, LocalSessionAssumption
  <2>7. Shadowed'
    BY <1>1, <2>2, <2>4, <2>5, <2>6 DEF Shadowed
  <2>8. ToShadow' /\ ~Stray(cursor')
    BY <1>1, <2>2 DEF ToShadow, Stray
  <2>9. QED
    BY <2>1, <2>7, <2>8 DEF ShadowInv, Stray
<1>4. QED
  BY <1>1, <1>2, <1>3

\* The old segment goes.
LEMMA ShadowReplace == ASSUME IInv, ShadowInv, SyncReplace PROVE ShadowInv'
<1>1. /\ pc = "replaced" /\ app' = app /\ process' = process
      /\ \/ segments' = [segments EXCEPT ![previous] = None] /\ cursor' = cursor /\ pc' = "rest"
         \/ cursor' = None /\ pc' = "warned"
  BY DEF SyncReplace, Finish, Warn
<1>2. CASE cursor' = None /\ pc' = "warned"
  BY <1>2, ShadowEnds
<1>3. CASE segments' = [segments EXCEPT ![previous] = None] /\ cursor' = cursor /\ pc' = "rest"
  <2>1. cursor # None /\ previous # cursor.session /\ cursor.session \in Ids
    BY <1>1 DEF IInv, TypeOK, Cursors, PreviousIsAnother
  <2>2. segments'[cursor.session] = segments[cursor.session]
    BY <1>3, <2>1 DEF IInv, TypeOK
  <2>3. ToShadow /\ (~app.half => Shadowed)
    BY <1>1 DEF ShadowInv
  <2>4. ~app'.half => ToShadow' /\ Shadowed'
    BY <1>1, <1>3, <2>2, <2>3 DEF ToShadow, Shadowed
  <2>5. QED
    BY <1>3, <2>4, ShadowEnds
<1>4. QED
  BY <1>1, <1>2, <1>3

\* A new document is clean.
LEMMA ShadowInit == Init => ShadowInv
BY DEF Init, ShadowInv, ToShadow, Dirty, NoDocument, Stray

\* Every step keeps the segment a shadow.
LEMMA ShadowNext == ASSUME IInv, DocInv, LineInv, ShadowInv, [Next]_vars PROVE ShadowInv'
<1>1. ASSUME NEW type \in {"doc", "fixed", "sheet"}, Edit(type) PROVE ShadowInv'
  BY <1>1, ShadowEdit
<1>2. ASSUME NEW verb \in {"undo", "redo"}, Step(verb) PROVE ShadowInv'
  BY <1>2, ShadowStep
<1>3. CASE Save
  <2>1. /\ pc' = "sync" /\ app \in Apps
        /\ app' = [app EXCEPT !.saved = Len(app.journal), !.manifest = Len(repo) + 1,
                              !.recovered = FALSE]
    BY <1>3 DEF Save, Done, IInv, TypeOK
  <2>2. app'.saved = Len(app'.journal)
    BY <2>1 DEF Apps
  <2>3. ~ToShadow'
    BY <2>2 DEF ToShadow, Dirty
  <2>4. QED
    BY <2>1, <2>3, ShadowIdle
<1>4. CASE SaveHalf \/ UNCHANGED vars
  <2>1. UNCHANGED <<app, cursor, segments, pc, process>>
    BY <1>4 DEF SaveHalf, vars
  <2>2. QED
    BY <2>1 DEF ShadowInv, Shadowed, ToShadow, IsCurrent, Uncovered
<1>5. CASE Open
  <2>1. pc' = "sync" /\ app'.saved = Len(app'.journal)
    BY <1>5 DEF Open, Done, NoDocument
  <2>2. ~ToShadow'
    BY <2>1 DEF ToShadow, Dirty
  <2>3. QED
    BY <2>1, <2>2, ShadowIdle
<1>6. CASE Close
  <2>1. pc' = "sync" /\ ~app'.open
    BY <1>6 DEF Close, Done, NoDocument
  <2>2. QED
    BY <2>1, ShadowIdle DEF ToShadow
<1>7. CASE Restart
  <2>1. pc' = "rest" /\ cursor' = None /\ ~app'.open
    BY <1>7 DEF Restart, NoDocument
  <2>2. QED
    BY <2>1, ShadowEnds DEF ToShadow
<1>8. ASSUME NEW s \in Ids, Recover(s) PROVE ShadowInv'
  BY <1>8 DEF Recover, Done, ShadowInv
<1>9. ASSUME NEW s \in Ids, RecoverHalf(s) PROVE ShadowInv'
  BY <1>9, ShadowStrays
<1>16. CASE OpenHalf
  BY <1>16, ShadowStrays
<1>10. ASSUME NEW s \in Ids, Discard(s) PROVE ShadowInv'
  BY <1>10, ShadowDiscard
<1>11. CASE SyncRemove \/ SyncNothing
  BY <1>11, ShadowRemove
<1>12. CASE SyncAppend
  BY <1>12, ShadowAppend
<1>13. CASE SyncBegin
  BY <1>13, ShadowBegin
<1>14. CASE SyncReplace
  BY <1>14, ShadowReplace
<1>15. QED
  BY <1>1, <1>2, <1>3, <1>4, <1>5, <1>6, <1>7, <1>8, <1>9, <1>10, <1>11, <1>12,
     <1>13, <1>14, <1>16 DEF Next

\* A shadow replays to what it is a shadow of.
LEMMA ShadowIsReplayed == ASSUME IInv, ShadowInv PROVE ShadowReplays
<1>1. SUFFICES ASSUME pc = "rest", ~Stray(cursor), ~app.half, ToShadow
               PROVE  /\ cursor # None
                      /\ LET s == segments[cursor.session]
                         IN  /\ s # None
                             /\ Replayed(s.base, s.frames) = app.content
                             /\ s.manifest = app.manifest
                             /\ RecoveredNext(s) = app.next
                             /\ RecoveredNextOp(s) = app.nextOp
                             /\ s.noted \o Identities(s.frames) = Identities(Pending(app))
  BY DEF ShadowReplays, ShadowInv
<1>2. Shadowed /\ cursor # None
  BY <1>1 DEF ShadowInv, Shadowed
<1>3. PICK s \in Segments : s = segments[cursor.session]
  BY <1>2 DEF IInv, TypeOK, Cursors, CursorCovers
<1>4. s.frames \in Seq(Entries) /\ s.next \in Nat /\ s.nextOp \in Nat
  BY DEF Segments
<1>5. s.frames \o <<>> = s.frames
  BY <1>4
<1>6. /\ s # None /\ Replayed(s.base, s.frames) = app.content
      /\ s.manifest = app.manifest /\ FirstFree(app.next, s.frames, s.next, process)
      /\ Counts(app.nextOp, s.frames, s.nextOp)
      /\ \A i \in DOMAIN s.frames : s.frames[i].actor = process
      /\ s.noted \o Identities(s.frames) = Identities(Pending(app))
  BY <1>2, <1>3, <1>5 DEF Shadowed, Shadows
<1>7. app.next \in Nat /\ app.nextOp \in Nat
  BY DEF IInv, TypeOK, Apps
<1>8. RecoveredNext(s) = app.next
  BY <1>4, <1>6, <1>7, RebasedIs DEF RecoveredNext
<1>10. RecoveredNextOp(s) = app.nextOp
  BY <1>4, <1>6, <1>7, RebasedOpIs DEF RecoveredNextOp
<1>9. QED
  BY <1>2, <1>3, <1>6, <1>8, <1>10

-----------------------------------------------------------------------------
(* The work that must not be lost.                                          *)

\* The head holds this.
AtHead(content) ==
    \/ repo # <<>> /\ Last(repo).content = content
    \/ repo = <<>> /\ content = {}

\* The segment of the cursor replays to this.
Covers(content) ==
    /\ cursor # None /\ segments[cursor.session] # None
    /\ Replayed(segments[cursor.session].base, segments[cursor.session].frames) = content

\* The work that must not be lost is kept, by the head or the segment that is
\* being written if a document is open, and no segment of a closed one is needed.
RestInv ==
    /\ rest # None => Kept(rest)
    /\ ~app.open /\ cursor # None => rest = None
    /\ rest # None /\ app.open /\ pc = "rest" => AtHead(rest) \/ Covers(rest)

\* What the head or the segment has is kept.
LEMMA CoversKept == ASSUME IInv, NEW content, AtHead(content) \/ Covers(content) PROVE Kept(content)
<1>1. CASE AtHead(content)
  BY <1>1 DEF AtHead, Kept
<1>2. CASE Covers(content)
  <2>1. cursor.session \in Ids /\ segments[cursor.session] # None
    BY <1>2 DEF Covers, IInv, TypeOK, Cursors
  <2>2. cursor.session \in Live
    BY <2>1 DEF Live
  <2>3. QED
    BY <1>2, <2>2 DEF Covers, Kept
<1>3. QED
  BY <1>1, <1>2

\* What the end of a dispatch leaves to keep is kept.
LEMMA FinishedKept ==
  ASSUME IInv', ShadowInv', pc' = "rest", app'.open, ~Stray(cursor'), ~app'.half,
         ~(app'.recovered /\ ~Dirty(app')), rest' = app'.content
  PROVE  RestInv'
<1>1. AtHead(rest)' \/ Covers(rest)'
  <2>1. CASE Dirty(app')
    <3>1. Shadowed'
      BY <2>1 DEF ShadowInv, ToShadow, Stray
    <3>2. (cursor # None /\ Shadows(segments[cursor.session], <<>>, app, process))'
      BY <3>1 DEF Shadowed
    <3>3. PICK s : s = segments'[cursor'.session]
      OBVIOUS
    <3>4. s # None /\ Replayed(s.base, s.frames \o <<>>) = app'.content
      BY <3>2, <3>3 DEF Shadows
    <3>5. s \in Segments
      BY <3>2, <3>3, <3>4 DEF IInv, TypeOK, Cursors
    <3>6. s.frames \o <<>> = s.frames
      BY <3>5 DEF Segments
    <3>7. Covers(rest)'
      BY <3>2, <3>3, <3>4, <3>6 DEF Covers
    <3>8. QED
      BY <3>7
  <2>2. CASE ~Dirty(app')
    <3>1. ~app'.recovered
      BY <2>2
    <3>2. IF repo' = <<>> THEN app'.content = {} ELSE app'.content = Last(repo').content
      BY <2>2, <3>1 DEF IInv, CleanMeansSaved
    <3>3. QED
      BY <3>2 DEF AtHead
  <2>3. QED
    BY <2>1, <2>2
<1>2. Kept(rest)'
  BY <1>1 DEF AtHead, Covers, Kept, Live, IInv, TypeOK, Cursors
<1>3. QED
  BY <1>1, <1>2 DEF RestInv

\* How a sync that ends with the document open leaves the work.
LEMMA FinishKept ==
  ASSUME IInv', ShadowInv', UNCHANGED <<app>>, app.open, Finish(app)
  PROVE  RestInv'
<1>1. pc' = "rest"
  BY DEF Finish
<1>2. CASE (app.recovered /\ ~Dirty(app)) \/ app.half \/ Stray(cursor')
  <2>1. rest' = None
    BY <1>2 DEF Finish
  <2>2. QED
    BY <2>1 DEF RestInv
<1>3. CASE ~((app.recovered /\ ~Dirty(app)) \/ app.half \/ Stray(cursor'))
  <2>1. rest' = app'.content
    BY <1>3 DEF Finish
  <2>2. QED
    BY <1>1, <1>3, <2>1, FinishedKept
<1>4. QED
  BY <1>2, <1>3

\* What stays is kept as long as what keeps it stays.
LEMMA KeptOn ==
  ASSUME IInv, RestInv, rest' = rest, repo' = repo,
         \A s \in Ids : segments[s] # None => segments'[s] = segments[s],
         pc' # "rest" \/ ~app'.open, app'.open \/ cursor' = None
  PROVE  RestInv'
<1>1. rest # None => Kept(rest)'
  BY DEF RestInv, Kept, Live
<1>2. QED
  BY <1>1 DEF RestInv

\* There is nothing to keep at first.
LEMMA RestInit == Init => RestInv
BY DEF Init, RestInv

\* A save, whole or half, keeps what it saves.
LEMMA RestSave == ASSUME IInv, IInv', RestInv, Save \/ SaveHalf PROVE RestInv'
<1>1. PICK c : c = [content |-> app.content, history |-> History \o Pending(app),
                    behind |-> Behind(app)]
  OBVIOUS
<1>2. /\ repo' = Append(repo, c) /\ Accepted(app) /\ rest' = app.content /\ app'.open
  <2>1. repo' = Append(repo, c) /\ Accepted(app) /\ rest' = app.content /\ app.open
    BY <1>1 DEF Save, SaveHalf, Commit
  <2>2. app'.open
    BY <2>1 DEF Save, SaveHalf, IInv, TypeOK, Apps
  <2>3. QED
    BY <2>1, <2>2
<1>3. repo' # <<>> /\ Last(repo').content = app.content
  BY <1>1, <1>2, CommitInv
<1>4. AtHead(rest)' /\ Kept(rest)'
  BY <1>2, <1>3 DEF AtHead, Kept
<1>5. QED
  BY <1>2, <1>4 DEF RestInv

\* A segment that is discarded is not the one that keeps the work.
LEMMA RestDiscard == ASSUME IInv, RestInv, NEW s \in Ids, Discard(s) PROVE RestInv'
<1>1. /\ pc' = "sync" /\ app' = app /\ repo' = repo /\ s \in offers
      /\ segments' = [segments EXCEPT ![s] = None]
      /\ rest' = IF app.open /\ pc = "rest" THEN rest ELSE None
  BY DEF Discard, Done
<1>2. SUFFICES ASSUME app.open, pc = "rest", rest # None PROVE Kept(rest)'
  BY <1>1 DEF RestInv
<1>3. CASE AtHead(rest)
  BY <1>1, <1>2, <1>3 DEF AtHead, Kept
<1>4. CASE Covers(rest)
  <2>1. cursor.session \in Ids /\ cursor.session # s /\ segments[cursor.session] # None
    BY <1>1, <1>4 DEF Covers, IInv, TypeOK, Cursors, CursorCovers
  <2>2. segments'[cursor.session] = segments[cursor.session]
    BY <1>1, <2>1 DEF IInv, TypeOK
  <2>3. cursor.session \in Live'
    BY <2>1, <2>2 DEF Live
  <2>4. QED
    BY <1>1, <1>2, <1>4, <2>2, <2>3 DEF Covers, Kept
<1>5. QED
  BY <1>2, <1>3, <1>4 DEF RestInv

\* A sync, however it ends.
LEMMA RestSync ==
  ASSUME IInv, IInv', ShadowInv, ShadowInv', RestInv,
         SyncRemove \/ SyncAppend \/ SyncBegin \/ SyncReplace \/ SyncNothing
  PROVE  RestInv'
<1>1. app' = app /\ repo' = repo
  BY DEF SyncRemove, SyncAppend, SyncBegin, SyncReplace, SyncNothing
<1>2. CASE Warn /\ segments' = segments
  <2>1. pc' = "warned" /\ cursor' = None /\ rest' = rest
    BY <1>2 DEF Warn
  <2>2. QED
    BY <1>1, <1>2, <2>1, KeptOn
<1>3. CASE app.open /\ Finish(app)
  BY <1>1, <1>3, FinishKept
<1>4. CASE ~app.open /\ Finish(app)
  <2>1. /\ pc' = "rest" /\ rest' = rest /\ cursor' = None
        /\ cursor # None \/ segments' = segments
    <3>1. SyncRemove \/ SyncNothing
      <4>1. pc = "replaced" => ToShadow
        BY DEF ShadowInv
      <4>2. QED
        BY <1>4, <4>1 DEF SyncAppend, SyncBegin, SyncReplace, ToShadow
    <3>2. QED
      BY <1>4, <3>1 DEF SyncRemove, SyncNothing, Finish
  <2>2. CASE cursor # None
    BY <1>4, <2>1, <2>2 DEF RestInv
  <2>3. CASE segments' = segments
    BY <1>1, <1>4, <2>1, <2>3, KeptOn
  <2>4. QED
    BY <2>1, <2>2, <2>3
<1>5. CASE SyncBegin /\ ~Warn /\ ~Finish(app)
  <2>1. PICK s \in Ids \ (Live \cup offers) :
            /\ segments' = [segments EXCEPT ![s] = Segment]
            /\ pc' = "replaced" /\ rest' = rest
    BY <1>5 DEF SyncBegin
  <2>2. app.open
    BY <1>5 DEF SyncBegin, ToShadow
  <2>3. \A i \in Ids : segments[i] # None => segments'[i] = segments[i]
    BY <2>1 DEF Live, IInv, TypeOK
  <2>4. QED
    BY <1>1, <2>1, <2>2, <2>3, KeptOn
<1>6. \/ Warn /\ segments' = segments
      \/ Finish(app)
      \/ SyncBegin /\ ~Warn /\ ~Finish(app)
  <2>1. CASE SyncRemove
    BY <2>1 DEF SyncRemove
  <2>2. CASE SyncAppend
    BY <2>2 DEF SyncAppend
  <2>3. CASE SyncBegin
    <3>1. ASSUME Warn PROVE pc' # "replaced"
      BY <3>1 DEF Warn
    <3>2. \/ Finish(app)
          \/ pc' = "replaced"
          \/ Warn /\ segments' = segments
      BY <2>3 DEF SyncBegin
    <3>3. QED
      BY <2>3, <3>1, <3>2
  <2>4. CASE SyncReplace
    BY <2>4 DEF SyncReplace
  <2>5. CASE SyncNothing
    BY <2>5 DEF SyncNothing
  <2>6. QED
    BY <2>1, <2>2, <2>3, <2>4, <2>5
<1>7. QED
  BY <1>2, <1>3, <1>4, <1>5, <1>6

\* Every step keeps the work.
LEMMA RestNext ==
  ASSUME IInv, IInv', ShadowInv, ShadowInv', RestInv, [Next]_vars
  PROVE  RestInv'
<1>1. CASE (\E type \in {"doc", "fixed", "sheet"} : Edit(type))
             \/ (\E verb \in {"undo", "redo"} : Step(verb))
  <2>1. /\ app'.open /\ pc' = "sync"
    <3>1. ASSUME NEW type \in {"doc", "fixed", "sheet"}, Edit(type) PROVE app'.open
      <4>1. PICK new \in Seq(Entries) : EditFrom(app', app, <<type, edits + 1>>, new)
        BY <3>1, EditGrows
      <4>2. QED
        BY <3>1, <4>1 DEF EditFrom, Edit
    <3>2. ASSUME NEW verb \in {"undo", "redo"}, Step(verb) PROVE app'.open
      <4>1. PICK t \in Checkpoints : t = Last(Stack(app, verb))
        BY <3>2, StepGrows
      <4>2. PICK m \in Apps, new \in Seq(Entries) :
                SteppedFrom(m, app, verb, t, new) /\ app'.open = m.open
        BY <3>2, <4>1, StepGrows
      <4>3. QED
        BY <3>2, <4>2 DEF SteppedFrom, StacksMoved, Step
    <3>3. QED
      BY <1>1, <3>1, <3>2 DEF Edit, Step, Done
  <2>2. UNCHANGED <<segments, repo, rest>>
    BY <1>1 DEF Edit, Step
  <2>3. QED
    BY <2>1, <2>2, KeptOn
<1>2. CASE Save \/ SaveHalf
  BY <1>2, RestSave
<1>3. CASE Open
  <2>1. /\ app'.open /\ pc' = "sync" /\ UNCHANGED <<segments, repo>>
        /\ rest' = IF app.open THEN None ELSE rest
    BY <1>3 DEF Open, Done, NoDocument
  <2>2. CASE rest' = None
    BY <2>2 DEF RestInv
  <2>3. CASE rest' = rest
    BY <2>1, <2>3, KeptOn
  <2>4. QED
    BY <2>1, <2>2, <2>3
<1>10. CASE OpenHalf
  <2>1. /\ pc' = "warned" /\ UNCHANGED <<segments, repo>> /\ app'.open
        /\ rest' = IF app.open THEN None ELSE rest
    BY <1>10 DEF OpenHalf, IInv, TypeOK, Apps
  <2>2. CASE rest' = None
    BY <2>2 DEF RestInv
  <2>3. CASE rest' = rest
    BY <2>1, <2>3, KeptOn
  <2>4. QED
    BY <2>1, <2>2, <2>3
<1>4. CASE Close \/ \E s \in Ids : Recover(s) \/ RecoverHalf(s)
  <2>1. rest' = None
    BY <1>4 DEF Close, Recover, RecoverHalf
  <2>2. QED
    BY <2>1 DEF RestInv
<1>5. CASE Restart
  <2>1. /\ ~app'.open /\ cursor' = None /\ UNCHANGED <<segments, repo, rest>>
    BY <1>5 DEF Restart, NoDocument
  <2>2. QED
    BY <2>1, KeptOn
<1>6. ASSUME NEW s \in Ids, Discard(s) PROVE RestInv'
  BY <1>6, RestDiscard
<1>7. CASE SyncRemove \/ SyncAppend \/ SyncBegin \/ SyncReplace \/ SyncNothing
  BY <1>7, RestSync
<1>8. CASE UNCHANGED vars
  BY <1>8 DEF vars, RestInv, Kept, Live, AtHead, Covers
<1>9. QED
  BY <1>1, <1>2, <1>3, <1>4, <1>5, <1>6, <1>7, <1>8, <1>10 DEF Next

-----------------------------------------------------------------------------
(* What has been made so far.                                              *)

\* No edit is past the n-th.
Made(content, n) == \A e \in content : e[2] <= n

Known(entries, n) == \A i \in DOMAIN entries : Made(entries[i].put, n) /\ Made(entries[i].cut, n)

Holding(x, n) == Made(x.content, n) /\ Known(x.journal, n)

\* Inverses of what has been made.
InversesMade(a, n) == \A r \in a.inverses : Made(r.put, n) /\ Made(r.cut, n)

\* Nothing holds an edit that is still to be made.
MadeInv ==
    /\ \A y \in Line(app) : Holding(y, edits)
    /\ InversesMade(app, edits)
    /\ \A s \in Live : Made(segments[s].base, edits) /\ Known(segments[s].frames, edits)
    /\ \A i \in DOMAIN repo : Made(repo[i].content, edits) /\ Known(repo[i].history, edits)

\* Known entries together are known.
LEMMA KnownConcat ==
  ASSUME NEW s \in Seq(Entries), NEW t \in Seq(Entries), NEW n, Known(s, n), Known(t, n)
  PROVE  Known(s \o t, n)
<1>1. PICK u : u = s \o t
  OBVIOUS
<1>2. /\ \A i \in DOMAIN u : \/ i \in DOMAIN s /\ u[i] = s[i]
                             \/ \E k \in DOMAIN t : u[i] = t[k]
  <2>1. SUFFICES ASSUME NEW i \in DOMAIN u
                 PROVE  (i \in DOMAIN s /\ u[i] = s[i]) \/ \E k \in DOMAIN t : u[i] = t[k]
    OBVIOUS
  <2>2. CASE i <= Len(s)
    BY <1>1, <2>2
  <2>3. CASE i > Len(s)
    <3>1. i - Len(s) \in DOMAIN t /\ u[i] = t[i - Len(s)]
      BY <1>1, <2>3
    <3>2. QED
      BY <3>1
  <2>4. QED
    BY <1>1, <2>2, <2>3
<1>3. QED
  BY <1>1, <1>2 DEF Known

\* So is a part of them.
LEMMA KnownSlice ==
  ASSUME NEW s \in Seq(Entries), NEW l \in Nat, NEW m \in Nat, l + m <= Len(s), NEW n, Known(s, n)
  PROVE  Known(SubSeq(s, l + 1, l + m), n)
<1>1. /\ SubSeq(s, l + 1, l + m) \in Seq(Entries)
      /\ Len(SubSeq(s, l + 1, l + m)) = m
      /\ \A i \in 1..m : l + i \in DOMAIN s /\ SubSeq(s, l + 1, l + m)[i] = s[l + i]
  BY SliceProps
<1>2. DOMAIN SubSeq(s, l + 1, l + m) = 1..m
  BY <1>1
<1>3. QED
  BY <1>1, <1>2 DEF Known

\* A replay makes no edits.
LEMMA ReplayedMade ==
  ASSUME NEW base, NEW s \in Seq(Entries), NEW n, Made(base, n), Known(s, n)
  PROVE  Made(Replayed(base, s), n)
<1>1. SUFFICES ASSUME NEW e \in Replayed(base, s) PROVE e[2] <= n
  BY DEF Made
<1>2. InEffect(e, base, s)
  BY <1>1, ReplayedHolds
<1>3. QED
  BY <1>2 DEF InEffect, Made, Known

\* What grows by made edits holds made edits.
LEMMA HoldingGrown ==
  ASSUME NEW x \in Versions, NEW y, NEW new \in Seq(Entries), NEW p, GrownBy(y, x, new, p),
         NEW n, Holding(x, n), Known(new, n)
  PROVE  Holding(y, n)
<1>1. x.journal \in Seq(Entries)
  BY DEF Versions
<1>2. QED
  BY <1>1, KnownConcat, ReplayedMade DEF Holding, GrownBy

\* What has been made stays made.
LEMMA MadeOn ==
  ASSUME NEW content \in Documents, NEW n \in Nat, Made(content, n)
  PROVE  Made(content, n + 1)
<1>1. \A e \in content : e[2] \in Nat
  BY DEF Documents, Edits
<1>2. QED
  BY <1>1 DEF Made

\* What is known stays known.
LEMMA KnownOn ==
  ASSUME NEW s \in Seq(Entries), NEW n \in Nat, Known(s, n)
  PROVE  Known(s, n + 1)
<1>1. \A i \in DOMAIN s : s[i].put \in Documents /\ s[i].cut \in Documents
  <2>1. \A i \in DOMAIN s : s[i] \in Entries
    OBVIOUS
  <2>2. QED
    BY <2>1 DEF Entries
<1>2. QED
  BY <1>1, MadeOn DEF Known

\* What a version holds stays made.
LEMMA HoldingOn ==
  ASSUME NEW y \in Versions, NEW n \in Nat, Holding(y, n)
  PROVE  Holding(y, n + 1)
BY MadeOn, KnownOn DEF Versions, Holding

\* The versions after an edit, and after a step.
LEMMA EditVersions ==
  ASSUME NEW m, NEW a \in Apps, NEW e, NEW new, EditFrom(m, a, e, new)
  PROVE  Line(m) \subseteq Line(a) \cup {Version(m)}
<1>1. a.undo \in Seq(Checkpoints)
  BY DEF Apps
<1>2. \A i \in DOMAIN m.undo : Version(m.undo[i]) \in Line(a)
  BY <1>1, LineHas, PushedVersions DEF EditFrom
<1>3. DOMAIN m.redo = {}
  BY DEF EditFrom
<1>4. QED
  BY <1>2, <1>3 DEF Line

\* The versions of a session after a step of the edit history.
LEMMA StepVersions ==
  ASSUME NEW m, NEW a \in Apps, NEW verb \in {"undo", "redo"}, Stack(a, verb) # <<>>,
         StacksMoved(m, a, verb)
  PROVE  Line(m) \subseteq Line(a) \cup {Version(m)}
<1>1. PICK o \in {"undo", "redo"} : o = Opposite(verb) /\ o # verb
  BY DEF Opposite
<1>2. /\ Stack(a, verb) \in Seq(Checkpoints) /\ Stack(a, o) \in Seq(Checkpoints)
      /\ Len(a.journal) \in Nat
  BY DEF Apps, Stack
<1>3. \A v \in {"undo", "redo"} : \A i \in DOMAIN Stack(a, v) : Version(Stack(a, v)[i]) \in Line(a)
  BY LineHas DEF Stack
<1>4. \A i \in DOMAIN Stack(m, verb) : Version(Stack(m, verb)[i]) \in Line(a)
  BY <1>2, <1>3, PoppedVersions DEF StacksMoved
<1>5. \A i \in DOMAIN Stack(m, o) : Version(Stack(m, o)[i]) \in Line(a)
  BY <1>1, <1>2, <1>3, LineHas, PushedVersions DEF StacksMoved
<1>6. \A i \in DOMAIN m.undo : Version(m.undo[i]) \in Line(a)
  BY <1>1, <1>4, <1>5 DEF Stack
<1>7. \A i \in DOMAIN m.redo : Version(m.redo[i]) \in Line(a)
  BY <1>1, <1>4, <1>5 DEF Stack
<1>8. QED
  BY <1>6, <1>7 DEF Line

\* What has been captured of inverses that were made stays made.
LEMMA InversesOn ==
  ASSUME NEW a \in Apps, NEW n \in Nat, InversesMade(a, n)
  PROVE  InversesMade(a, n + 1)
<1>1. \A r \in a.inverses : r.put \in Documents /\ r.cut \in Documents
  BY DEF Apps, Inversions
<1>2. QED
  BY <1>1, MadeOn DEF InversesMade

\* The inverses of changes that are made are made.
LEMMA CapturedMade ==
  ASSUME NEW a, NEW n, InversesMade(a, n), NEW first, NEW operations,
         \A i \in DOMAIN operations : Made(operations[i].put, n) /\ Made(operations[i].cut, n),
         NEW m, m.inverses = Captured(a.inverses, first, operations)
  PROVE  InversesMade(m, n)
<1>1. SUFFICES ASSUME NEW r \in m.inverses PROVE Made(r.put, n) /\ Made(r.cut, n)
  BY DEF InversesMade
<1>2. CASE r \in a.inverses
  BY <1>2 DEF InversesMade
<1>3. CASE r \notin a.inverses
  <2>1. PICK i \in DOMAIN operations :
            r = [op |-> first + i - 1, put |-> operations[i].cut, cut |-> operations[i].put]
    BY <1>3 DEF Captured
  <2>2. r.put = operations[i].cut /\ r.cut = operations[i].put
    BY <2>1
  <2>3. QED
    BY <2>2
<1>4. QED
  BY <1>2, <1>3

\* The changes that undo a step are of what the session knows.
LEMMA InverseKnown ==
  ASSUME NEW a \in Apps, NEW t \in Checkpoints, NEW n, InversesMade(a, n), Reversible(a, t)
  PROVE  \A i \in DOMAIN InverseOf(a, t) :
             Made(InverseOf(a, t)[i].put, n) /\ Made(InverseOf(a, t)[i].cut, n)
<1>1. PICK w \in Seq(Entries) : w = Window(a, t)
  BY WindowProps
<1>2. PICK inv : inv = InverseOf(a, t)
  OBVIOUS
<1>3. DOMAIN inv = 1..Len(w)
  <2>1. PICK step : step = Reverse(w)
    OBVIOUS
  <2>2. DOMAIN step = 1..Len(w)
    BY <2>1 DEF Reverse
  <2>3. DOMAIN inv = DOMAIN step
    BY <1>1, <1>2, <2>1 DEF InverseOf
  <2>4. QED
    BY <2>2, <2>3
<1>4. ASSUME NEW i \in 1..Len(w) PROVE Made(inv[i].put, n) /\ Made(inv[i].cut, n)
  <2>1. PICK r \in InversesOf(a, w[Len(w) - i + 1].op) : inv[i].put = r.put /\ inv[i].cut = r.cut
    BY <1>1, <1>2, WindowProps
  <2>2. r \in a.inverses
    BY <2>1 DEF InversesOf
  <2>3. QED
    BY <2>1, <2>2 DEF InversesMade
<1>5. QED
  BY <1>2, <1>3, <1>4

\* Envelopes of changes that are made are known.
LEMMA EnvelopesKnown ==
  ASSUME NEW new, NEW kind, NEW changes, EnvelopesOf(new, kind, changes),
         DOMAIN new = DOMAIN changes, NEW n,
         \A i \in DOMAIN changes : Made(changes[i].put, n) /\ Made(changes[i].cut, n)
  PROVE  Known(new, n)
BY DEF EnvelopesOf, Known

\* What the store and the repository hold has been made, with more made since.
Stored(n) ==
    /\ \A s \in Live : Made(segments[s].base, n) /\ Known(segments[s].frames, n)
    /\ \A i \in DOMAIN repo : Made(repo[i].content, n) /\ Known(repo[i].history, n)

\* What is stored stays made.
LEMMA StoredOn == ASSUME IInv, NEW n \in Nat, Stored(n) PROVE Stored(n + 1)
<1>1. ASSUME NEW s \in Live PROVE Made(segments[s].base, n + 1) /\ Known(segments[s].frames, n + 1)
  <2>1. segments[s] \in Segments
    BY <1>1 DEF IInv, TypeOK, Live
  <2>2. QED
    BY <1>1, <2>1, MadeOn, KnownOn DEF Stored, Segments
<1>2. ASSUME NEW i \in DOMAIN repo PROVE Made(repo[i].content, n + 1) /\ Known(repo[i].history, n + 1)
  <2>1. repo[i] \in Commits
    BY <1>2 DEF IInv, TypeOK
  <2>2. QED
    BY <1>2, <2>1, MadeOn, KnownOn DEF Stored, Commits
<1>3. QED
  BY <1>1, <1>2 DEF Stored

\* There is nothing at first.
LEMMA MadeInit == Init => MadeInv
<1> SUFFICES ASSUME Init PROVE MadeInv
  OBVIOUS
<1>1. app.undo = <<>> /\ app.redo = <<>> /\ app.content = {} /\ app.journal = <<>>
      /\ app.inverses = {}
  BY DEF Init, NoDocument
<1>2. Line(app) = {Version(app)}
  BY <1>1 DEF Line
<1>3. Holding(Version(app), edits)
  BY <1>1, VersionFields DEF Holding, Made, Known
<1>4. Live = {} /\ DOMAIN repo = {}
  BY DEF Init, Live
<1>5. QED
  BY <1>1, <1>2, <1>3, <1>4 DEF MadeInv, InversesMade

\* The versions of the session are well typed.
LEMMA LineType == ASSUME IInv, NEW y \in Line(app) PROVE y \in Versions
<1>1. app \in Apps /\ app.undo \in Seq(Checkpoints) /\ app.redo \in Seq(Checkpoints)
  BY DEF IInv, TypeOK, Apps
<1>2. PICK x \in Apps \cup Checkpoints : y = Version(x)
  <2>1. /\ \A i \in DOMAIN app.undo : app.undo[i] \in Checkpoints
        /\ \A i \in DOMAIN app.redo : app.redo[i] \in Checkpoints
    BY <1>1
  <2>2. QED
    BY <1>1, <2>1 DEF Line
<1>3. QED
  BY <1>2, VersionType

\* An edit is made, and no other.
LEMMA MadeEdit ==
  ASSUME IInv, MadeInv, NEW type \in {"doc", "fixed", "sheet"}, Edit(type)
  PROVE  MadeInv'
<1>1. PICK n \in Nat : n = edits /\ edits' = n + 1
  BY DEF IInv, TypeOK, Edit
<1>2. PICK e : e = <<type, n + 1>>
  OBVIOUS
<1>3. PICK new \in Seq(Entries) : EditFrom(app', app, e, new)
  BY <1>1, <1>2, EditGrows
<1>4. app \in Apps /\ Version(app) \in Line(app) /\ Version(app) \in Versions
  BY LineHas, VersionType DEF IInv, TypeOK
<1>5. Known(new, n + 1) /\ InversesMade(app', n + 1)
  <2>1. PICK changes : changes = <<[put |-> {e}, cut |-> {}]>>
    OBVIOUS
  <2>2. Len(changes) = 1 /\ changes[1].put = {e} /\ changes[1].cut = {}
    BY <2>1
  <2>3. EnvelopesOf(new, KindOf(e), changes)
        /\ app'.inverses = Captured(app.inverses, app.nextOp, Operations(KindOf(e), changes))
    BY <1>3, <2>1 DEF EditFrom, Registered
  <2>4. DOMAIN new = 1..1 /\ new[1].put = {e} /\ new[1].cut = {}
    <3>1. Len(new) = 1
      BY <2>2, <2>3 DEF EnvelopesOf
    <3>2. DOMAIN new = 1..1
      BY <3>1
    <3>3. QED
      BY <2>2, <2>3, <3>2 DEF EnvelopesOf
  <2>5. e[2] <= n + 1
    BY <1>2
  <2>6. Known(new, n + 1)
    BY <2>4, <2>5 DEF Known, Made
  <2>7. DOMAIN changes = 1..1
    BY <2>1
  <2>8. ASSUME NEW i \in DOMAIN changes
        PROVE  Made(changes[i].put, n + 1) /\ Made(changes[i].cut, n + 1)
    BY <2>2, <2>5, <2>7 DEF Made
  <2>9. PICK operations : operations = Operations(KindOf(e), changes)
    OBVIOUS
  <2>10. \A i \in DOMAIN operations :
             Made(operations[i].put, n + 1) /\ Made(operations[i].cut, n + 1)
    <3>1. operations = changes \/ DOMAIN operations = {}
      BY <2>9 DEF Operations
    <3>2. QED
      BY <2>8, <3>1
  <2>11. InversesMade(app, n + 1)
    BY <1>1, <1>4, InversesOn DEF MadeInv
  <2>12. InversesMade(app', n + 1)
    BY <2>3, <2>9, <2>10, <2>11, CapturedMade
  <2>13. QED
    BY <2>6, <2>12
<1>6. Holding(Version(app'), n + 1)
  <2>1. Holding(Version(app), n + 1)
    BY <1>1, <1>4, HoldingOn DEF MadeInv
  <2>2. QED
    BY <1>3, <1>4, <1>5, <2>1, HoldingGrown DEF EditFrom
<1>7. Line(app') \subseteq Line(app) \cup {Version(app')}
  BY <1>3, <1>4, EditVersions
<1>8. \A y \in Line(app) : Holding(y, n + 1)
  BY <1>1, LineType, HoldingOn DEF MadeInv
<1>9. Stored(n + 1)
  BY <1>1, StoredOn DEF MadeInv, Stored
<1>10. segments' = segments /\ repo' = repo
  BY DEF Edit
<1>11. QED
  BY <1>1, <1>5, <1>6, <1>7, <1>8, <1>9, <1>10 DEF MadeInv, Stored, Live

\* A step of the edit history makes none.
LEMMA MadeStep ==
  ASSUME IInv, MadeInv, NEW verb \in {"undo", "redo"}, Step(verb)
  PROVE  MadeInv'
<1>1. PICK t \in Checkpoints : t = Last(Stack(app, verb))
  BY StepGrows
<1>2. PICK m \in Apps, new \in Seq(Entries) :
          /\ SteppedFrom(m, app, verb, t, new)
          /\ Version(app') = Version(m) /\ SameInverses(app', m)
          /\ app'.undo = m.undo /\ app'.redo = m.redo
  BY <1>1, StepGrows
<1>3. /\ app \in Apps /\ Stack(app, verb) # <<>>
      /\ segments' = segments /\ repo' = repo /\ edits' = edits
  BY DEF IInv, TypeOK, Step
<1>4. Stack(app, verb) \in Seq(Checkpoints)
  BY <1>3 DEF Apps, Stack
<1>5. Version(app) \in Line(app) /\ Version(t) \in Line(app)
  <2>1. Len(Stack(app, verb)) \in DOMAIN Stack(app, verb) /\ t = Stack(app, verb)[Len(Stack(app, verb))]
    BY <1>1, <1>3, <1>4, FrontAndLast
  <2>2. QED
    BY <2>1, LineHas DEF Stack
<1>6. Holding(Version(app), edits) /\ Holding(Version(t), edits)
  BY <1>5 DEF MadeInv
<1>7. Version(app) \in Versions /\ Version(t) \in Versions
  BY <1>3, VersionType
<1>8. Holding(Version(m), edits) /\ InversesMade(m, edits)
  <2>4. InversesMade(app, edits)
    BY DEF MadeInv
  <2>1. CASE Reversible(app, t)
    <3>1. PICK inv : inv = InverseOf(app, t)
      OBVIOUS
    <3>2. \A i \in DOMAIN inv : Made(inv[i].put, edits) /\ Made(inv[i].cut, edits)
      BY <1>3, <2>1, <2>4, <3>1, InverseKnown
    <3>3. /\ EnvelopesOf(new, "document", inv)
          /\ m.inverses = Captured(app.inverses, app.nextOp, inv)
          /\ GrownBy(Version(m), Version(app), new, process)
      BY <1>2, <2>1, <3>1 DEF SteppedFrom, Registered
    <3>4. DOMAIN new = DOMAIN inv
      <4>1. Len(new) = Len(inv) /\ DOMAIN new = 1..Len(new)
        BY <3>3 DEF EnvelopesOf
      <4>2. DOMAIN inv = 1..Len(inv)
        <5>1. PICK step : step = Reverse(Window(app, t))
          OBVIOUS
        <5>2. DOMAIN step = 1..Len(Window(app, t))
          BY <5>1 DEF Reverse
        <5>3. DOMAIN inv = DOMAIN step
          BY <3>1, <5>1 DEF InverseOf
        <5>4. Len(inv) = Len(Window(app, t))
          BY <1>3, <2>1, <3>1, WindowProps
        <5>5. QED
          BY <5>2, <5>3, <5>4
      <4>3. QED
        BY <4>1, <4>2
    <3>5. Known(new, edits)
      BY <3>2, <3>3, <3>4, EnvelopesKnown
    <3>6. InversesMade(m, edits)
      BY <2>4, <3>2, <3>3, CapturedMade
    <3>7. QED
      BY <1>6, <1>7, <3>3, <3>5, <3>6, HoldingGrown
  <2>2. CASE ~Reversible(app, t)
    <3>1. EnvelopesOf(new, verb, <<Marker>>)
      BY <1>2, <2>2 DEF SteppedFrom
    <3>2. PICK changes : changes = <<Marker>>
      OBVIOUS
    <3>3. Len(changes) = 1 /\ changes[1].put = {} /\ changes[1].cut = {}
      BY <3>2 DEF Marker
    <3>4. DOMAIN new = 1..1 /\ new[1].put = {} /\ new[1].cut = {}
      <4>1. Len(new) = 1
        BY <3>1, <3>2, <3>3 DEF EnvelopesOf
      <4>2. DOMAIN new = 1..1
        BY <4>1
      <4>3. QED
        BY <3>1, <3>2, <3>3, <4>2 DEF EnvelopesOf
    <3>5. Known(new, edits)
      BY <3>4 DEF Known, Made
    <3>6. m.inverses = app.inverses /\ GrownBy(Version(m), Version(t), new, process)
      BY <1>2, <2>2 DEF SteppedFrom
    <3>7. InversesMade(m, edits)
      BY <2>4, <3>6 DEF InversesMade
    <3>8. QED
      BY <1>6, <1>7, <3>5, <3>6, <3>7, HoldingGrown
  <2>3. QED
    BY <2>1, <2>2
<1>9. Line(m) \subseteq Line(app) \cup {Version(m)}
  BY <1>2, <1>3, StepVersions DEF SteppedFrom
<1>10. Line(app') = Line(m)
  BY <1>2 DEF Line
<1>11. \A y \in Line(app') : Holding(y, edits)
  BY <1>8, <1>9, <1>10 DEF MadeInv
<1>12. InversesMade(app', edits)
  BY <1>2, <1>8 DEF InversesMade, SameInverses
<1>13. QED
  BY <1>3, <1>11, <1>12 DEF MadeInv, Live

\* A session that is loaded has no versions but its own.
LEMMA MadeLoaded ==
  ASSUME app'.undo = <<>>, app'.redo = <<>>, Made(app'.content, edits), Known(app'.journal, edits),
         app'.inverses \in {app.inverses, {}}, edits' = edits, repo' = repo, MadeInv,
         \A s \in Ids : segments'[s] # None => segments'[s] = segments[s]
  PROVE  MadeInv'
<1>1. Line(app') = {Version(app')}
  BY DEF Line
<1>2. Holding(Version(app'), edits)
  BY VersionFields DEF Holding
<1>3. InversesMade(app', edits)
  BY DEF MadeInv, InversesMade
<1>4. QED
  BY <1>1, <1>2, <1>3 DEF MadeInv, Live

\* Nor does a save.
LEMMA MadeSave ==
  ASSUME IInv, MadeInv, Save \/ SaveHalf
  PROVE  MadeInv'
<1>1. PICK c : c = [content |-> app.content, history |-> History \o Pending(app),
                    behind |-> Behind(app)]
  OBVIOUS
<1>2. /\ repo' = Append(repo, c) /\ edits' = edits /\ segments' = segments
      /\ \/ app' = app
         \/ app' = [app EXCEPT !.saved = Len(app.journal), !.manifest = Len(repo) + 1,
                               !.recovered = FALSE]
  BY <1>1 DEF Save, SaveHalf, Commit
<1>3. app \in Apps /\ repo \in Seq(Commits) /\ app.saved <= Len(app.journal)
  BY DEF IInv, TypeOK
<1>4. app'.undo = app.undo /\ app'.redo = app.redo /\ app'.content = app.content
      /\ app'.journal = app.journal /\ app'.inverses = app.inverses
  BY <1>2, <1>3 DEF Apps
<1>5. Made(app.content, edits) /\ Known(app.journal, edits)
  BY LineHas, VersionFields DEF MadeInv, Holding
<1>6. \A y \in Line(app') : Holding(y, edits)
  <2>1. Line(app') \subseteq Line(app) \cup {Version(app')}
    BY <1>4 DEF Line
  <2>2. Holding(Version(app'), edits)
    BY <1>4, <1>5, VersionFields DEF Holding
  <2>3. QED
    BY <2>1, <2>2 DEF MadeInv
<1>7. Made(c.content, edits) /\ Known(c.history, edits)
  <2>1. PICK h \in Seq(Entries) : h = History
    BY <1>3, PastType DEF History, Past
  <2>2. Known(h, edits)
    <3>1. CASE repo = <<>>
      BY <2>1, <3>1 DEF History, Known
    <3>2. CASE repo # <<>>
      <4>1. h = repo[Len(repo)].history /\ Len(repo) \in DOMAIN repo
        BY <1>3, <2>1, <3>2, FrontAndLast DEF History
      <4>2. QED
        BY <4>1 DEF MadeInv
    <3>3. QED
      BY <3>1, <3>2
  <2>3. PICK j \in Seq(Entries), n \in Nat : j = app.journal /\ n = app.saved /\ n <= Len(j)
    BY <1>3 DEF Apps
  <2>4. PICK k \in Nat : n + k = Len(j)
    <3>1. Len(j) - n \in Nat /\ n + (Len(j) - n) = Len(j)
      BY <2>3
    <3>2. QED
      BY <3>1
  <2>5. Known(SubSeq(j, n + 1, n + k), edits)
    BY <1>5, <2>3, <2>4, KnownSlice
  <2>6. Pending(app) = SubSeq(j, n + 1, n + k)
    BY <2>3, <2>4 DEF Pending, Since
  <2>7. Pending(app) \in Seq(Entries)
    <3>1. SubSeq(j, n + 1, Len(j)) \in Seq(Entries)
      BY <2>3, SinceProps
    <3>2. QED
      BY <2>3, <3>1 DEF Pending, Since
  <2>8. Known(h \o Pending(app), edits)
    BY <2>2, <2>5, <2>6, <2>7, KnownConcat
  <2>9. QED
    BY <1>1, <1>5, <2>1, <2>8
<1>8. \A i \in DOMAIN repo' : Made(repo'[i].content, edits) /\ Known(repo'[i].history, edits)
  <2>1. ASSUME NEW i \in DOMAIN repo' PROVE repo'[i] = c \/ (i \in DOMAIN repo /\ repo'[i] = repo[i])
    BY <1>2, <1>3, <2>1
  <2>2. QED
    BY <1>7, <2>1 DEF MadeInv
<1>9. InversesMade(app', edits)
  BY <1>4 DEF MadeInv, InversesMade
<1>10. QED
  BY <1>2, <1>6, <1>8, <1>9 DEF MadeInv, Live

\* Nor does opening what was saved.
LEMMA MadeOpen == ASSUME IInv, MadeInv, Open PROVE MadeInv'
<1>1. /\ repo # <<>> /\ repo \in Seq(Commits)
      /\ app' = [NoDocument EXCEPT !.open = TRUE,
                                   !.content = Last(repo).content,
                                   !.journal = History,
                                   !.saved = Len(History),
                                   !.manifest = Len(repo),
                                   !.next = Rebased(History, app.next),
                                   !.nextOp = RebasedOp(History, app.nextOp),
                                   !.inverses = app.inverses]
      /\ UNCHANGED <<segments, repo, edits>>
  BY DEF Open, IInv, TypeOK
<1>2. /\ app'.undo = <<>> /\ app'.redo = <<>>
      /\ app'.content = Last(repo).content /\ app'.journal = Last(repo).history
      /\ app'.inverses = app.inverses
  BY <1>1 DEF NoDocument, History
<1>3. Last(repo) = repo[Len(repo)] /\ Len(repo) \in DOMAIN repo
  BY <1>1, FrontAndLast
<1>4. Made(app'.content, edits) /\ Known(app'.journal, edits)
  BY <1>2, <1>3 DEF MadeInv
<1>5. QED
  BY <1>1, <1>2, <1>4, MadeLoaded

\* Nor does an open that fails.
LEMMA MadeOpenHalf == ASSUME IInv, MadeInv, OpenHalf PROVE MadeInv'
<1>1. /\ repo # <<>> /\ repo \in Seq(Commits) /\ app \in Apps
      /\ app' = [app EXCEPT !.open = TRUE,
                            !.content = Last(repo).content,
                            !.journal = History,
                            !.saved = Len(History),
                            !.next = Rebased(History, @),
                            !.nextOp = RebasedOp(History, @),
                            !.recovered = FALSE,
                            !.half = @ \/ app.undo # <<>> \/ app.redo # <<>>]
      /\ UNCHANGED <<segments, repo, edits>>
  BY DEF OpenHalf, IInv, TypeOK
<1>2. /\ app'.undo = app.undo /\ app'.redo = app.redo /\ app'.inverses = app.inverses
      /\ app'.content = Last(repo).content /\ app'.journal = Last(repo).history
  BY <1>1 DEF History, Apps
<1>3. Last(repo) = repo[Len(repo)] /\ Len(repo) \in DOMAIN repo
  BY <1>1, FrontAndLast
<1>4. Made(app'.content, edits) /\ Known(app'.journal, edits)
  BY <1>2, <1>3 DEF MadeInv
<1>5. Line(app') \subseteq Line(app) \cup {Version(app')}
  BY <1>2 DEF Line
<1>6. Holding(Version(app'), edits)
  BY <1>4, VersionFields DEF Holding
<1>7. InversesMade(app', edits)
  BY <1>2 DEF MadeInv, InversesMade
<1>8. QED
  BY <1>1, <1>5, <1>6, <1>7 DEF MadeInv, Live

\* Nor does a recovery.
LEMMA MadeRecover ==
  ASSUME IInv, MadeInv, NEW s \in Ids, Recover(s) \/ RecoverHalf(s)
  PROVE  MadeInv'
<1>1. /\ segments[s] # None /\ app' = Recovered(segments[s])
      /\ UNCHANGED <<repo, edits>>
      /\ segments' = segments \/ segments' = [segments EXCEPT ![s] = None]
  BY DEF Recover, RecoverHalf
<1>2. \A i \in Ids : segments'[i] # None => segments'[i] = segments[i]
  BY <1>1 DEF IInv, TypeOK
<1>3. PICK g \in Segments : g = segments[s]
  BY <1>1 DEF IInv, TypeOK
<1>4. /\ app'.undo = <<>> /\ app'.redo = <<>>
      /\ app'.content = Replayed(g.base, g.frames) /\ app'.journal = g.frames
      /\ app'.inverses = app.inverses
  BY <1>1, <1>3 DEF Recovered, NoDocument
<1>5. Made(g.base, edits) /\ Known(g.frames, edits) /\ g.frames \in Seq(Entries)
  BY <1>1, <1>3 DEF MadeInv, Live, Segments
<1>6. Made(app'.content, edits) /\ Known(app'.journal, edits)
  BY <1>4, <1>5, ReplayedMade
<1>7. QED
  BY <1>1, <1>2, <1>4, <1>6, MadeLoaded

\* Nor does closing.
LEMMA MadeNothing ==
  ASSUME MadeInv, app' = NoDocument, UNCHANGED <<segments, repo, edits>>
  PROVE  MadeInv'
<1>1. app'.undo = <<>> /\ app'.redo = <<>> /\ app'.content = {} /\ app'.journal = <<>>
      /\ app'.inverses = {}
  BY DEF NoDocument
<1>2. Made(app'.content, edits) /\ Known(app'.journal, edits)
  BY <1>1 DEF Made, Known
<1>3. QED
  BY <1>1, <1>2, MadeLoaded

\* The store, with a segment in it of what the session holds.
LEMMA MadeStored ==
  ASSUME MadeInv, NEW s \in Ids, NEW g, Made(g.base, edits), Known(g.frames, edits),
         segments'[s] = g, \A i \in Ids : i # s => segments'[i] = segments[i],
         UNCHANGED <<app, repo, edits>>
  PROVE  MadeInv'
<1>1. ASSUME NEW i \in Live'
      PROVE  Made(segments'[i].base, edits) /\ Known(segments'[i].frames, edits)
  <2>1. CASE i = s
    BY <2>1
  <2>2. CASE i # s
    <3>1. i \in Ids /\ segments'[i] # None /\ segments'[i] = segments[i]
      BY <1>1, <2>2 DEF Live
    <3>2. i \in Live
      BY <3>1 DEF Live
    <3>3. QED
      BY <3>1, <3>2 DEF MadeInv
  <2>3. QED
    BY <2>1, <2>2
<1>2. QED
  BY <1>1 DEF MadeInv

\* And with one fewer.
LEMMA MadeRemoved ==
  ASSUME MadeInv, \A i \in Ids : segments'[i] # None => segments'[i] = segments[i],
         UNCHANGED <<app, repo, edits>>
  PROVE  MadeInv'
BY DEF MadeInv, Live

\* Nor does a sync.
LEMMA MadeSync ==
  ASSUME IInv, MadeInv,
         SyncRemove \/ SyncAppend \/ SyncBegin \/ SyncReplace \/ SyncNothing
  PROVE  MadeInv'
<1>1. UNCHANGED <<app, repo, edits>>
  BY DEF SyncRemove, SyncAppend, SyncBegin, SyncReplace, SyncNothing
<1>2. segments \in [Ids -> Segments \cup {None}] /\ app \in Apps
  BY DEF IInv, TypeOK
<1>3. CASE segments' = segments \/ \E s \in Ids : segments' = [segments EXCEPT ![s] = None]
  <2>1. \A i \in Ids : segments'[i] # None => segments'[i] = segments[i]
    BY <1>2, <1>3
  <2>2. QED
    BY <1>1, <2>1, MadeRemoved
<1>4. CASE \E s \in Ids : segments' = [segments EXCEPT ![s] = Segment]
  <2>1. PICK s \in Ids : segments' = [segments EXCEPT ![s] = Segment]
    BY <1>4
  <2>2. PICK g : g = Segment
    OBVIOUS
  <2>3. segments'[s] = g /\ \A i \in Ids : i # s => segments'[i] = segments[i]
    BY <1>2, <2>1, <2>2
  <2>4. g.base = app.content /\ DOMAIN g.frames = {}
    BY <2>2 DEF Segment
  <2>5. Made(g.base, edits) /\ Known(g.frames, edits)
    BY <2>4, LineHas, VersionFields DEF MadeInv, Holding, Known
  <2>6. QED
    BY <1>1, <2>3, <2>5, MadeStored
<1>5. CASE SyncAppend /\ segments' # segments
  <2>1. PICK new : new = Since(app, cursor.saved + Len(cursor.covered))
    OBVIOUS
  <2>2. /\ IsCurrent /\ cursor # None
        /\ segments' = [segments EXCEPT ![cursor.session].frames = @ \o new]
    BY <1>5, <2>1 DEF SyncAppend, IsCurrent
  <2>3. /\ cursor \in Cursors /\ cursor.session \in Ids
        /\ segments[cursor.session] \in Segments /\ segments[cursor.session] # None
    BY <1>2, <2>2 DEF IInv, TypeOK, Cursors, CursorCovers
  <2>4. PICK s \in Segments : s = segments[cursor.session]
    BY <2>3
  <2>5. PICK n \in Nat : n = cursor.saved + Len(cursor.covered)
    BY <2>3 DEF Cursors
  <2>6. PICK j \in Seq(Entries) : j = app.journal /\ n <= Len(j)
    BY <1>2, <2>2, <2>3, <2>5 DEF Apps, Cursors, IsCurrent
  <2>7. PICK k \in Nat : n + k = Len(j)
    <3>1. Len(j) - n \in Nat /\ n + (Len(j) - n) = Len(j)
      BY <2>6
    <3>2. QED
      BY <3>1
  <2>8. new \in Seq(Entries) /\ Known(new, edits)
    <3>1. Known(j, edits)
      BY <2>6, LineHas, VersionFields DEF MadeInv, Holding
    <3>2. Known(SubSeq(j, n + 1, n + k), edits)
      <4>1. n + k <= Len(j)
        BY <2>7
      <4>2. QED
        BY ONLY <3>1, <4>1, j \in Seq(Entries), n \in Nat, k \in Nat, KnownSlice
    <3>3. SubSeq(j, n + 1, Len(j)) \in Seq(Entries)
      BY <2>6, SinceProps
    <3>4. new = SubSeq(j, n + 1, Len(j))
      BY <2>1, <2>5, <2>6 DEF Since
    <3>5. QED
      BY <2>7, <3>2, <3>3, <3>4
  <2>9. PICK f : f = s.frames \o new
    OBVIOUS
  <2>10. Known(f, edits) /\ Made(s.base, edits)
    <3>1. Known(s.frames, edits) /\ Made(s.base, edits) /\ s.frames \in Seq(Entries)
      BY <2>3, <2>4 DEF MadeInv, Live, Segments
    <3>2. QED
      BY <2>8, <2>9, <3>1, KnownConcat
  <2>11. PICK g : g = [s EXCEPT !.frames = f]
    OBVIOUS
  <2>12. g.base = s.base /\ g.frames = f
    BY <2>11 DEF Segments
  <2>13. segments' = [segments EXCEPT ![cursor.session] = g]
    BY <1>2, <2>2, <2>3, <2>4, <2>9, <2>11 DEF Segments
  <2>14. /\ segments'[cursor.session] = g
         /\ \A i \in Ids : i # cursor.session => segments'[i] = segments[i]
    BY <1>2, <2>3, <2>13
  <2>15. QED
    BY <1>1, <2>3, <2>10, <2>12, <2>14, MadeStored
<1>6. \/ segments' = segments
      \/ \E s \in Ids : segments' = [segments EXCEPT ![s] = None]
      \/ \E s \in Ids : segments' = [segments EXCEPT ![s] = Segment]
      \/ SyncAppend /\ segments' # segments
  <2>1. CASE SyncRemove
    BY <2>1 DEF SyncRemove, IInv, TypeOK, Cursors
  <2>2. CASE SyncBegin
    BY <2>2 DEF SyncBegin
  <2>3. CASE SyncReplace
    BY <2>3 DEF SyncReplace, IInv, PreviousIsAnother
  <2>4. CASE SyncNothing
    BY <2>4 DEF SyncNothing
  <2>5. QED
    BY <2>1, <2>2, <2>3, <2>4
<1>7. QED
  BY <1>3, <1>4, <1>5, <1>6

\* Every step holds made edits only.
LEMMA MadeNext == ASSUME IInv, MadeInv, [Next]_vars PROVE MadeInv'
<1>1. ASSUME NEW type \in {"doc", "fixed", "sheet"}, Edit(type) PROVE MadeInv'
  BY <1>1, MadeEdit
<1>2. ASSUME NEW verb \in {"undo", "redo"}, Step(verb) PROVE MadeInv'
  BY <1>2, MadeStep
<1>3. CASE Save \/ SaveHalf
  BY <1>3, MadeSave
<1>4. CASE Open
  BY <1>4, MadeOpen
<1>11. CASE OpenHalf
  BY <1>11, MadeOpenHalf
<1>5. CASE Close \/ Restart
  BY <1>5, MadeNothing DEF Close, Restart
<1>6. ASSUME NEW s \in Ids, Recover(s) \/ RecoverHalf(s) PROVE MadeInv'
  BY <1>6, MadeRecover
<1>7. ASSUME NEW s \in Ids, Discard(s) PROVE MadeInv'
  <2>1. UNCHANGED <<app, repo, edits>> /\ segments' = [segments EXCEPT ![s] = None]
    BY <1>7 DEF Discard
  <2>2. \A i \in Ids : segments'[i] # None => segments'[i] = segments[i]
    BY <2>1 DEF IInv, TypeOK
  <2>3. QED
    BY <2>1, <2>2, MadeRemoved
<1>8. CASE SyncRemove \/ SyncAppend \/ SyncBegin \/ SyncReplace \/ SyncNothing
  BY <1>8, MadeSync
<1>9. CASE UNCHANGED vars
  BY <1>9 DEF vars, MadeInv, Live
<1>10. QED
  BY <1>1, <1>2, <1>3, <1>4, <1>5, <1>6, <1>7, <1>8, <1>9, <1>11 DEF Next

-----------------------------------------------------------------------------
(* Steps can be retraced.                                                  *)

\* The edits that an entry is about.
Touches(entry) == entry.put \cup entry.cut

\* Entries that touch the document alone.
DocsOnly(w) ==
    \A i \in DOMAIN w : \A d \in Touches(w[i]) : d[1] = "doc"

\* What is held of an operation is its inverse.
Held(e, I) ==
    /\ \E r \in I : r.op = e.op
    /\ \A r \in I : r.op = e.op => r.put = e.cut /\ r.cut = e.put

\* The step has an inverse, or it has none.
HeldAll(w, I) == \A i \in DOMAIN w : Held(w[i], I)
Unheld(w, I) == \E i \in DOMAIN w : \A r \in I : r.op # w[i].op

\* The inverse of entries, newest first.
Inverted(w) ==
    [i \in 1..Len(w) |-> [put |-> w[Len(w) - i + 1].cut, cut |-> w[Len(w) - i + 1].put]]

\* An edit without an inverse is lost.
FixedLost(old, new) == \E d \in old \ new : d[1] = "fixed"

\* From x to z by the entries w of the actor p: there and back by the inverses in
\* I, or an edit without an inverse is lost on the way back.
StepOf(x, z, w, more, I, p) ==
    /\ z.journal = (x.journal \o w) \o more
    /\ IF x.end = None THEN more = <<>> ELSE x.end = Len(x.journal) + Len(w)
    /\ \A i \in DOMAIN w : w[i].actor = p
    /\ \/ /\ DocsOnly(w) /\ HeldAll(w, I)
          /\ Replayed(x.content, w) = z.content
          /\ Replayed(z.content, Inverted(w)) = x.content
       \/ Unheld(w, I) /\ FixedLost(z.content, x.content)

\* With the same workbook; with another one, a step is undone by snapshot.
Retraces(x, z, I, p) ==
    Workbook(x.content) = Workbook(z.content) =>
        \E w \in Seq(Entries), more \in Seq(Entries) : StepOf(x, z, w, more, I, p)

AllRetrace(stack, a, I, p) == \A i \in DOMAIN stack : Retraces(stack[i], After(stack, i, a), I, p)

ClosedBelow(stack) == \A i \in DOMAIN stack : i # Len(stack) => stack[i].end # None

\* A step can be retraced between the same versions.
LEMMA RetracesSame ==
  ASSUME NEW I, NEW p, NEW x, NEW z, NEW v, NEW u, Version(v) = Version(x), v.end = x.end,
         Version(u) = Version(z), Retraces(x, z, I, p)
  PROVE  Retraces(v, u, I, p)
<1>1. v.journal = x.journal /\ v.content = x.content /\ u.journal = z.journal /\ u.content = z.content
  BY VersionFields
<1>2. QED
  BY <1>1 DEF Retraces, StepOf

\* The parts of a journal, and the window in it.
LEMMA WindowIs ==
  ASSUME NEW a \in Apps, NEW t \in Checkpoints, NEW w \in Seq(Entries), NEW more \in Seq(Entries),
         a.journal = (t.journal \o w) \o more,
         IF t.end = None THEN more = <<>> ELSE t.end = Len(t.journal) + Len(w)
  PROVE  /\ Window(a, t) = w
         /\ Len(t.journal) <= Len(a.journal)
         /\ t.end # None => Len(t.journal) <= t.end
<1>1. PICK j \in Seq(Entries), l \in Nat, k \in Nat, q \in Nat :
          j = t.journal /\ l = Len(j) /\ k = Len(w) /\ q = Len(more)
  BY DEF Checkpoints
<1>2. PICK u \in Seq(Entries) : u = j \o w
  BY <1>1, EntriesConcat
<1>3. Len(u) = l + k /\ \A i \in 1..k : u[l + i] = w[i]
  BY <1>1, <1>2, EntriesConcat
<1>4. PICK b \in Seq(Entries) : b = a.journal
  BY DEF Apps
<1>5. b = u \o more
  BY <1>1, <1>2, <1>4
<1>6. Len(b) = l + k + q /\ \A i \in 1..(l + k) : b[i] = u[i]
  <2>1. /\ DOMAIN (u \o more) = 1..(Len(u) + Len(more)) /\ (u \o more) \in Seq(Entries)
        /\ \A i \in 1..Len(u) : (u \o more)[i] = u[i]
    BY EntriesConcat
  <2>2. DOMAIN b = 1..(l + k + q)
    BY <1>1, <1>3, <1>5, <2>1
  <2>3. Len(b) = l + k + q
    BY <1>1, <2>2
  <2>4. QED
    BY <1>3, <1>5, <2>1, <2>3
<1>7. PICK e : e = IF t.end = None \/ t.end > Len(a.journal) THEN Len(a.journal) ELSE t.end
  OBVIOUS
<1>8. e = l + k
  <2>1. CASE t.end = None
    <3>1. more = <<>>
      BY <2>1
    <3>2. q = 0
      BY <1>1, <3>1
    <3>3. QED
      BY <1>4, <1>6, <1>7, <2>1, <3>2
  <2>2. CASE t.end # None
    <3>1. t.end = l + k
      BY <1>1, <2>2
    <3>2. QED
      BY <1>4, <1>6, <1>7, <2>2, <3>1
  <2>3. QED
    BY <2>1, <2>2
<1>9. Window(a, t) = SubSeq(b, l + 1, l + k)
  BY <1>1, <1>4, <1>7, <1>8 DEF Window
<1>10. SubSeq(b, l + 1, l + k) = w
  <2>1. l + k <= Len(b)
    BY <1>1, <1>6
  <2>2. /\ SubSeq(b, l + 1, l + k) \in Seq(Entries)
        /\ Len(SubSeq(b, l + 1, l + k)) = k
        /\ \A i \in 1..k : SubSeq(b, l + 1, l + k)[i] = b[l + i]
    BY ONLY <2>1, b \in Seq(Entries), l \in Nat, k \in Nat, SliceProps
  <2>3. PICK v \in Seq(Entries) : v = SubSeq(b, l + 1, l + k)
    BY <2>2
  <2>4. ASSUME NEW i \in 1..k PROVE v[i] = w[i]
    <3>1. l + i \in 1..(l + k)
      BY <1>1
    <3>2. v[i] = b[l + i] /\ b[l + i] = u[l + i] /\ u[l + i] = w[i]
      BY <1>3, <1>6, <2>2, <2>3, <2>4, <3>1
    <3>3. QED
      BY <3>2
  <2>5. Len(v) = Len(w) /\ Len(w) = k
    BY <1>1, <2>2, <2>3
  <2>6. v = w
    BY <2>4, <2>5
  <2>7. QED
    BY <2>3, <2>6
<1>11. Len(t.journal) <= Len(a.journal)
  BY <1>1, <1>4, <1>6
<1>12. t.end # None => Len(t.journal) <= t.end
  BY <1>1
<1>13. QED
  BY <1>9, <1>10, <1>11, <1>12

\* Such a step has an inverse if one is held of each of its operations.
LEMMA ReversibleIs ==
  ASSUME NEW p, NEW a \in Apps, NEW t \in Checkpoints,
         NEW w \in Seq(Entries), NEW more \in Seq(Entries),
         StepOf(t, a, w, more, a.inverses, p), Workbook(t.content) = Workbook(a.content)
  PROVE  /\ Window(a, t) = w
         /\ HeldAll(w, a.inverses) => Reversible(a, t)
         /\ Unheld(w, a.inverses) => ~Reversible(a, t)
<1>1. /\ Window(a, t) = w /\ Len(t.journal) <= Len(a.journal)
      /\ t.end # None => Len(t.journal) <= t.end
  BY WindowIs DEF StepOf
<1>2. Reversible(a, t) <=> \A i \in DOMAIN w : InversesOf(a, w[i].op) # {}
  BY <1>1 DEF Reversible
<1>3. ASSUME HeldAll(w, a.inverses), NEW i \in DOMAIN w PROVE InversesOf(a, w[i].op) # {}
  <2>1. PICK r \in a.inverses : r.op = w[i].op
    BY <1>3 DEF HeldAll, Held
  <2>2. r \in InversesOf(a, w[i].op)
    BY <2>1 DEF InversesOf
  <2>3. QED
    BY <2>2
<1>4. ASSUME Unheld(w, a.inverses) PROVE \E i \in DOMAIN w : InversesOf(a, w[i].op) = {}
  <2>1. PICK i \in DOMAIN w : \A r \in a.inverses : r.op # w[i].op
    BY <1>4 DEF Unheld
  <2>2. InversesOf(a, w[i].op) = {}
    BY <2>1 DEF InversesOf
  <2>3. QED
    BY <2>2
<1>5. QED
  BY <1>1, <1>2, <1>3, <1>4

\* What was captured with new operations is held of them.
LEMMA CapturedHeld ==
  ASSUME NEW first \in Nat, NEW operations, NEW new \in Seq(Entries), NEW kind,
         EnvelopesOf(new, kind, operations), DOMAIN operations = DOMAIN new,
         NumberedFrom(new, "document", first), DocsOnly(new),
         NEW I, NEW J, J = Captured(I, first, operations)
  PROVE  HeldAll(new, J)
<1>1. SUFFICES ASSUME NEW i \in DOMAIN new PROVE Held(new[i], J)
  BY DEF HeldAll
<1>2. /\ i \in Nat /\ i \in DOMAIN operations /\ operations # <<>>
      /\ new[i].put = operations[i].put /\ new[i].cut = operations[i].cut
      /\ new[i].op = first + i - 1
  <2>1. i \in Nat /\ i \in DOMAIN operations
    OBVIOUS
  <2>2. operations # <<>>
    BY <2>1
  <2>3. QED
    BY <2>1, <2>2 DEF EnvelopesOf, NumberedFrom
<1>3. \A e \in operations[i].put \cup operations[i].cut : e[1] = "doc"
  BY <1>2 DEF DocsOnly, Touches
<1>4. PICK r : r = [op |-> first + i - 1, put |-> operations[i].cut, cut |-> operations[i].put]
  OBVIOUS
<1>5. r \in J
  BY <1>2, <1>3, <1>4 DEF Captured
<1>6. r.op = new[i].op
  BY <1>2, <1>4
<1>7. ASSUME NEW q \in J, q.op = new[i].op PROVE q.put = new[i].cut /\ q.cut = new[i].put
  <2>1. CASE q \in I /\ (q.op < first \/ operations = <<>>)
    BY <1>2, <1>7, <2>1
  <2>2. CASE \E j \in DOMAIN operations :
               q = [op |-> first + j - 1, put |-> operations[j].cut, cut |-> operations[j].put]
    <3>1. PICK j \in DOMAIN new :
              q = [op |-> first + j - 1, put |-> operations[j].cut, cut |-> operations[j].put]
      BY <2>2
    <3>2. j \in Nat /\ q.op = first + j - 1 /\ q.put = operations[j].cut /\ q.cut = operations[j].put
      BY <3>1
    <3>3. j = i
      BY <1>2, <1>7, <3>2
    <3>4. QED
      BY <1>2, <3>2, <3>3
  <2>3. QED
    BY <2>1, <2>2 DEF Captured
<1>8. QED
  BY <1>5, <1>6, <1>7 DEF Held

\* No operation of this actor in a journal has this number or a later one.
Under(journal, first, p) ==
    \A j \in DOMAIN journal : journal[j].actor = p => journal[j].op < first

\* What is captured leaves the inverses of operations numbered before.
LEMMA CapturedLeaves ==
  ASSUME NEW I, NEW first \in Nat, NEW operations \in Seq(Changes),
         NEW J, J = Captured(I, first, operations),
         NEW r, operations # <<>> => r.op < first
  PROVE  r \in J <=> r \in I
<1>2. ASSUME NEW j \in DOMAIN operations,
             r = [op |-> first + j - 1, put |-> operations[j].cut, cut |-> operations[j].put]
      PROVE  FALSE
  <2>1. j \in Nat /\ j >= 1 /\ operations # <<>>
    BY <1>2
  <2>2. r.op = first + j - 1
    BY <1>2
  <2>3. first + j - 1 < first
    BY <2>1, <2>2
  <2>4. QED
    BY <2>1, <2>3
<1>3. r \in J <=> r \in I /\ (r.op < first \/ operations = <<>>)
  BY <1>2 DEF Captured
<1>4. QED
  BY <1>3

\* Capturing leaves a step as it can be retraced.
LEMMA CapturedStepOf ==
  ASSUME NEW I, NEW p, NEW first \in Nat, NEW operations \in Seq(Changes),
         NEW J, J = Captured(I, first, operations),
         NEW x, NEW z, NEW w \in Seq(Entries), NEW more \in Seq(Entries),
         x.journal \in Seq(Entries), StepOf(x, z, w, more, I, p),
         operations # <<>> => Under(z.journal, first, p)
  PROVE  StepOf(x, z, w, more, J, p)
<1>1. ASSUME NEW i \in DOMAIN w, operations # <<>> PROVE w[i].op < first
  <2>1. PICK j \in Seq(Entries) : j = x.journal
    OBVIOUS
  <2>2. PICK u \in Seq(Entries) : u = j \o w
    BY EntriesConcat
  <2>3. PICK k \in DOMAIN u : u[k] = w[i]
    <3>1. Len(j) + i \in DOMAIN u /\ u[Len(j) + i] = w[i]
      BY <2>2
    <3>2. QED
      BY <3>1
  <2>4. PICK l \in Seq(Entries) : l = u \o more
    BY EntriesConcat
  <2>5. k \in DOMAIN l /\ l[k] = u[k]
    BY <2>4
  <2>6. l = z.journal
    BY <2>1, <2>2, <2>4 DEF StepOf
  <2>7. w[i].actor = p
    BY DEF StepOf
  <2>8. QED
    BY <1>1, <2>3, <2>5, <2>6, <2>7 DEF Under
<1>2. ASSUME NEW i \in DOMAIN w PROVE \A r : r.op = w[i].op => (r \in J <=> r \in I)
  <2>1. SUFFICES ASSUME NEW r, r.op = w[i].op PROVE r \in J <=> r \in I
    OBVIOUS
  <2>2. operations # <<>> => r.op < first
    BY <1>1, <2>1
  <2>3. QED
    BY <2>2, CapturedLeaves
<1>3. HeldAll(w, I) => HeldAll(w, J)
  BY <1>2 DEF HeldAll, Held
<1>4. Unheld(w, I) => Unheld(w, J)
  BY <1>2 DEF Unheld
<1>5. QED
  BY <1>3, <1>4 DEF StepOf

\* And all of a stack.
LEMMA CapturedRetrace ==
  ASSUME NEW I, NEW p, NEW first \in Nat, NEW operations \in Seq(Changes),
         NEW J, J = Captured(I, first, operations),
         NEW stack \in Seq(Checkpoints), NEW a, AllRetrace(stack, a, I, p),
         operations # <<>> => \A i \in DOMAIN stack : Under(After(stack, i, a).journal, first, p)
  PROVE  AllRetrace(stack, a, J, p)
<1>1. SUFFICES ASSUME NEW i \in DOMAIN stack PROVE Retraces(stack[i], After(stack, i, a), J, p)
  BY DEF AllRetrace
<1>2. PICK x : x = stack[i]
  OBVIOUS
<1>3. PICK z : z = After(stack, i, a)
  OBVIOUS
<1>4. x \in Checkpoints
  BY <1>2
<1>5. x.journal \in Seq(Entries)
  BY <1>4 DEF Checkpoints
<1>6. Retraces(x, z, I, p)
  BY <1>2, <1>3 DEF AllRetrace
<1>7. SUFFICES ASSUME Workbook(x.content) = Workbook(z.content)
               PROVE  \E w \in Seq(Entries), more \in Seq(Entries) : StepOf(x, z, w, more, J, p)
  BY <1>2, <1>3 DEF Retraces
<1>8. PICK w \in Seq(Entries), more \in Seq(Entries) : StepOf(x, z, w, more, I, p)
  BY <1>6, <1>7 DEF Retraces
<1>9. StepOf(x, z, w, more, J, p)
  BY <1>3, <1>5, <1>8, CapturedStepOf
<1>10. QED
  BY <1>9

\* Where no checkpoint of a pushed stack has such a number, nothing that its steps
\* led to has.
LEMMA PushedUnder ==
  ASSUME NEW p, NEW first, NEW stack \in Seq(Checkpoints), NEW a, NEW l \in Nat,
         NEW pushed, pushed = Append(ClosedStack(stack, l), CheckpointOf(a)),
         NoneFrom(first, pushed, p)
  PROVE  /\ Under(a.journal, first, p)
         /\ \A i \in DOMAIN stack : Under(After(stack, i, a).journal, first, p)
<1>1. PICK c \in Seq(Checkpoints) : c = ClosedStack(stack, l) /\ ClosedFrom(c, stack, l)
  BY ClosedStackProps DEF ClosedFrom
<1>2. PICK n \in Nat : n = Len(c) /\ n = Len(stack) /\ DOMAIN stack = 1..n /\ DOMAIN c = 1..n
  BY <1>1 DEF ClosedFrom
<1>3. PICK k : k = CheckpointOf(a) /\ k.journal = a.journal
  BY DEF CheckpointOf
<1>4. /\ DOMAIN pushed = 1..(n + 1) /\ pushed[n + 1] = k
      /\ \A i \in 1..n : pushed[i] = c[i]
  <2>1. pushed = Append(c, k)
    BY <1>1, <1>3
  <2>2. Len(pushed) = n + 1 /\ DOMAIN pushed = 1..(n + 1)
    BY <1>2, <2>1
  <2>3. pushed[n + 1] = k
    BY <1>2, <2>1
  <2>4. \A i \in 1..n : pushed[i] = c[i]
    BY <1>2, <2>1
  <2>5. QED
    BY <2>2, <2>3, <2>4
<1>5. \A i \in 1..(n + 1) : Under(pushed[i].journal, first, p)
  BY <1>4 DEF NoneFrom, Under
<1>6. Under(a.journal, first, p)
  <2>1. n + 1 \in 1..(n + 1)
    BY <1>2
  <2>2. QED
    BY <1>3, <1>4, <1>5, <2>1
<1>7. \A i \in 1..n : Under(stack[i].journal, first, p)
  <2>1. SUFFICES ASSUME NEW i \in 1..n PROVE Under(stack[i].journal, first, p)
    OBVIOUS
  <2>2. c[i].journal = stack[i].journal
    BY <1>1, <1>2, VersionFields DEF ClosedFrom
  <2>3. i \in 1..(n + 1) /\ pushed[i] = c[i]
    BY <1>2, <1>4
  <2>4. QED
    BY <1>5, <2>2, <2>3
<1>8. ASSUME NEW i \in DOMAIN stack PROVE Under(After(stack, i, a).journal, first, p)
  <2>1. CASE i = Len(stack)
    BY <1>6, <2>1 DEF After
  <2>2. CASE i # Len(stack)
    <3>1. i + 1 \in 1..n
      BY <1>2, <2>2
    <3>2. QED
      BY <1>7, <2>2, <3>1 DEF After
  <2>3. QED
    BY <2>1, <2>2
<1>9. QED
  BY <1>6, <1>8

\* Likewise of a popped stack, but for the step that is taken back.
LEMMA PoppedUnder ==
  ASSUME NEW p, NEW first, NEW stack \in Seq(Checkpoints), stack # <<>>, NEW a, NEW l \in Nat,
         NEW popped, popped = ClosedStack(Front(stack), l), NoneFrom(first, popped, p),
         Under(a.journal, first, p), Under(Last(stack).journal, first, p)
  PROVE  \A i \in DOMAIN stack : Under(After(stack, i, a).journal, first, p)
<1>1. PICK front \in Seq(Checkpoints) :
          /\ front = Front(stack) /\ Len(front) = Len(stack) - 1
          /\ \A i \in DOMAIN front : i \in DOMAIN stack /\ front[i] = stack[i]
  BY FrontAndLast
<1>2. Last(stack) = stack[Len(stack)] /\ Len(stack) \in DOMAIN stack
  BY FrontAndLast
<1>3. PICK n \in Nat : n = Len(front) /\ DOMAIN front = 1..n /\ Len(stack) = n + 1 /\ DOMAIN stack = 1..(n + 1)
  BY <1>1
<1>4. ClosedFrom(popped, front, l) /\ DOMAIN popped = 1..n
  <2>1. popped \in Seq(Checkpoints) /\ ClosedFrom(popped, front, l)
    BY <1>1, ClosedStackProps DEF ClosedFrom
  <2>2. QED
    BY <1>3, <2>1 DEF ClosedFrom
<1>5. ASSUME NEW i \in 1..(n + 1) PROVE Under(stack[i].journal, first, p)
  <2>1. CASE i = n + 1
    BY <1>2, <1>3, <2>1
  <2>2. CASE i # n + 1
    <3>1. i \in 1..n
      BY <2>2
    <3>2. popped[i].journal = front[i].journal
      BY <1>3, <1>4, <3>1, VersionFields DEF ClosedFrom
    <3>3. front[i] = stack[i]
      BY <1>1, <1>3, <3>1
    <3>4. QED
      BY <1>4, <3>1, <3>2, <3>3 DEF NoneFrom, Under
  <2>3. QED
    BY <2>1, <2>2
<1>6. ASSUME NEW i \in DOMAIN stack PROVE Under(After(stack, i, a).journal, first, p)
  <2>1. CASE i = Len(stack)
    BY <2>1 DEF After
  <2>2. CASE i # Len(stack)
    <3>1. i + 1 \in 1..(n + 1)
      BY <1>3, <2>2
    <3>2. QED
      BY <1>5, <2>2, <3>1 DEF After
  <2>3. QED
    BY <2>1, <2>2
<1>7. QED
  BY <1>6

\* The inverse, entry by entry.
LEMMA InvertedType ==
  ASSUME NEW w \in Seq(Entries)
  PROVE  /\ Inverted(w) \in Seq(Changes) /\ Len(Inverted(w)) = Len(w)
         /\ DOMAIN Inverted(w) = 1..Len(w)
         /\ \A i \in 1..Len(w) : /\ Len(w) - i + 1 \in 1..Len(w)
                                 /\ Inverted(w)[i].put = w[Len(w) - i + 1].cut
                                 /\ Inverted(w)[i].cut = w[Len(w) - i + 1].put
<1>1. PICK n \in Nat : n = Len(w) /\ DOMAIN w = 1..n
  OBVIOUS
<1>2. \A i \in 1..n : n - i + 1 \in 1..n
  BY <1>1
<1>3. \A i \in 1..n : w[i] \in Entries
  BY <1>1
<1>4. \A i \in 1..n : w[i].put \in Documents /\ w[i].cut \in Documents
  BY <1>3 DEF Entries
<1>5. Inverted(w) = [i \in 1..n |-> [put |-> w[n - i + 1].cut, cut |-> w[n - i + 1].put]]
  BY <1>1 DEF Inverted
<1>6. \A i \in 1..n : [put |-> w[n - i + 1].cut, cut |-> w[n - i + 1].put] \in Changes
  BY <1>2, <1>4 DEF Changes
<1>7. Inverted(w) \in [1..n -> Changes]
  BY <1>5, <1>6
<1>8. Inverted(w) \in Seq(Changes) /\ Len(Inverted(w)) = n
  BY <1>1, <1>7
<1>9. \A i \in 1..n : /\ Inverted(w)[i].put = w[n - i + 1].cut
                      /\ Inverted(w)[i].cut = w[n - i + 1].put
  BY <1>5
<1>10. QED
  BY <1>1, <1>2, <1>7, <1>8, <1>9

\* The envelopes of an undo do what the inverse does, and their inverse what the
\* step did.
LEMMA Reversal ==
  ASSUME NEW a \in Apps, NEW t \in Checkpoints, NEW w \in Seq(Entries), Window(a, t) = w,
         Reversible(a, t), DocsOnly(w), HeldAll(w, a.inverses),
         NEW new \in Seq(Entries), NEW kind,
         EnvelopesOf(new, kind, InverseOf(a, t))
  PROVE  /\ DocsOnly(new)
         /\ \A base : Replayed(base, new) = Replayed(base, Inverted(w))
         /\ \A base : Replayed(base, Inverted(new)) = Replayed(base, w)
<1>1. PICK n \in Nat : n = Len(w) /\ DOMAIN w = 1..n
  OBVIOUS
<1>2. Len(new) = n /\ DOMAIN new = 1..n
  BY <1>1, WindowProps DEF EnvelopesOf
<1>3. \A i \in 1..n : /\ n - i + 1 \in 1..n
                      /\ new[i].put = w[n - i + 1].cut /\ new[i].cut = w[n - i + 1].put
  <2>1. \A i \in 1..n : n - i + 1 \in 1..n
    BY <1>1
  <2>2. \A i \in 1..n : /\ InverseOf(a, t)[i].put = w[n - i + 1].cut
                        /\ InverseOf(a, t)[i].cut = w[n - i + 1].put
    <3>1. SUFFICES ASSUME NEW i \in 1..n
                   PROVE  /\ InverseOf(a, t)[i].put = w[n - i + 1].cut
                          /\ InverseOf(a, t)[i].cut = w[n - i + 1].put
      OBVIOUS
    <3>2. PICK k \in 1..n : k = n - i + 1
      BY <2>1
    <3>3. PICK r \in InversesOf(a, w[k].op) :
              InverseOf(a, t)[i].put = r.put /\ InverseOf(a, t)[i].cut = r.cut
      BY <1>1, <3>2, WindowProps
    <3>4. r \in a.inverses /\ r.op = w[k].op
      BY <3>3 DEF InversesOf
    <3>5. r.put = w[k].cut /\ r.cut = w[k].put
      BY <1>1, <3>4 DEF HeldAll, Held
    <3>6. QED
      BY <3>2, <3>3, <3>5
  <2>3. \A i \in 1..n : /\ new[i].put = InverseOf(a, t)[i].put
                        /\ new[i].cut = InverseOf(a, t)[i].cut
    BY <1>2 DEF EnvelopesOf
  <2>4. QED
    BY <2>1, <2>2, <2>3
<1>4. DocsOnly(new)
  BY <1>1, <1>2, <1>3 DEF DocsOnly, Touches
<1>5. ASSUME NEW base PROVE Replayed(base, new) = Replayed(base, Inverted(w))
  <2>1. PICK inv \in Seq(Changes) : inv = Inverted(w)
    BY InvertedType
  <2>2. Len(inv) = n /\ \A i \in 1..n : inv[i].put = w[n - i + 1].cut /\ inv[i].cut = w[n - i + 1].put
    BY <1>1, <2>1, InvertedType
  <2>3. \A i \in DOMAIN new : new[i].put = inv[i].put /\ new[i].cut = inv[i].cut
    BY <1>2, <1>3, <2>2
  <2>4. QED
    BY <1>2, <2>1, <2>2, <2>3, ReplayedSame
<1>6. ASSUME NEW base PROVE Replayed(base, Inverted(new)) = Replayed(base, w)
  <2>1. PICK inv \in Seq(Changes) : inv = Inverted(new)
    BY InvertedType
  <2>2. Len(inv) = n /\ \A i \in 1..n : inv[i].put = new[n - i + 1].cut /\ inv[i].cut = new[n - i + 1].put
    BY <1>2, <2>1, InvertedType
  <2>3. \A i \in 1..n : inv[i].put = w[i].put /\ inv[i].cut = w[i].cut
    <3>1. SUFFICES ASSUME NEW i \in 1..n PROVE inv[i].put = w[i].put /\ inv[i].cut = w[i].cut
      OBVIOUS
    <3>5. n - i + 1 \in 1..n /\ n - (n - i + 1) + 1 = i
      OBVIOUS
    <3>2. PICK k \in 1..n : k = n - i + 1 /\ n - k + 1 = i
      BY <3>5
    <3>3. new[k].cut = w[i].put /\ new[k].put = w[i].cut
      BY <1>3, <3>2
    <3>4. QED
      BY <2>2, <3>2, <3>3
  <2>4. \A i \in DOMAIN inv : inv[i].put = w[i].put /\ inv[i].cut = w[i].cut
    BY <2>2, <2>3
  <2>5. QED
    BY <1>1, <2>1, <2>2, <2>4, ReplayedSame
<1>7. QED
  BY <1>4, <1>5, <1>6

\* A checkpoint has the version of its session, and is open.
LEMMA CheckpointVersion ==
  ASSUME NEW a
  PROVE  Version(CheckpointOf(a)) = Version(a) /\ CheckpointOf(a).end = None
BY DEF Version, CheckpointOf

\* The extension of a version, of a longer one.
LEMMA StepOfLonger ==
  ASSUME NEW I, NEW p, NEW x, NEW z, NEW u, NEW w \in Seq(Entries), NEW more \in Seq(Entries),
         NEW ext \in Seq(Entries), x.journal \in Seq(Entries), x.end # None,
         StepOf(x, z, w, more, I, p), u.content = z.content, u.journal = z.journal \o ext
  PROVE  StepOf(x, u, w, more \o ext, I, p)
<1>1. PICK j \in Seq(Entries) : j = x.journal \o w
  BY EntriesConcat
<1>2. z.journal = j \o more /\ u.journal = (j \o more) \o ext
  BY <1>1 DEF StepOf
<1>3. (j \o more) \o ext = j \o (more \o ext)
  BY ConcatAssociative
<1>4. u.journal = (x.journal \o w) \o (more \o ext)
  BY <1>1, <1>2, <1>3
<1>5. QED
  BY <1>4 DEF StepOf

\* A closed step can be retraced from further on, at the same document.
LEMMA RetracesLonger ==
  ASSUME NEW I, NEW p, NEW x, NEW z, NEW u, x.journal \in Seq(Entries), x.end # None, Retraces(x, z, I, p),
         NEW ext \in Seq(Entries), u.content = z.content, u.journal = z.journal \o ext
  PROVE  Retraces(x, u, I, p)
<1>1. SUFFICES ASSUME Workbook(x.content) = Workbook(u.content)
               PROVE  \E w \in Seq(Entries), more \in Seq(Entries) : StepOf(x, u, w, more, I, p)
  BY DEF Retraces
<1>2. PICK w \in Seq(Entries), more \in Seq(Entries) : StepOf(x, z, w, more, I, p)
  BY <1>1 DEF Retraces
<1>3. StepOf(x, u, w, more \o ext, I, p)
  BY <1>2, StepOfLonger
<1>4. more \o ext \in Seq(Entries)
  BY EntriesConcat
<1>5. QED
  BY <1>3, <1>4

\* Closing the open step of a stack, at the end of the journal it leads to.
LEMMA ClosedRetraces ==
  ASSUME NEW I, NEW p, NEW stack \in Seq(Checkpoints), NEW a \in Apps,
         AllRetrace(stack, a, I, p), ClosedBelow(stack),
         NEW c, ClosedFrom(c, stack, Len(a.journal))
  PROVE  AllRetrace(c, a, I, p) /\ \A i \in DOMAIN c : c[i].end # None
<1>1. /\ c \in Seq(Checkpoints) /\ Len(c) = Len(stack) /\ DOMAIN c = DOMAIN stack
      /\ DOMAIN stack = 1..Len(stack) /\ Len(stack) \in Nat
  BY DEF ClosedFrom
<1>2. Len(a.journal) \in Nat /\ a.journal \in Seq(Entries)
  <2>1. a.journal \in Seq(Entries)
    BY DEF Apps
  <2>2. QED
    BY <2>1
<1>3. ASSUME NEW i \in DOMAIN c PROVE c[i].end # None
  <2>1. /\ i \in DOMAIN stack
        /\ c[i].end = IF i = Len(stack) /\ stack[i].end = None THEN Len(a.journal) ELSE stack[i].end
    BY <1>1, <1>3 DEF ClosedFrom
  <2>2. None \notin Nat
    BY LocalSessionAssumption
  <2>3. QED
    BY <1>2, <2>1, <2>2 DEF ClosedBelow
<1>4. ASSUME NEW i \in DOMAIN c PROVE Retraces(c[i], After(c, i, a), I, p)
  <2>1. /\ i \in DOMAIN stack /\ Version(c[i]) = Version(stack[i])
        /\ c[i].end = IF i = Len(stack) /\ stack[i].end = None THEN Len(a.journal) ELSE stack[i].end
    BY <1>1, <1>4 DEF ClosedFrom
  <2>2. Retraces(stack[i], After(stack, i, a), I, p)
    BY <2>1 DEF AllRetrace
  <2>3. CASE i # Len(stack)
    <3>1. i + 1 \in DOMAIN stack
      BY <1>1, <2>1, <2>3
    <3>2. Version(c[i + 1]) = Version(stack[i + 1])
      BY <3>1 DEF ClosedFrom
    <3>3. After(c, i, a) = c[i + 1] /\ After(stack, i, a) = stack[i + 1]
      BY <1>1, <2>3 DEF After
    <3>4. c[i].end = stack[i].end
      BY <2>1, <2>3
    <3>5. QED
      BY <2>1, <2>2, <3>2, <3>3, <3>4, RetracesSame
  <2>4. CASE i = Len(stack) /\ stack[i].end # None
    <3>1. After(c, i, a) = a /\ After(stack, i, a) = a /\ c[i].end = stack[i].end
      BY <1>1, <2>1, <2>4 DEF After
    <3>2. QED
      BY <2>1, <2>2, <3>1, RetracesSame
  <2>5. CASE i = Len(stack) /\ stack[i].end = None
    <3>1. After(c, i, a) = a /\ After(stack, i, a) = a /\ c[i].end = Len(a.journal)
      BY <1>1, <2>1, <2>5 DEF After
    <3>2. /\ c[i].journal = stack[i].journal /\ c[i].content = stack[i].content
          /\ stack[i].journal \in Seq(Entries)
      <4>1. stack[i] \in Checkpoints
        BY <2>1
      <4>2. stack[i].journal \in Seq(Entries)
        BY <4>1 DEF Checkpoints
      <4>3. QED
        BY <2>1, <4>2, VersionFields
    <3>3. SUFFICES ASSUME Workbook(c[i].content) = Workbook(a.content)
                   PROVE  \E w \in Seq(Entries), more \in Seq(Entries) : StepOf(c[i], a, w, more, I, p)
      BY <3>1 DEF Retraces
    <3>4. PICK w \in Seq(Entries), more \in Seq(Entries) : StepOf(stack[i], a, w, more, I, p)
      BY <2>2, <3>1, <3>2, <3>3 DEF Retraces
    <3>5. more = <<>> /\ a.journal = (stack[i].journal \o w) \o more
      BY <2>5, <3>4 DEF StepOf
    <3>6. PICK j \in Seq(Entries) : j = stack[i].journal
      BY <3>2
    <3>7. PICK u \in Seq(Entries) : u = j \o w
      BY <3>6, EntriesConcat
    <3>8. a.journal = u
      <4>1. u \o <<>> = u
        BY <3>7
      <4>2. QED
        BY <3>5, <3>6, <3>7, <4>1
    <3>9. Len(a.journal) = Len(j) + Len(w)
      BY <3>7, <3>8
    <3>10. c[i].end = Len(c[i].journal) + Len(w)
      BY <3>1, <3>2, <3>6, <3>9
    <3>11. c[i].end # None
      BY <1>3, <1>4
    <3>12. StepOf(c[i], a, w, more, I, p)
      BY <3>2, <3>4, <3>10, <3>11 DEF StepOf
    <3>13. QED
      BY <3>12
  <2>6. QED
    BY <2>3, <2>4, <2>5
<1>5. QED
  BY <1>3, <1>4 DEF AllRetrace

\* A step begins: a checkpoint is pushed.
LEMMA PushRetraces ==
  ASSUME NEW I, NEW p, NEW stack \in Seq(Checkpoints), NEW a \in Apps,
         AllRetrace(stack, a, I, p), ClosedBelow(stack),
         NEW m, Retraces(CheckpointOf(a), m, I, p),
         NEW pushed, pushed = Append(ClosedStack(stack, Len(a.journal)), CheckpointOf(a))
  PROVE  AllRetrace(pushed, m, I, p)
<1>1. Len(a.journal) \in Nat
  <2>1. a.journal \in Seq(Entries)
    BY DEF Apps
  <2>2. QED
    BY <2>1
<1>2. PICK c \in Seq(Checkpoints) : c = ClosedStack(stack, Len(a.journal))
  BY <1>1, ClosedStackProps DEF ClosedFrom
<1>3. ClosedFrom(c, stack, Len(a.journal))
  BY <1>1, <1>2, ClosedStackProps
<1>4. AllRetrace(c, a, I, p)
  BY <1>3, ClosedRetraces
<1>5. PICK k : k = CheckpointOf(a) /\ Version(k) = Version(a) /\ Retraces(k, m, I, p)
  BY CheckpointVersion
<1>6. PICK n \in Nat : n = Len(c) /\ DOMAIN c = 1..n
  OBVIOUS
<1>7. /\ Len(pushed) = n + 1 /\ DOMAIN pushed = 1..(n + 1) /\ pushed[n + 1] = k
      /\ \A i \in 1..n : pushed[i] = c[i]
  BY <1>2, <1>5, <1>6
<1>8. ASSUME NEW i \in 1..(n + 1) PROVE Retraces(pushed[i], After(pushed, i, m), I, p)
  <2>1. CASE i = n + 1
    BY <1>5, <1>7, <2>1 DEF After
  <2>2. CASE i = n
    <3>1. i \in DOMAIN c /\ i # n + 1
      BY <1>6, <2>2, <1>8
    <3>2. After(pushed, i, m) = k /\ pushed[i] = c[i] /\ After(c, i, a) = a
      BY <1>6, <1>7, <2>2, <3>1 DEF After
    <3>3. Retraces(c[i], a, I, p)
      BY <1>4, <3>1, <3>2 DEF AllRetrace
    <3>4. QED
      BY <1>5, <3>2, <3>3, RetracesSame
  <2>3. CASE i # n /\ i # n + 1
    <3>1. i \in DOMAIN c /\ i + 1 \in 1..n
      BY <1>6, <2>3
    <3>2. After(pushed, i, m) = c[i + 1] /\ pushed[i] = c[i] /\ After(c, i, a) = c[i + 1]
      BY <1>6, <1>7, <2>3, <3>1 DEF After
    <3>3. QED
      BY <1>4, <3>1, <3>2 DEF AllRetrace
  <2>4. QED
    BY <2>1, <2>2, <2>3
<1>9. QED
  BY <1>7, <1>8 DEF AllRetrace

\* Pushing closes what it covers.
LEMMA PushClosedBelow ==
  ASSUME NEW stack \in Seq(Checkpoints), NEW l \in Nat, ClosedBelow(stack),
         NEW k, NEW pushed, pushed = Append(ClosedStack(stack, l), k)
  PROVE  ClosedBelow(pushed)
<1>1. PICK c \in Seq(Checkpoints) : c = ClosedStack(stack, l) /\ ClosedFrom(c, stack, l)
  BY ClosedStackProps DEF ClosedFrom
<1>2. PICK n \in Nat : n = Len(c) /\ DOMAIN c = 1..n /\ n = Len(stack) /\ DOMAIN stack = 1..n
  BY <1>1 DEF ClosedFrom
<1>3. /\ Len(pushed) = n + 1 /\ DOMAIN pushed = 1..(n + 1)
      /\ \A i \in 1..n : pushed[i] = c[i]
  BY <1>1, <1>2
<1>4. ASSUME NEW i \in 1..(n + 1), i # n + 1 PROVE pushed[i].end # None
  <2>1. i \in 1..n
    BY <1>4
  <2>2. c[i].end = IF i = Len(stack) /\ stack[i].end = None THEN l ELSE stack[i].end
    BY <1>1, <1>2, <2>1 DEF ClosedFrom
  <2>3. None \notin Nat
    BY LocalSessionAssumption
  <2>4. QED
    BY <1>2, <1>3, <2>1, <2>2, <2>3 DEF ClosedBelow
<1>5. QED
  BY <1>3, <1>4 DEF ClosedBelow

\* A step is taken back: its checkpoint is popped, and the session is at the
\* content before it.
LEMMA PopRetraces ==
  ASSUME NEW I, NEW p, NEW stack \in Seq(Checkpoints), stack # <<>>, NEW a,
         AllRetrace(stack, a, I, p), ClosedBelow(stack),
         NEW t, t = Last(stack), NEW m, m.content = t.content,
         NEW ext \in Seq(Entries), m.journal = t.journal \o ext,
         NEW l \in Nat, NEW popped, popped = ClosedStack(Front(stack), l)
  PROVE  AllRetrace(popped, m, I, p)
<1>1. PICK front \in Seq(Checkpoints) :
          /\ front = Front(stack) /\ Len(front) = Len(stack) - 1
          /\ \A i \in DOMAIN front : i \in DOMAIN stack /\ front[i] = stack[i]
  BY ONLY stack \in Seq(Checkpoints), stack # <<>>, FrontAndLast
<1>2. t = stack[Len(stack)] /\ Len(stack) \in DOMAIN stack
  BY FrontAndLast
<1>3. PICK n \in Nat : n = Len(front) /\ DOMAIN front = 1..n /\ Len(stack) = n + 1
  BY <1>1
<1>4. popped \in Seq(Checkpoints) /\ ClosedFrom(popped, front, l)
  BY <1>1, ClosedStackProps DEF ClosedFrom
<1>5. Len(popped) = n /\ DOMAIN popped = 1..n
  BY <1>3, <1>4 DEF ClosedFrom
<1>6. \A i \in 1..n : i \in DOMAIN stack /\ i # Len(stack) /\ front[i] = stack[i] /\ stack[i].end # None
  BY <1>1, <1>3 DEF ClosedBelow
<1>7. \A i \in 1..n : Version(popped[i]) = Version(stack[i]) /\ popped[i].end = stack[i].end
  BY <1>3, <1>4, <1>6 DEF ClosedFrom
<1>8. ASSUME NEW i \in 1..n PROVE Retraces(popped[i], After(popped, i, m), I, p)
  <2>1. Retraces(stack[i], stack[i + 1], I, p)
    BY <1>6 DEF AllRetrace, After
  <2>2. CASE i = n
    <3>1. Retraces(stack[i], t, I, p)
      BY <1>2, <1>3, <2>1, <2>2
    <3>2. stack[i].journal \in Seq(Entries) /\ stack[i].end # None
      <4>1. stack[i] \in Checkpoints
        BY <1>6
      <4>2. QED
        BY <1>6, <4>1 DEF Checkpoints
    <3>3. Retraces(stack[i], m, I, p)
      BY <3>1, <3>2, RetracesLonger
    <3>4. After(popped, i, m) = m
      BY <1>5, <2>2 DEF After
    <3>5. QED
      BY <1>7, <3>3, <3>4, RetracesSame
  <2>3. CASE i # n
    <3>1. i + 1 \in 1..n
      BY <2>3
    <3>2. After(popped, i, m) = popped[i + 1] /\ Version(popped[i + 1]) = Version(stack[i + 1])
      BY <1>5, <1>7, <2>3, <3>1 DEF After
    <3>3. QED
      BY <1>7, <2>1, <3>2, RetracesSame
  <2>4. QED
    BY <2>2, <2>3
<1>9. QED
  BY <1>5, <1>8 DEF AllRetrace

\* Popping uncovers a closed step.
LEMMA PopClosedBelow ==
  ASSUME NEW stack \in Seq(Checkpoints), stack # <<>>, ClosedBelow(stack),
         NEW l \in Nat, NEW popped, popped = ClosedStack(Front(stack), l)
  PROVE  ClosedBelow(popped)
<1>1. PICK front \in Seq(Checkpoints) :
          /\ front = Front(stack) /\ Len(front) = Len(stack) - 1
          /\ \A i \in DOMAIN front : i \in DOMAIN stack /\ front[i] = stack[i]
  BY FrontAndLast
<1>2. PICK n \in Nat : n = Len(front) /\ DOMAIN front = 1..n /\ Len(stack) = n + 1
  BY <1>1
<1>3. popped \in Seq(Checkpoints) /\ ClosedFrom(popped, front, l)
  BY <1>1, ClosedStackProps DEF ClosedFrom
<1>4. Len(popped) = n /\ DOMAIN popped = 1..n
  BY <1>2, <1>3 DEF ClosedFrom
<1>5. \A i \in 1..n : i # Len(stack) /\ i \in DOMAIN stack
  BY <1>1, <1>2
<1>6. \A i \in 1..n : front[i].end # None
  BY <1>1, <1>2, <1>5 DEF ClosedBelow
<1>7. \A i \in 1..n : popped[i].end # None
  BY <1>2, <1>3, <1>6 DEF ClosedFrom
<1>8. QED
  BY <1>4, <1>7 DEF ClosedBelow

\* One entry: what it cuts goes, and what it puts comes.
LEMMA ReplayedOnce ==
  ASSUME NEW base, NEW S, NEW s \in Seq(S), Len(s) = 1
  PROVE  Replayed(base, s) = (base \cup s[1].put) \ s[1].cut
<1>1. DOMAIN s = {1}
  OBVIOUS
<1>2. \A e : e \in Replayed(base, s) <=> InEffect(e, base, s)
  BY ReplayedHolds
<1>3. ASSUME NEW e PROVE InEffect(e, base, s) <=> e \in (base \cup s[1].put) \ s[1].cut
  <2>1. InEffect(e, base, s) <=> \/ e \in base /\ e \notin s[1].cut
                                 \/ e \in s[1].put /\ e \notin s[1].cut
    BY <1>1 DEF InEffect
  <2>2. QED
    BY <2>1
<1>4. QED
  BY <1>2, <1>3

\* A new edit can be retraced: it is of the workbook, or it has an inverse, or it
\* has none and is lost on the way back.
LEMMA EditRetraces ==
  ASSUME NEW m, NEW a \in Apps, NEW type \in {"doc", "fixed", "sheet"}, NEW n,
         NEW e, e = <<type, n>>, e \notin a.content,
         NEW new \in Seq(Entries), EditFrom(m, a, e, new)
  PROVE  Retraces(CheckpointOf(a), m, m.inverses, process)
<1>1. PICK k : k = CheckpointOf(a)
  OBVIOUS
<1>2. /\ k.journal = a.journal /\ k.content = a.content /\ k.end = None
      /\ a.journal \in Seq(Entries)
  BY <1>1 DEF CheckpointOf, Apps
<1>3. e[1] = type
  OBVIOUS
<1>4. Len(new) = 1 /\ DOMAIN new = {1} /\ new[1].put = {e} /\ new[1].cut = {}
  <2>1. PICK c : c = <<[put |-> {e}, cut |-> {}]>> /\ Len(c) = 1 /\ c[1] = [put |-> {e}, cut |-> {}]
    <3>1. PICK r : r = [put |-> {e}, cut |-> {}]
      OBVIOUS
    <3>2. Len(<<r>>) = 1 /\ <<r>>[1] = r
      OBVIOUS
    <3>3. QED
      BY <3>1, <3>2
  <2>2. Len(new) = Len(c) /\ \A i \in DOMAIN new : new[i].put = c[i].put /\ new[i].cut = c[i].cut
    <3>1. EnvelopesOf(new, KindOf(e), <<[put |-> {e}, cut |-> {}]>>)
      BY Zenon DEF EditFrom
    <3>2. EnvelopesOf(new, KindOf(e), c)
      BY <2>1, <3>1
    <3>3. QED
      BY <3>2 DEF EnvelopesOf
  <2>3. Len(new) = 1 /\ DOMAIN new = {1}
    BY <2>1, <2>2
  <2>4. QED
    BY <2>1, <2>2, <2>3
<1>5. m.journal = a.journal \o new /\ m.content = Replayed(a.content, new)
  BY VersionFields DEF EditFrom, GrownBy
<1>6. m.content = a.content \cup {e}
  BY <1>4, <1>5, ReplayedOnce
<1>7. PICK inv \in Seq(Changes) : /\ inv = Inverted(new) /\ Len(inv) = 1
                                  /\ inv[1].put = {} /\ inv[1].cut = {e}
  <2>1. /\ Inverted(new) \in Seq(Changes) /\ Len(Inverted(new)) = Len(new)
        /\ \A i \in 1..Len(new) : /\ Inverted(new)[i].put = new[Len(new) - i + 1].cut
                                  /\ Inverted(new)[i].cut = new[Len(new) - i + 1].put
    BY InvertedType
  <2>2. Inverted(new)[1].put = new[1].cut /\ Inverted(new)[1].cut = new[1].put
    BY <1>4, <2>1
  <2>3. QED
    BY <1>4, <2>1, <2>2
<1>8. Replayed(m.content, inv) = a.content
  <2>1. Replayed(m.content, inv) = (m.content \cup {}) \ {e}
    BY <1>7, ReplayedOnce
  <2>2. QED
    BY <1>6, <2>1
<1>9. SUFFICES ASSUME Workbook(a.content) = Workbook(m.content)
               PROVE  \E w \in Seq(Entries), more \in Seq(Entries) : StepOf(k, m, w, more, m.inverses, process)
  BY <1>1, <1>2 DEF Retraces
<1>10. type # "sheet"
  <2>1. SUFFICES ASSUME type = "sheet" PROVE FALSE
    OBVIOUS
  <2>2. e \in Workbook(m.content)
    BY <1>3, <1>6, <2>1 DEF Workbook
  <2>3. e \notin Workbook(a.content)
    BY DEF Workbook
  <2>4. QED
    BY <1>9, <2>2, <2>3
<1>11. Touches(new[1]) = {e}
  BY <1>4 DEF Touches
<1>12. m.journal = (k.journal \o new) \o <<>>
  <2>1. PICK u \in Seq(Entries) : u = k.journal \o new
    BY <1>2, EntriesConcat
  <2>2. u \o <<>> = u
    OBVIOUS
  <2>3. QED
    BY <1>2, <1>5, <2>1, <2>2
<1>17. PICK operations \in Seq(Changes) :
           /\ operations = <<[put |-> {e}, cut |-> {}]>>
           /\ DOMAIN operations = {1} /\ operations[1].put = {e} /\ operations[1].cut = {}
  <2>1. new[1] \in Entries
    BY <1>4
  <2>2. {e} \in Documents /\ {} \in Documents
    BY <1>4, <2>1 DEF Entries
  <2>3. PICK r \in Changes : r = [put |-> {e}, cut |-> {}]
    BY <2>2 DEF Changes
  <2>7. <<r>> \in Seq(Changes)
    OBVIOUS
  <2>4. PICK o \in Seq(Changes) : o = <<r>>
    BY <2>7
  <2>5. DOMAIN o = {1} /\ o[1] = r
    BY <2>4
  <2>6. QED
    BY <2>3, <2>4, <2>5
<1>18. KindOf(e) = "document"
  BY <1>3, <1>10 DEF KindOf
<1>19. /\ EnvelopesOf(new, "document", operations) /\ NumberedFrom(new, "document", a.nextOp)
       /\ m.inverses = Captured(a.inverses, a.nextOp, operations)
  <2>1. /\ EnvelopesOf(new, KindOf(e), operations) /\ NumberedFrom(new, KindOf(e), a.nextOp)
        /\ Registered(m, a, a.nextOp, Operations(KindOf(e), operations), process)
    BY <1>17, Zenon DEF EditFrom
  <2>2. Operations("document", operations) = operations
    BY DEF Operations
  <2>3. QED
    BY <1>18, <2>1, <2>2 DEF Registered
<1>20. a.nextOp \in Nat
  BY DEF Apps
<1>13. \/ DocsOnly(new) /\ HeldAll(new, m.inverses)
       \/ Unheld(new, m.inverses) /\ FixedLost(m.content, a.content)
  <2>1. CASE type = "doc"
    <3>1. DocsOnly(new)
      BY <1>3, <1>4, <1>11, <2>1 DEF DocsOnly
    <3>2. DOMAIN operations = DOMAIN new
      BY <1>4, <1>17
    <3>3. HeldAll(new, m.inverses)
      BY <1>19, <1>20, <3>1, <3>2, CapturedHeld
    <3>4. QED
      BY <3>1, <3>3
  <2>2. CASE type = "fixed"
    <3>1. Unheld(new, m.inverses)
      <4>1. new[1].op = a.nextOp
        <5>1. new[1].op = a.nextOp + 1 - 1
          BY <1>4, <1>19 DEF NumberedFrom
        <5>2. QED
          BY <1>20, <5>1
      <4>2. ASSUME NEW r \in m.inverses, r.op = a.nextOp PROVE FALSE
        <5>1. operations # <<>> /\ ~(r.op < a.nextOp)
          BY <1>17, <1>20, <4>2
        <5>2. \E k2 \in DOMAIN operations :
                  \A d \in operations[k2].put \cup operations[k2].cut : d[1] = "doc"
          BY <1>19, <4>2, <5>1 DEF Captured
        <5>3. e[1] = "doc"
          BY <1>17, <5>2
        <5>4. QED
          BY <1>3, <2>2, <5>3
      <4>3. QED
        BY <1>4, <4>1, <4>2 DEF Unheld
    <3>2. FixedLost(m.content, a.content)
      BY <1>3, <1>6, <2>2 DEF FixedLost
    <3>3. QED
      BY <3>1, <3>2
  <2>3. QED
    BY <1>10, <2>1, <2>2
<1>21. \A i \in DOMAIN new : new[i].actor = process
  BY DEF EditFrom, GrownBy
<1>14. StepOf(k, m, new, <<>>, m.inverses, process)
  BY <1>2, <1>5, <1>7, <1>8, <1>12, <1>13, <1>21 DEF StepOf
<1>15. <<>> \in Seq(Entries)
  OBVIOUS
<1>16. QED
  BY <1>14, <1>15

\* A step of the edit history comes back to the checkpoint, and can be retraced.
StepsBack(m, a, t, I, p) ==
    /\ m.content = t.content
    /\ \E ext \in Seq(Entries) : m.journal = t.journal \o ext
    /\ Retraces(CheckpointOf(a), m, I, p)

\* By inverse.
LEMMA StepRetraces ==
  ASSUME NEW m, NEW a \in Apps, NEW verb, NEW t \in Checkpoints, NEW new \in Seq(Entries),
         SteppedFrom(m, a, verb, t, new), Retraces(t, a, a.inverses, process),
         Reversible(a, t)
  PROVE  StepsBack(m, a, t, m.inverses, process)
<1>1. PICK k : k = CheckpointOf(a)
  OBVIOUS
<1>2. /\ k.journal = a.journal /\ k.content = a.content /\ k.end = None
      /\ a.journal \in Seq(Entries) /\ t.journal \in Seq(Entries)
  BY <1>1 DEF CheckpointOf, Apps, Checkpoints
<1>3. Workbook(t.content) = Workbook(a.content)
  BY DEF Reversible
<1>4. PICK w \in Seq(Entries), more \in Seq(Entries) : StepOf(t, a, w, more, a.inverses, process)
  BY <1>3 DEF Retraces
<1>5. Window(a, t) = w /\ DocsOnly(w) /\ HeldAll(w, a.inverses)
  <2>1. Window(a, t) = w /\ ~Unheld(w, a.inverses)
    BY <1>3, <1>4, ReversibleIs
  <2>2. QED
    BY <1>4, <2>1 DEF StepOf
<1>6. /\ Replayed(t.content, w) = a.content
      /\ Replayed(a.content, Inverted(w)) = t.content
      /\ a.journal = (t.journal \o w) \o more
  <2>1. ~Unheld(w, a.inverses)
    BY <1>3, <1>4, ReversibleIs
  <2>2. QED
    BY <1>4, <2>1 DEF StepOf
<1>7. EnvelopesOf(new, "document", InverseOf(a, t))
  BY DEF SteppedFrom
<1>8. m.journal = a.journal \o new /\ m.content = Replayed(a.content, new)
  BY VersionFields DEF SteppedFrom, GrownBy
<1>9. /\ DocsOnly(new)
      /\ \A base : Replayed(base, new) = Replayed(base, Inverted(w))
      /\ \A base : Replayed(base, Inverted(new)) = Replayed(base, w)
  BY <1>5, <1>7, Reversal
<1>10. m.content = t.content
  BY <1>6, <1>8, <1>9
<1>11. Replayed(m.content, Inverted(new)) = a.content
  BY <1>6, <1>9, <1>10
<1>12. m.journal = (k.journal \o new) \o <<>>
  <2>1. PICK u \in Seq(Entries) : u = k.journal \o new
    BY <1>2, EntriesConcat
  <2>2. u \o <<>> = u
    OBVIOUS
  <2>3. QED
    BY <1>2, <1>8, <2>1, <2>2
<1>20. HeldAll(new, m.inverses)
  <2>1. PICK inv : inv = InverseOf(a, t)
    OBVIOUS
  <2>2. inv \in Seq(Changes) /\ Len(new) = Len(inv)
    BY <1>7, <2>1, InverseType DEF EnvelopesOf
  <2>3. DOMAIN inv = DOMAIN new
    BY <2>2
  <2>4. EnvelopesOf(new, "document", inv) /\ NumberedFrom(new, "document", a.nextOp)
        /\ m.inverses = Captured(a.inverses, a.nextOp, inv)
    BY <2>1 DEF SteppedFrom, Registered
  <2>5. a.nextOp \in Nat
    BY DEF Apps
  <2>6. QED
    BY <1>9, <2>3, <2>4, <2>5, CapturedHeld
<1>21. \A i \in DOMAIN new : new[i].actor = process
  BY DEF SteppedFrom, GrownBy
<1>13. StepOf(k, m, new, <<>>, m.inverses, process)
  BY <1>2, <1>8, <1>9, <1>11, <1>12, <1>20, <1>21 DEF StepOf
<1>14. <<>> \in Seq(Entries)
  OBVIOUS
<1>15. Retraces(k, m, m.inverses, process)
  BY <1>13, <1>14 DEF Retraces
<1>16. PICK v \in Seq(Entries) : v = w \o more
  BY EntriesConcat
<1>17. PICK ext \in Seq(Entries) : ext = v \o new
  BY EntriesConcat
<1>18. m.journal = t.journal \o ext
  <2>1. PICK j \in Seq(Entries) : j = t.journal
    BY <1>2
  <2>2. (j \o w) \o more = j \o v
    BY <1>16, ConcatAssociative
  <2>3. (j \o v) \o new = j \o ext
    BY <1>17, ConcatAssociative
  <2>4. QED
    BY <1>6, <1>8, <2>1, <2>2, <2>3
<1>19. QED
  BY <1>1, <1>10, <1>15, <1>18 DEF StepsBack

\* By snapshot, with a marker.
LEMMA SnapshotContent ==
  ASSUME NEW m, NEW a, NEW verb, NEW t, NEW new \in Seq(Entries),
         SteppedFrom(m, a, verb, t, new), ~Reversible(a, t)
  PROVE  m.content = t.content /\ m.journal = t.journal \o new
<1>1. m.journal = t.journal \o new /\ m.content = Replayed(t.content, new)
  BY VersionFields DEF SteppedFrom, GrownBy
<1>2. EnvelopesOf(new, verb, <<Marker>>)
  BY DEF SteppedFrom
<1>3. PICK c : c = <<Marker>> /\ Len(c) = 1 /\ c[1] = Marker
  <2>1. PICK r : r = Marker
    OBVIOUS
  <2>2. Len(<<r>>) = 1 /\ <<r>>[1] = r
    OBVIOUS
  <2>3. QED
    BY <2>1, <2>2
<1>4. Len(new) = Len(c) /\ \A i \in DOMAIN new : new[i].put = c[i].put /\ new[i].cut = c[i].cut
  BY <1>2, <1>3 DEF EnvelopesOf
<1>5. \A i \in DOMAIN new : i = 1
  BY <1>3, <1>4
<1>6. \A i \in DOMAIN new : new[i].put = {} /\ new[i].cut = {}
  BY <1>3, <1>4, <1>5 DEF Marker
<1>7. Replayed(t.content, new) = t.content
  BY <1>6, ReplayedMarkers
<1>8. QED
  BY <1>1, <1>7

\* By snapshot, if no edit without an inverse is lost by it.
LEMMA SnapshotRetraces ==
  ASSUME NEW m, NEW a \in Apps, NEW verb, NEW t \in Checkpoints, NEW new \in Seq(Entries),
         SteppedFrom(m, a, verb, t, new), Retraces(t, a, a.inverses, process),
         ~Reversible(a, t), ~FixedLost(a.content, m.content)
  PROVE  StepsBack(m, a, t, m.inverses, process)
<1>1. m.content = t.content /\ m.journal = t.journal \o new
  BY SnapshotContent
<1>2. PICK k : k = CheckpointOf(a)
  OBVIOUS
<1>3. k.content = a.content
  BY <1>2 DEF CheckpointOf
<1>4. Workbook(t.content) # Workbook(a.content)
  <2>1. SUFFICES ASSUME Workbook(t.content) = Workbook(a.content) PROVE FALSE
    OBVIOUS
  <2>2. PICK w \in Seq(Entries), more \in Seq(Entries) : StepOf(t, a, w, more, a.inverses, process)
    BY <2>1 DEF Retraces
  <2>3. ~HeldAll(w, a.inverses)
    BY <2>1, <2>2, ReversibleIs
  <2>4. FixedLost(a.content, t.content)
    BY <2>2, <2>3 DEF StepOf
  <2>5. QED
    BY <1>1, <2>4
<1>5. Retraces(k, m, m.inverses, process)
  BY <1>1, <1>3, <1>4 DEF Retraces
<1>6. QED
  BY <1>1, <1>2, <1>5 DEF StepsBack

\* The last step leads to the session.
LEMMA LastRetraces ==
  ASSUME NEW I, NEW p, NEW stack \in Seq(Checkpoints), stack # <<>>, NEW a, AllRetrace(stack, a, I, p)
  PROVE  Last(stack) \in Checkpoints /\ Retraces(Last(stack), a, I, p)
<1>1. /\ Last(stack) = stack[Len(stack)] /\ Len(stack) \in DOMAIN stack
      /\ Last(stack) \in Checkpoints
  BY FrontAndLast
<1>2. QED
  BY <1>1 DEF AllRetrace, After

\* The same document is led to.
LEMMA AllRetraceSame ==
  ASSUME NEW I, NEW p, NEW stack, NEW a, NEW m, m.content = a.content, m.journal = a.journal,
         AllRetrace(stack, a, I, p)
  PROVE  AllRetrace(stack, m, I, p)
<1>1. ASSUME NEW x, Retraces(x, a, I, p) PROVE Retraces(x, m, I, p)
  BY <1>1 DEF Retraces, StepOf
<1>2. QED
  BY <1>1 DEF AllRetrace, After

Verbs == {"undo", "redo"}

\* As long as no edit without an inverse has been undone, no number of an operation
\* that a stack holds reused, and no document opened half way, every step can be
\* retraced; and only the newest of a stack can be open.
Retraceable(a, p) ==
    \A verb \in Verbs :
        /\ ClosedBelow(Stack(a, verb))
        /\ ~a.lost /\ ~a.reused /\ ~a.half => AllRetrace(Stack(a, verb), a, a.inverses, p)

UndoInv == Retraceable(app, process)

\* A document without steps.
LEMMA UndoNone ==
  ASSUME NEW a, NEW p, a.undo = <<>>, a.redo = <<>>
  PROVE  Retraceable(a, p)
<1>1. ASSUME NEW verb \in Verbs PROVE Stack(a, verb) = <<>>
  BY DEF Stack
<1>2. DOMAIN <<>> = {}
  OBVIOUS
<1>3. QED
  BY <1>1, <1>2 DEF Retraceable, ClosedBelow, AllRetrace

\* A new document has no steps.
LEMMA UndoInit == ASSUME Init PROVE UndoInv
<1>1. app.undo = <<>> /\ app.redo = <<>>
  BY DEF Init, NoDocument
<1>2. QED
  BY <1>1, UndoNone DEF UndoInv

\* The same document and the same steps.
LEMMA UndoSame ==
  ASSUME UndoInv, app'.undo = app.undo, app'.redo = app.redo, app'.lost = app.lost,
         app'.inverses = app.inverses, app'.reused = app.reused, app'.half = app.half,
         process' = process,
         app'.content = app.content, app'.journal = app.journal
  PROVE  UndoInv'
<1>1. ASSUME NEW verb \in Verbs
      PROVE  /\ ClosedBelow(Stack(app', verb))
             /\ ~app'.lost /\ ~app'.reused /\ ~app'.half =>
                    AllRetrace(Stack(app', verb), app', app'.inverses, process')
  <2>1. Stack(app', verb) = Stack(app, verb)
    BY DEF Stack
  <2>2. QED
    BY <2>1, AllRetraceSame DEF UndoInv, Retraceable
<1>2. QED
  BY <1>1 DEF UndoInv, Retraceable

\* The operations of an edit are changes.
LEMMA EditOperations ==
  ASSUME NEW m, NEW a, NEW e, NEW new \in Seq(Entries), EditFrom(m, a, e, new)
  PROVE  Operations(KindOf(e), <<[put |-> {e}, cut |-> {}]>>) \in Seq(Changes)
<1>1. PICK r : r = [put |-> {e}, cut |-> {}]
  OBVIOUS
<1>2. PICK c : c = <<r>> /\ Len(c) = 1 /\ c[1] = r
  <2>1. Len(<<r>>) = 1 /\ <<r>>[1] = r
    OBVIOUS
  <2>2. QED
    BY <2>1
<1>3. EnvelopesOf(new, KindOf(e), c)
  BY <1>1, <1>2, Zenon DEF EditFrom
<1>4. new[1] \in Entries /\ new[1].put = {e}
  <2>1. Len(new) = 1
    BY <1>2, <1>3 DEF EnvelopesOf
  <2>2. 1 \in DOMAIN new
    BY <2>1
  <2>3. new[1].put = c[1].put
    BY <1>3, <2>2 DEF EnvelopesOf
  <2>4. QED
    BY <1>1, <1>2, <2>2, <2>3
<1>5. {e} \in Documents /\ {} \in Documents
  BY <1>4 DEF Entries, Documents
<1>6. r \in Changes
  BY <1>1, <1>5 DEF Changes
<1>7. <<r>> \in Seq(Changes) /\ <<>> \in Seq(Changes)
  BY <1>6
<1>8. QED
  BY <1>1, <1>7 DEF Operations

\* What an edit captures leaves the steps before it.
LEMMA EditCaptures ==
  ASSUME NEW m, NEW a \in Apps, NEW e, NEW new \in Seq(Entries), EditFrom(m, a, e, new),
         ~m.reused, AllRetrace(a.undo, a, a.inverses, process)
  PROVE  AllRetrace(a.undo, a, m.inverses, process)
<1>1. PICK operations \in Seq(Changes) :
          operations = Operations(KindOf(e), <<[put |-> {e}, cut |-> {}]>>)
  BY EditOperations
<1>2. Registered(m, a, a.nextOp, operations, process)
  BY <1>1, Zenon DEF EditFrom
<1>3. a.nextOp \in Nat /\ a.undo \in Seq(Checkpoints) /\ a.journal \in Seq(Entries)
  BY DEF Apps
<1>4. ASSUME operations # <<>>
      PROVE  \A i \in DOMAIN a.undo : Under(After(a.undo, i, a).journal, a.nextOp, process)
  <2>1. PICK l \in Nat : l = Len(a.journal)
    BY <1>3
  <2>2. NoneFrom(a.nextOp, m.undo, process)
    BY <1>2, <1>4 DEF Registered
  <2>3. m.undo = Append(ClosedStack(a.undo, l), CheckpointOf(a))
    BY <2>1 DEF EditFrom
  <2>4. QED
    BY <1>3, <2>2, <2>3, PushedUnder
<1>5. m.inverses = Captured(a.inverses, a.nextOp, operations)
  BY <1>2 DEF Registered
<1>6. QED
  BY <1>3, <1>4, <1>5, CapturedRetrace

\* An edit.
LEMMA UndoEdit ==
  ASSUME IInv, MadeInv, UndoInv, NEW type \in {"doc", "fixed", "sheet"}, Edit(type)
  PROVE  UndoInv'
<1>1. PICK e : e = <<type, edits + 1>>
  OBVIOUS
<1>2. PICK new \in Seq(Entries) : EditFrom(app', app, e, new)
  BY <1>1, EditGrows
<1>3. /\ app \in Apps /\ app.undo \in Seq(Checkpoints)
      /\ edits \in Nat
  BY DEF IInv, TypeOK, Apps
<1>4. e \notin app.content
  <2>1. Made(app.content, edits)
    BY LineHas, VersionFields DEF MadeInv, Holding
  <2>2. SUFFICES ASSUME e \in app.content PROVE FALSE
    OBVIOUS
  <2>3. e[2] <= edits
    BY <2>1, <2>2 DEF Made
  <2>4. e[2] = edits + 1
    BY <1>1
  <2>5. QED
    BY <1>3, <2>3, <2>4
<1>5. Retraces(CheckpointOf(app), app', app'.inverses, process)
  BY <1>1, <1>2, <1>3, <1>4, EditRetraces
<1>6. /\ app'.undo = Append(ClosedStack(app.undo, Len(app.journal)), CheckpointOf(app))
      /\ app'.redo = <<>> /\ app'.lost = app.lost /\ app'.half = app.half
      /\ (~app'.reused => ~app.reused) /\ process' = process
  BY <1>2 DEF EditFrom, Registered, Edit
<1>7. /\ ClosedBelow(app.undo)
      /\ ~app.lost /\ ~app.reused /\ ~app.half =>
             AllRetrace(app.undo, app, app.inverses, process)
  BY DEF UndoInv, Retraceable, Stack, Verbs
<1>8. ClosedBelow(app'.undo)
  <2>1. PICK l \in Nat : l = Len(app.journal)
    <3>1. app.journal \in Seq(Entries)
      BY <1>3 DEF Apps
    <3>2. QED
      BY <3>1
  <2>2. QED
    BY <1>3, <1>6, <1>7, <2>1, PushClosedBelow
<1>9. ASSUME ~app'.lost, ~app'.reused, ~app'.half
      PROVE  AllRetrace(app'.undo, app', app'.inverses, process)
  <2>1. AllRetrace(app.undo, app, app'.inverses, process)
    BY <1>2, <1>3, <1>6, <1>7, <1>9, EditCaptures
  <2>2. QED
    BY <1>3, <1>5, <1>6, <1>7, <2>1, PushRetraces
<1>10. ClosedBelow(app'.redo) /\ AllRetrace(app'.redo, app', app'.inverses, process)
  <2>1. DOMAIN app'.redo = {}
    BY <1>6
  <2>2. QED
    BY <2>1 DEF ClosedBelow, AllRetrace
<1>11. QED
  BY <1>6, <1>8, <1>9, <1>10 DEF UndoInv, Retraceable, Stack, Verbs

\* Whether by inverse or by snapshot, a step leaves every other one retraceable.
LEMMA StepsBackAlways ==
  ASSUME NEW m, NEW a \in Apps, NEW verb, NEW t \in Checkpoints, NEW new \in Seq(Entries),
         SteppedFrom(m, a, verb, t, new), Retraces(t, a, a.inverses, process), ~FixedLost(a.content, m.content)
  PROVE  StepsBack(m, a, t, m.inverses, process)
BY StepRetraces, SnapshotRetraces

\* What a step back captures leaves every other step.
LEMMA StepCaptures ==
  ASSUME NEW m, NEW a \in Apps, NEW verb \in Verbs, NEW new \in Seq(Entries),
         Stack(a, verb) # <<>>, NEW t \in Checkpoints, t = Last(Stack(a, verb)),
         SteppedFrom(m, a, verb, t, new), ~m.reused,
         NEW v \in Verbs, AllRetrace(Stack(a, v), a, a.inverses, process),
         \E ext \in Seq(Entries) : Reversible(a, t) => a.journal = t.journal \o ext
  PROVE  AllRetrace(Stack(a, v), a, m.inverses, process)
<1>1. PICK o \in Verbs : o = Opposite(verb) /\ o # verb
  BY DEF Opposite, Verbs
<1>2. /\ Stack(a, verb) \in Seq(Checkpoints) /\ Stack(a, o) \in Seq(Checkpoints)
      /\ Stack(a, v) \in Seq(Checkpoints) /\ a.journal \in Seq(Entries) /\ a.nextOp \in Nat
  BY DEF Apps, Stack
<1>3. PICK l \in Nat : l = Len(a.journal)
  BY <1>2
<1>4. /\ Stack(m, verb) = ClosedStack(Front(Stack(a, verb)), l)
      /\ Stack(m, o) = Append(ClosedStack(Stack(a, o), l), CheckpointOf(a))
  BY <1>1, <1>3 DEF SteppedFrom, StacksMoved
<1>5. CASE ~Reversible(a, t)
  BY <1>5 DEF SteppedFrom
<1>6. CASE Reversible(a, t)
  <2>1. PICK operations \in Seq(Changes) : operations = InverseOf(a, t)
    BY <1>6, InverseType
  <2>2. Registered(m, a, a.nextOp, operations, process)
    BY <1>6, <2>1 DEF SteppedFrom
  <2>3. ASSUME operations # <<>>
        PROVE  \A i \in DOMAIN Stack(a, v) : Under(After(Stack(a, v), i, a).journal, a.nextOp, process)
    <3>1. NoneFrom(a.nextOp, Stack(m, verb), process) /\ NoneFrom(a.nextOp, Stack(m, o), process)
      BY <2>2, <2>3 DEF Registered, Stack
    <3>2. PICK so \in Seq(Checkpoints) : so = Stack(a, o)
      BY <1>2
    <3>3. /\ Under(a.journal, a.nextOp, process)
          /\ \A i \in DOMAIN so : Under(After(so, i, a).journal, a.nextOp, process)
      BY <1>3, <1>4, <3>1, <3>2, PushedUnder
    <3>4. PICK ext \in Seq(Entries) : a.journal = t.journal \o ext
      BY <1>6
    <3>5. Under(t.journal, a.nextOp, process)
      <4>1. PICK j \in Seq(Entries) : j = t.journal
        BY DEF Checkpoints
      <4>2. PICK u : u = j \o ext
        OBVIOUS
      <4>3. \A i \in DOMAIN j : i \in DOMAIN u /\ u[i] = j[i]
        BY <4>2
      <4>4. u = a.journal
        BY <3>4, <4>1, <4>2
      <4>5. QED
        BY <3>3, <4>1, <4>3, <4>4 DEF Under
    <3>6. PICK sv \in Seq(Checkpoints) : sv = Stack(a, verb)
      BY <1>2
    <3>7. \A i \in DOMAIN sv : Under(After(sv, i, a).journal, a.nextOp, process)
      BY <1>3, <1>4, <3>1, <3>3, <3>5, <3>6, PoppedUnder
    <3>8. v = verb \/ v = o
      BY <1>1 DEF Verbs
    <3>9. QED
      BY <3>2, <3>3, <3>6, <3>7, <3>8
  <2>4. m.inverses = Captured(a.inverses, a.nextOp, operations)
    BY <2>2 DEF Registered
  <2>5. PICK s \in Seq(Checkpoints) : s = Stack(a, v)
    BY <1>2
  <2>6. QED
    BY <1>2, <2>3, <2>4, <2>5, CapturedRetrace
<1>7. QED
  BY <1>5, <1>6

\* A step that has an inverse goes on from where it began.
LEMMA StepGoesOn ==
  ASSUME NEW a \in Apps, NEW t \in Checkpoints, NEW I, NEW p, Retraces(t, a, I, p)
  PROVE  \E ext \in Seq(Entries) : Reversible(a, t) => a.journal = t.journal \o ext
<1>1. CASE ~Reversible(a, t)
  <2>1. <<>> \in Seq(Entries)
    OBVIOUS
  <2>2. QED
    BY <1>1, <2>1
<1>2. CASE Reversible(a, t)
  <2>1. Workbook(t.content) = Workbook(a.content)
    BY <1>2 DEF Reversible
  <2>2. PICK w \in Seq(Entries), more \in Seq(Entries) : StepOf(t, a, w, more, I, p)
    BY <2>1 DEF Retraces
  <2>3. PICK ext \in Seq(Entries) : ext = w \o more
    BY EntriesConcat
  <2>4. PICK j \in Seq(Entries) : j = t.journal
    BY DEF Checkpoints
  <2>5. (j \o w) \o more = j \o ext
    BY <2>3, ConcatAssociative
  <2>6. a.journal = t.journal \o ext
    BY <2>2, <2>4, <2>5 DEF StepOf
  <2>7. QED
    BY <2>6
<1>3. QED
  BY <1>1, <1>2

\* On both stacks.
LEMMA StepKeepsRetraces ==
  ASSUME NEW m, NEW a \in Apps, NEW verb \in Verbs, NEW new \in Seq(Entries),
         Stack(a, verb) # <<>>, NEW t \in Checkpoints, t = Last(Stack(a, verb)),
         SteppedFrom(m, a, verb, t, new), ~FixedLost(a.content, m.content), ~m.reused,
         \A v \in Verbs : ClosedBelow(Stack(a, v)) /\ AllRetrace(Stack(a, v), a, a.inverses, process)
  PROVE  \A v \in Verbs : AllRetrace(Stack(m, v), m, m.inverses, process)
<1>1. PICK o \in Verbs : o = Opposite(verb) /\ o # verb
  BY DEF Opposite, Verbs
<1>2. /\ Stack(a, verb) \in Seq(Checkpoints) /\ Stack(a, o) \in Seq(Checkpoints)
      /\ a.journal \in Seq(Entries)
  BY DEF Apps, Stack
<1>3. PICK l \in Nat : l = Len(a.journal)
  BY <1>2
<1>4. Retraces(t, a, a.inverses, process)
  BY <1>2, LastRetraces
<1>5. StepsBack(m, a, t, m.inverses, process)
  BY <1>4, StepsBackAlways
<1>6. /\ Stack(m, verb) = ClosedStack(Front(Stack(a, verb)), l)
      /\ Stack(m, o) = Append(ClosedStack(Stack(a, o), l), CheckpointOf(a))
  BY <1>1, <1>3 DEF SteppedFrom, StacksMoved
<1>11. \A v \in Verbs : AllRetrace(Stack(a, v), a, m.inverses, process)
  <2>1. \E ext \in Seq(Entries) : Reversible(a, t) => a.journal = t.journal \o ext
    BY <1>4, StepGoesOn
  <2>2. QED
    BY <2>1, StepCaptures
<1>7. AllRetrace(Stack(m, verb), m, m.inverses, process)
  <2>1. PICK ext \in Seq(Entries) : m.journal = t.journal \o ext
    BY <1>5 DEF StepsBack
  <2>2. PICK s \in Seq(Checkpoints) : s = Stack(a, verb)
    BY <1>2
  <2>3. QED
    BY <1>5, <1>6, <1>11, <2>1, <2>2, PopRetraces DEF StepsBack
<1>8. AllRetrace(Stack(m, o), m, m.inverses, process)
  <2>1. PICK s \in Seq(Checkpoints) : s = Stack(a, o)
    BY <1>2
  <2>2. QED
    BY <1>1, <1>3, <1>5, <1>6, <1>11, <2>1, PushRetraces DEF StepsBack
<1>9. \A v \in Verbs : v = verb \/ v = o
  BY <1>1 DEF Verbs
<1>10. QED
  BY <1>7, <1>8, <1>9

\* Whatever is lost, only the newest step of a stack can be open.
LEMMA StepKeepsClosed ==
  ASSUME NEW m, NEW a \in Apps, NEW verb \in Verbs, Stack(a, verb) # <<>>,
         StacksMoved(m, a, verb), \A v \in Verbs : ClosedBelow(Stack(a, v))
  PROVE  \A v \in Verbs : ClosedBelow(Stack(m, v))
<1>1. PICK o \in Verbs : o = Opposite(verb) /\ o # verb
  BY DEF Opposite, Verbs
<1>2. /\ Stack(a, verb) \in Seq(Checkpoints) /\ Stack(a, o) \in Seq(Checkpoints)
      /\ a.journal \in Seq(Entries)
  BY DEF Apps, Stack
<1>3. PICK l \in Nat : l = Len(a.journal)
  BY <1>2
<1>4. /\ Stack(m, verb) = ClosedStack(Front(Stack(a, verb)), l)
      /\ Stack(m, o) = Append(ClosedStack(Stack(a, o), l), CheckpointOf(a))
  BY <1>1, <1>3 DEF StacksMoved
<1>5. ClosedBelow(Stack(m, verb))
  BY <1>2, <1>3, <1>4, PopClosedBelow
<1>6. ClosedBelow(Stack(m, o))
  BY <1>1, <1>2, <1>3, <1>4, PushClosedBelow
<1>7. \A v \in Verbs : v = verb \/ v = o
  BY <1>1 DEF Verbs
<1>8. QED
  BY <1>5, <1>6, <1>7

\* A step of the edit history.
LEMMA UndoStep == ASSUME IInv, UndoInv, NEW verb \in {"undo", "redo"}, Step(verb) PROVE UndoInv'
<1>1. PICK t \in Checkpoints : t = Last(Stack(app, verb))
  BY StepGrows
<1>2. PICK m \in Apps, new \in Seq(Entries) :
          /\ SteppedFrom(m, app, verb, t, new)
          /\ Version(app') = Version(m)
          /\ app'.undo = m.undo /\ app'.redo = m.redo
          /\ app'.half = m.half /\ SameInverses(app', m)
          /\ app'.lost = (m.lost \/ \E e \in app.content \ m.content : e[1] = "fixed")
  BY <1>1, StepGrows
<1>3. app \in Apps /\ Stack(app, verb) # <<>> /\ verb \in Verbs
  BY DEF IInv, TypeOK, Step, Verbs
<1>4. /\ m.lost = app.lost /\ m.half = app.half /\ (~m.reused => ~app.reused)
      /\ StacksMoved(m, app, verb)
  <2>1. m.lost = app.lost /\ m.half = app.half /\ StacksMoved(m, app, verb)
    BY <1>2 DEF SteppedFrom, StacksMoved
  <2>2. CASE Reversible(app, t)
    <3>1. Registered(m, app, app.nextOp, InverseOf(app, t), process)
      BY <1>2, <2>2 DEF SteppedFrom
    <3>2. ~m.reused => ~app.reused
      BY <3>1, Zenon DEF Registered
    <3>3. QED
      BY <2>1, <3>2
  <2>3. CASE ~Reversible(app, t)
    BY <1>2, <2>1, <2>3 DEF SteppedFrom
  <2>4. QED
    BY <2>2, <2>3
<1>5. /\ app'.content = m.content /\ app'.journal = m.journal
      /\ app'.inverses = m.inverses /\ app'.reused = m.reused /\ process' = process
  <2>1. app'.content = m.content /\ app'.journal = m.journal
    BY <1>2, VersionFields
  <2>2. app'.inverses = m.inverses /\ app'.reused = m.reused
    BY <1>2 DEF SameInverses
  <2>3. process' = process
    BY DEF Step
  <2>4. QED
    BY <2>1, <2>2, <2>3
<1>6. \A v \in Verbs : Stack(app', v) = Stack(m, v)
  BY <1>2 DEF Stack
<1>7. \A v \in Verbs : ClosedBelow(Stack(m, v))
  BY <1>3, <1>4, StepKeepsClosed DEF UndoInv, Retraceable
<1>8. ASSUME ~app'.lost, ~app'.reused, ~app'.half, NEW v \in Verbs
      PROVE  AllRetrace(Stack(m, v), app', app'.inverses, process)
  <2>1. /\ ~app.lost /\ ~app.reused /\ ~app.half /\ ~m.reused
        /\ ~FixedLost(app.content, m.content)
    BY <1>2, <1>4, <1>5, <1>8 DEF FixedLost
  <2>2. \A u \in Verbs : ClosedBelow(Stack(app, u)) /\ AllRetrace(Stack(app, u), app, app.inverses, process)
    BY <2>1 DEF UndoInv, Retraceable
  <2>3. AllRetrace(Stack(m, v), m, m.inverses, process)
    BY <1>1, <1>2, <1>3, <2>1, <2>2, StepKeepsRetraces
  <2>4. QED
    BY <1>5, <2>3, AllRetraceSame
<1>9. QED
  BY <1>5, <1>6, <1>7, <1>8 DEF UndoInv, Retraceable

\* An open that fails half way leaves both stacks, and if they hold any step it is
\* on record.
LEMMA UndoOpenHalf == ASSUME IInv, UndoInv, OpenHalf PROVE UndoInv'
<1>1. app \in Apps
  BY DEF IInv, TypeOK
<1>2. PICK half : half = (app.half \/ app.undo # <<>> \/ app.redo # <<>>)
  OBVIOUS
<1>3. app'.undo = app.undo /\ app'.redo = app.redo /\ app'.half = half
  <2>1. app' = [app EXCEPT !.open = TRUE,
                           !.content = Last(repo).content,
                           !.journal = History,
                           !.saved = Len(History),
                           !.next = Rebased(History, app.next),
                           !.nextOp = RebasedOp(History, app.nextOp),
                           !.recovered = FALSE,
                           !.half = half]
    BY <1>1, <1>2 DEF OpenHalf, Apps
  <2>2. QED
    BY <1>1, <2>1 DEF Apps
<1>4. CASE ~half
  <2>1. app'.undo = <<>> /\ app'.redo = <<>>
    BY <1>2, <1>3, <1>4
  <2>2. QED
    BY <2>1, UndoNone DEF UndoInv
<1>5. CASE half
  <2>1. ASSUME NEW verb \in Verbs PROVE ClosedBelow(Stack(app', verb))
    <3>1. Stack(app', verb) = Stack(app, verb)
      BY <1>3 DEF Stack
    <3>2. QED
      BY <3>1 DEF UndoInv, Retraceable
  <2>2. app'.half
    BY <1>3, <1>5
  <2>3. QED
    BY <2>1, <2>2 DEF UndoInv, Retraceable
<1>6. QED
  BY <1>4, <1>5

\* Every step keeps the steps retraceable.
LEMMA UndoNext == ASSUME IInv, MadeInv, UndoInv, [Next]_vars PROVE UndoInv'
<1>1. ASSUME NEW type \in {"doc", "fixed", "sheet"}, Edit(type) PROVE UndoInv'
  BY <1>1, UndoEdit
<1>2. ASSUME NEW verb \in {"undo", "redo"}, Step(verb) PROVE UndoInv'
  BY <1>2, UndoStep
<1>3. CASE Save
  <2>1. app \in Apps
    BY DEF IInv, TypeOK
  <2>2. app' = [app EXCEPT !.saved = Len(app.journal), !.manifest = Len(repo) + 1,
                           !.recovered = FALSE]
    BY <1>3 DEF Save
  <2>3. /\ app'.undo = app.undo /\ app'.redo = app.redo /\ app'.lost = app.lost
        /\ app'.inverses = app.inverses /\ app'.reused = app.reused
        /\ app'.half = app.half
        /\ app'.content = app.content /\ app'.journal = app.journal
    BY <2>1, <2>2 DEF Apps
  <2>5. process' = process
    BY <1>3 DEF Save
  <2>4. QED
    BY <2>3, <2>5, UndoSame
<1>4. CASE Open
  <2>1. app'.undo = <<>> /\ app'.redo = <<>>
    BY <1>4 DEF Open, NoDocument
  <2>2. QED
    BY <2>1, UndoNone DEF UndoInv
<1>5. CASE Close \/ Restart
  <2>1. app'.undo = <<>> /\ app'.redo = <<>>
    BY <1>5 DEF Close, Restart, NoDocument
  <2>2. QED
    BY <2>1, UndoNone DEF UndoInv
<1>6. ASSUME NEW s \in Ids, Recover(s) \/ RecoverHalf(s) PROVE UndoInv'
  <2>1. app' = Recovered(segments[s])
    BY <1>6 DEF Recover, RecoverHalf
  <2>2. app'.undo = <<>> /\ app'.redo = <<>>
    BY <2>1 DEF Recovered, NoDocument
  <2>3. QED
    BY <2>2, UndoNone DEF UndoInv
<1>10. CASE OpenHalf
  BY <1>10, UndoOpenHalf
<1>7. CASE app' = app /\ process' = process
  BY <1>7, UndoSame
<1>8. (app' = app /\ process' = process) \/ (\E type \in {"doc", "fixed", "sheet"} : Edit(type))
      \/ (\E verb \in {"undo", "redo"} : Step(verb)) \/ Save \/ Open \/ OpenHalf \/ Close \/ Restart
      \/ \E s \in Ids : Recover(s) \/ RecoverHalf(s)
  BY DEF Next, vars, SaveHalf, Discard, SyncRemove, SyncAppend, SyncBegin, SyncReplace, SyncNothing
<1>9. QED
  BY <1>1, <1>2, <1>3, <1>4, <1>5, <1>6, <1>7, <1>8, <1>10

\* What a step gives back.
LEMMA StepGivesBack ==
  ASSUME IInv, UndoInv, ~app.lost, ~app.reused, ~app.half, NEW verb \in Verbs, Stack(app, verb) # <<>>
  PROVE  Stepped(app, verb).content = Last(Stack(app, verb)).content
<1>1. /\ app \in Apps /\ process \in Processes /\ verb \in {"undo", "redo"}
  BY DEF IInv, TypeOK, Verbs
<1>2. Stack(app, verb) \in Seq(Checkpoints) /\ AllRetrace(Stack(app, verb), app, app.inverses, process)
  BY <1>1 DEF UndoInv, Retraceable, Apps, Stack
<1>3. PICK t : t = Last(Stack(app, verb))
  OBVIOUS
<1>4. t \in Checkpoints /\ t.saved <= Len(t.journal)
  <2>1. Numbered(app, repo, process) /\ StacksNumbered(app, repo, process)
    BY DEF IInv, SessionNumbered, StacksNumbered
  <2>2. t \in Checkpoints /\ Numbered(t, repo, process)
    BY <1>1, <1>3, <2>1, StackedProps
  <2>3. QED
    BY <2>2 DEF Numbered
<1>5. PICK m : m = Stepped(app, verb)
  OBVIOUS
<1>6. PICK new \in Seq(Entries) : SteppedFrom(m, app, verb, t, new)
  BY <1>1, <1>3, <1>4, <1>5, SteppedGrows
<1>7. Retraces(t, app, app.inverses, process)
  BY <1>2, <1>3, LastRetraces
<1>8. m.content = t.content
  <2>1. CASE Reversible(app, t)
    BY <1>1, <1>4, <1>6, <1>7, <2>1, StepRetraces DEF StepsBack
  <2>2. CASE ~Reversible(app, t)
    BY <1>6, <2>2, SnapshotContent
  <2>3. QED
    BY <2>1, <2>2
<1>9. QED
  BY <1>3, <1>5, <1>8

\* What can be retraced is given back.
LEMMA UndoRestores == ASSUME IInv, UndoInv PROVE UndoAndRedoRestore
<1>1. ASSUME ~app.lost, ~app.reused, ~app.half, NEW verb \in Verbs, Stack(app, verb) # <<>>
      PROVE  Stepped(app, verb).content = Last(Stack(app, verb)).content
  BY <1>1, StepGivesBack
<1>2. Stack(app, "undo") = app.undo /\ Stack(app, "redo") = app.redo
  BY DEF Stack
<1>3. "undo" \in Verbs /\ "redo" \in Verbs
  BY DEF Verbs
<1>4. QED
  BY <1>1, <1>2, <1>3 DEF UndoAndRedoRestore, StepRestores
-----------------------------------------------------------------------------
(* The theorems.                                                           *)

\* Every step keeps the inductive invariant.
LEMMA NextInv == IInv /\ [Next]_vars => IInv'
<1> SUFFICES ASSUME IInv, [Next]_vars PROVE IInv'
  OBVIOUS
<1>1. ASSUME NEW type \in {"doc", "fixed", "sheet"}, Edit(type) PROVE IInv'
  BY <1>1, EditInv
<1>2. ASSUME NEW verb \in {"undo", "redo"}, Step(verb) PROVE IInv'
  BY <1>2, StepInv
<1>3. CASE Save
  BY <1>3, SaveInv
<1>4. CASE SaveHalf
  BY <1>4, SaveHalfInv
<1>5. CASE Open
  BY <1>5, OpenInv
<1>6. CASE Close
  BY <1>6, CloseInv
<1>7. CASE Restart
  BY <1>7, RestartInv
<1>8. ASSUME NEW s \in Ids, Recover(s) PROVE IInv'
  BY <1>8, RecoverInv
<1>9. ASSUME NEW s \in Ids, RecoverHalf(s) PROVE IInv'
  BY <1>9, RecoverHalfInv
<1>10. ASSUME NEW s \in Ids, Discard(s) PROVE IInv'
  BY <1>10, DiscardInv
<1>11. CASE SyncRemove
  BY <1>11, SyncRemoveInv
<1>12. CASE SyncAppend
  BY <1>12, SyncAppendInv
<1>13. CASE SyncBegin
  BY <1>13, SyncBeginInv
<1>14. CASE SyncReplace
  BY <1>14, SyncReplaceInv
<1>15. CASE SyncNothing
  BY <1>15, SyncNothingInv
<1>18. CASE OpenHalf
  BY <1>18, OpenHalfInv
<1>16. CASE UNCHANGED vars
  BY <1>16 DEF vars, IInv, TypeOK, SessionNumbered, SegmentsNumbered, HistoryNumbered,
               CursorCovers, PreviousIsAnother, BlamelessIsAtHead, CleanMeansSaved
<1>17. QED
  BY <1>1, <1>2, <1>3, <1>4, <1>5, <1>6, <1>7, <1>8, <1>9, <1>10, <1>11, <1>12,
     <1>13, <1>14, <1>15, <1>16, <1>18 DEF Next

\* The inductive invariant holds throughout.
LEMMA Inductive == Spec => []IInv
<1>1. QED
  BY InitInv, NextInv, PTL DEF Spec

\* The state is well typed, and no count goes past what it counts: what was
\* saved is in the journal, and the manifest is a commit of the repository.
THEOREM TypeCorrect == Spec => []TypeOK
<1>1. IInv => TypeOK
  BY DEF IInv
<1>2. QED
  BY Inductive, <1>1, PTL

\* A document that the dirty flag calls clean is what the repository's head
\* holds, whatever was undone, opened, closed or half saved (has_pending_save_changes
\* in state.rs, on which every replacement of the document and autosave rely).
THEOREM CleanIsSaved == Spec => []CleanMeansSaved
<1>1. IInv => CleanMeansSaved
  BY DEF IInv
<1>2. QED
  BY Inductive, <1>1, PTL

\* No envelope is committed twice (half of CommittedOnce), although numbers go back with every undo by
\* snapshot and every recovery, as long as no recovered session commits with its
\* numbering behind the head (push_operation_envelope, validate_operation_envelopes).
THEOREM IdentitiesCommittedOnce == Spec => []EnvelopesCommittedOnce
<1>1. IInv => EnvelopesCommittedOnce
  <2>1. History = Past(repo) /\ (NoneBehind <=> Tidy(repo))
    BY DEF History, Past, NoneBehind, Tidy
  <2>2. QED
    BY <2>1 DEF IInv, HistoryNumbered, EnvelopesCommittedOnce
<1>2. QED
  BY Inductive, <1>1, PTL

\* With nobody else writing, a save is accepted unless the session undid its way
\* behind a save, recovered work older than the head, or had a save or an open fail
\* half way (save_to_repository_inner, repository_io.rs:1118).  Proved of the envelopes'
\* identities, and given that of the operations' (validate_operation_envelopes).
THEOREM LoneSavesAreAccepted ==
  Spec => [](UniqueOperations(app.journal) => LoneSaveIsAccepted)
<1>1. IInv => (UniqueOperations(app.journal) => LoneSaveIsAccepted)
  <2>1. SUFFICES ASSUME IInv, app.open, blame = {}, NoneBehind, UniqueOperations(app.journal)
                 PROVE  Accepted(app)
    BY DEF LoneSaveIsAccepted
  <2>2. app.manifest = Len(repo) /\ Numbered(app, repo, process) /\ Tidy(repo)
    BY <2>1 DEF IInv, BlamelessIsAtHead, SessionNumbered, NoneBehind, Tidy
  <2>3. UniqueEnvelopes(app.journal)
    BY <2>2 DEF Numbered
  <2>4. CASE app.manifest # 0
    BY <2>1, <2>2, <2>3, <2>4 DEF Accepted, Unique
  <2>5. CASE app.manifest = 0
    <3>1. repo \in Seq(Commits)
      BY <2>1 DEF IInv, TypeOK
    <3>2. repo = <<>>
      BY <2>2, <2>5, <3>1, EmptySeq
    <3>3. History = <<>>
      BY <3>2 DEF History
    <3>4. PICK new : new = Pending(app)
      OBVIOUS
    <3>5. PICK J \in Seq(Entries), n \in Nat : J = app.journal /\ n = app.saved /\ n <= Len(J)
      BY <2>1 DEF IInv, TypeOK, Apps
    <3>6. /\ new \in Seq(Entries) /\ Len(new) = Len(J) - n
          /\ \A i \in 1..(Len(J) - n) : n + i \in DOMAIN J /\ new[i] = J[n + i]
      BY <3>4, <3>5, SinceProps DEF Pending, Since
    <3>7. <<>> \o new = new
      BY <3>6
    <3>8. UniqueEnvelopes(new)
      <4>1. SUFFICES ASSUME NEW i \in DOMAIN new, NEW j \in DOMAIN new,
                            new[i].actor = new[j].actor, new[i].seq = new[j].seq
                     PROVE  i = j
        BY DEF UniqueEnvelopes
      <4>2. i \in 1..(Len(J) - n) /\ j \in 1..(Len(J) - n)
        BY <3>6
      <4>3. /\ n + i \in DOMAIN J /\ n + j \in DOMAIN J
            /\ new[i] = J[n + i] /\ new[j] = J[n + j]
        BY <3>6, <4>2
      <4>4. n + i = n + j
        BY <2>3, <3>5, <4>1, <4>3 DEF UniqueEnvelopes
      <4>5. QED
        BY <3>5, <4>2, <4>4
    <3>10. UniqueOperations(new)
      <4>1. SUFFICES ASSUME NEW i \in DOMAIN new, NEW j \in DOMAIN new,
                            new[i].actor = new[j].actor, new[i].op # 0, new[i].op = new[j].op
                     PROVE  i = j
        BY DEF UniqueOperations
      <4>2. i \in 1..(Len(J) - n) /\ j \in 1..(Len(J) - n)
        BY <3>6
      <4>3. /\ n + i \in DOMAIN J /\ n + j \in DOMAIN J
            /\ new[i] = J[n + i] /\ new[j] = J[n + j]
        BY <3>6, <4>2
      <4>4. n + i = n + j
        BY <2>1, <3>5, <4>1, <4>3 DEF UniqueOperations
      <4>5. QED
        BY <3>5, <4>2, <4>4
    <3>9. QED
      BY <2>5, <3>3, <3>4, <3>7, <3>8, <3>10 DEF Accepted, Unique
  <2>6. QED
    BY <2>4, <2>5
<1>2. QED
  BY Inductive, <1>1, PTL

-----------------------------------------------------------------------------
(* What lasts across commands.                                             *)

Lasting == DocInv /\ LineInv /\ ShadowInv /\ RestInv /\ MadeInv /\ UndoInv

\* Every step keeps all of it.
LEMMA LastingNext == IInv /\ IInv' /\ Lasting /\ [Next]_vars => Lasting'
<1> SUFFICES ASSUME IInv, IInv', Lasting, [Next]_vars PROVE Lasting'
  OBVIOUS
<1>1. DocInv /\ LineInv /\ ShadowInv /\ RestInv /\ MadeInv /\ UndoInv
  BY DEF Lasting
<1>2. LineInv'
  BY <1>1, LineNext
<1>3. ShadowInv'
  BY <1>1, ShadowNext
<1>4. RestInv'
  BY <1>1, <1>3, RestNext
<1>5. MadeInv'
  BY <1>1, MadeNext
<1>6. UndoInv'
  BY <1>1, UndoNext
<1>8. DocInv'
  BY <1>1, DocNext
<1>7. QED
  BY <1>2, <1>3, <1>4, <1>5, <1>6, <1>8 DEF Lasting

\* It holds throughout.
LEMMA Lasts == Spec => [](IInv /\ Lasting)
<1>1. Init => IInv /\ Lasting
  BY InitInv, DocInit, LineInit, ShadowInit, RestInit, MadeInit, UndoInit DEF Lasting
<1>2. IInv /\ Lasting /\ [Next]_vars => (IInv /\ Lasting)'
  BY NextInv, LastingNext
<1>3. QED
  BY <1>1, <1>2, PTL DEF Spec

\* Between commands the live recovery segment replays to the state in memory, and
\* a clean or closed document has none, whatever was undone, redone, saved or
\* recovered before (sync_recovery_journal, recovery_cursor_is_current: the segment
\* is taken for current by the identities it covers).
THEOREM SegmentIsFaithful == Spec => []ShadowReplays
<1>1. IInv /\ Lasting => ShadowReplays
  BY ShadowIsReplayed DEF Lasting
<1>2. QED
  BY Lasts, <1>1, PTL

\* Wherever the process dies, the work of the last finished command is the head's
\* or can be recovered (begin_recovery_segment writes the new segment before the
\* old one goes; save_to_repository_inner swaps the head before the segment goes).
THEOREM UnsavedWorkSurvives == Spec => []UnsavedSurvives
<1>1. IInv /\ Lasting => UnsavedSurvives
  BY DEF Lasting, RestInv, UnsavedSurvives
<1>2. QED
  BY Lasts, <1>1, PTL

\* Undo gives back the document before the step and redo the one after it, by
\* inverse or by snapshot, although a snapshot takes the numbers of operations back
\* and leaves the inverses held by them: as long as no edit without an inverse has
\* been undone, no number that a stack still holds has been minted once more, and no
\* open has failed half way (step_edit_history, inverse_of_step, restore_checkpoint,
\* discard_stale_inverses).
THEOREM UndoGivesBack == Spec => []UndoAndRedoRestore
<1>1. IInv /\ Lasting => UndoAndRedoRestore
  BY UndoRestores DEF Lasting
<1>2. QED
  BY Lasts, <1>1, PTL
=============================================================================
