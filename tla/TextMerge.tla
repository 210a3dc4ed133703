----------------------------- MODULE TextMerge -----------------------------
(***************************************************************************)
(* One run of text edited by several replicas in a collaboration session:  *)
(* the causal order of the merge, the sequence that character edits are    *)
(* resolved in, whole-run writes, and undo by inverse operations           *)
(* (crates/opendoc-merge/src: causal.rs, text_sequence.rs, merge.rs,       *)
(* inverse.rs; crates/opendoc-app/src: document_service.rs, state.rs).     *)
(*                                                                         *)
(* A replica is what it knows: its document is the merge of the base with  *)
(* the operations it holds.  A character is a label; text that an undo     *)
(* brings back has the labels it had.                                      *)
(***************************************************************************)
EXTENDS Naturals, Sequences, FiniteSets, SequencesExt, FiniteSetsExt

CONSTANTS NumActors,   \* actors are numbered, as their names are ordered
          BaseLength,  \* characters of the run in the merge base
          MaxText,     \* bound: characters one gesture inserts, if it does
          MaxOps       \* bound: operations minted

Actors == 1..NumActors

ASSUME TextMergeAssumption ==
    /\ {NumActors, BaseLength, MaxText, MaxOps} \subseteq Nat
    /\ NumActors > 0

VARIABLES ops,      \* every operation that was minted
          known,    \* operation_envelopes of each replica
          history,  \* its undo and redo stacks: steps
          typing    \* undo_coalesce: the kind of gesture that may go on

vars == <<ops, known, history, typing>>

\* A character: who wrote it, in which operation of theirs, and where in it.
Labels == (0..NumActors) \X Nat \X Nat
Texts == Seq(Labels)
BaseText == [i \in 1..BaseLength |-> <<0, 0, i>>]

\* An operation: its id, its causal context, and its kind, which is "insert"
\* (text at from), "delete" (from..to) or "write" (the whole run).
Operations == [actor : Actors, seq : Nat \ {0},
               lamport : Nat \ {0}, seen : [Actors -> Nat],
               kind : {"insert", "delete", "write"},
               from : Nat, to : Nat, text : Texts]

\* undo_coalesce, and whether the step that the gesture began is still open.
Typings == {"no", "insert", "delete", "insert, closed", "delete, closed"}

Kind(kind, from, to, text) ==
    [kind |-> kind, from |-> from, to |-> to, text |-> text]
-----------------------------------------------------------------------------
(* Causal order: causal.rs.                                                *)

\* Operation::observes
Observes(op, other) ==
    IF other.actor = op.actor THEN other.seq < op.seq
    ELSE op.seen[other.actor] >= other.seq

\* ready_key
Precedes(x, y) ==
    \/ x.lamport < y.lamport
    \/ x.lamport = y.lamport /\ x.actor < y.actor
    \/ x.lamport = y.lamport /\ x.actor = y.actor /\ x.seq < y.seq

\* causal_order: again and again, the first of those that are ready.
CausalOrder(set) ==
    LET ready(done) == {x \in set \ done :
            \A y \in set : Observes(x, y) => y \in done}
        next(done) == CHOOSE x \in ready(done) :
            \A y \in ready(done) : x = y \/ Precedes(x, y)
        order[n \in 0..Cardinality(set)] ==
            IF n = 0 THEN <<>>
            ELSE LET before == order[n - 1]
                 IN  Append(before, next(Range(before)))
    IN  order[Cardinality(set)]
-----------------------------------------------------------------------------
(* The run as a sequence of atoms: text_sequence.rs.                       *)

\* The members of a set, in order: behind as many as come before.
InOrder(S, Before(_, _)) ==
    [n \in 1..Cardinality(S) |->
        CHOOSE x \in S : Cardinality({y \in S : Before(y, x)}) = n - 1]
Ascending(positions) == InOrder(positions, LAMBDA i, j : i < j)

\* The author of the text of the merge base: no operation.
Base == [actor |-> 0, seq |-> 0]

\* dead: deleted before this merge.  gone: the deletes of this merge.
Fresh(text) == [i \in DOMAIN text |->
    [label |-> text[i], by |-> Base, dead |-> FALSE, gone |-> {}]]

Alive(atom) == ~atom.dead /\ atom.gone = {}
Live(atoms) == LET at == Ascending({i \in DOMAIN atoms : Alive(atoms[i])})
               IN  [n \in DOMAIN at |-> atoms[at[n]]]
TextOf(atoms) == LET live == Live(atoms)
                 IN  [i \in DOMAIN live |-> live[i].label]

\* Mutant of Visible: text the author did not know of counts.
VisibleAll(atoms, op) == Ascending({i \in DOMAIN atoms : Alive(atoms[i])})

\* The positions the author of op could see.
Visible(atoms, op) ==
    Ascending({i \in DOMAIN atoms :
        /\ ~atoms[i].dead
        /\ atoms[i].by = Base \/ Observes(op, atoms[i].by)
        /\ \A d \in atoms[i].gone : ~Observes(op, d)})

Least2(m, n) == IF m < n THEN m ELSE n

\* Mutant of Landing: a later insert at the same place is not stepped over.
LandingFirst(atoms, op, rank) ==
    LET visible == Visible(atoms, op)
        offset == Least2(op.from, Len(visible))
    IN  IF offset = 0 THEN 0 ELSE visible[offset]

\* Where an insert goes, as the number of atoms before it: behind the atom its
\* offset names, and behind later inserts that it did not know of.
Landing(atoms, op, rank) ==
    LET visible == Visible(atoms, op)
        offset == Least2(op.from, Len(visible))
        anchor == IF offset = 0 THEN 0 ELSE visible[offset]
        stepped(i) == /\ atoms[i].by # Base
                      /\ rank[atoms[i].by] > rank[op]
                      /\ ~Observes(op, atoms[i].by)
    IN  CHOOSE at \in anchor..Len(atoms) :
            /\ \A i \in (anchor + 1)..at : stepped(i)
            /\ at < Len(atoms) => ~stepped(at + 1)

\* One edit of resolve_text_sequence
Edited(atoms, op, rank) ==
    IF op.kind = "insert"
    THEN LET at == Landing(atoms, op, rank)
         IN  SubSeq(atoms, 1, at)
             \o [i \in DOMAIN op.text |->
                    [label |-> op.text[i], by |-> op, dead |-> FALSE, gone |-> {}]]
             \o SubSeq(atoms, at + 1, Len(atoms))
    ELSE LET visible == Visible(atoms, op)
             struck == {visible[i] : i \in (op.from + 1)..Least2(op.to, Len(visible))}
         IN  [i \in DOMAIN atoms |->
                 IF i \in struck THEN [atoms[i] EXCEPT !.gone = @ \cup {op}]
                 ELSE atoms[i]]

Resolved(atoms, edits, rank) ==
    LET after[n \in 0..Len(edits)] ==
            IF n = 0 THEN atoms ELSE Edited(after[n - 1], edits[n], rank)
    IN  after[Len(edits)]

RankIn(order) == [op \in Range(order) |->
                     CHOOSE i \in DOMAIN order : order[i] = op]

\* The rank of the last operation that writes the whole run, or 0.
ResetIn(order) ==
    Max({0} \cup {i \in DOMAIN order : order[i].kind = "write"})

\* Mutant of EditsAfter: a write resets the run and discards no edit.
EditsAfterAll(order) == SelectSeq(order, LAMBDA op : op.kind # "write")

\* apply_text_run_edits: the edits ranked after that write
EditsAfter(order) == SubSeq(order, ResetIn(order) + 1, Len(order))

\* The atoms the edits of a merge are resolved against.
StartOf(atoms, order) ==
    IF ResetIn(order) = 0 THEN atoms ELSE Fresh(order[ResetIn(order)].text)

\* merge_operations
Merge(atoms, set) ==
    LET order == CausalOrder(set)
    IN  Resolved(StartOf(atoms, order), EditsAfter(order), RankIn(order))

Merged(set) == Merge(Fresh(BaseText), set)
Shown(set) == TextOf(Merged(set))
-----------------------------------------------------------------------------
(* Minting and undoing: document_service.rs, state.rs, inverse.rs.         *)

Own(a, set) == {op \in set : op.actor = a}

Highest(set, actor) == Max({0} \cup {op.seq : op \in Own(actor, set)})

\* apply_batch: one operation for each kind, each observing the ones before.
Minted(a, kinds) ==
    LET set == known[a]
        first == Highest(set, a)
        lamport == Max({0} \cup {op.lamport : op \in set})
    IN  [i \in DOMAIN kinds |->
            [actor |-> a, seq |-> first + i, lamport |-> lamport + i,
             seen |-> [b \in Actors |-> IF b = a THEN first + i - 1
                                        ELSE Highest(set, b)],
             kind |-> kinds[i].kind, from |-> kinds[i].from,
             to |-> kinds[i].to, text |-> kinds[i].text]]

LiveBefore(atoms, i) == Cardinality({j \in 1..(i - 1) : Alive(atoms[j])})

\* Mutant of LostTo: what somebody else has deleted too comes back.
LostToAny(atom, targets) ==
    /\ atom.gone \cap targets # {}
    /\ atom.by \notin targets

\* Deleted by the targets, by nobody else, and not their own.
LostTo(atom, targets) ==
    /\ atom.gone # {} /\ atom.gone \subseteq targets
    /\ atom.by \notin targets

\* The places, as live atoms before them, where lost text stood.
Gaps(atoms, targets) ==
    {LiveBefore(atoms, i) : i \in {j \in DOMAIN atoms : LostTo(atoms[j], targets)}}

\* How many of the first g live atoms outlast the undo: where the inverse puts
\* the text that stood at gap g.
Kept(atoms, targets, g) ==
    Cardinality({i \in 1..g : Live(atoms)[i].by \notin targets})

\* The labels of the text that stood at gap g.
LostText(atoms, targets, g) ==
    LET at == Ascending({i \in DOMAIN atoms :
                  LostTo(atoms[i], targets) /\ LiveBefore(atoms, i) = g})
    IN  [i \in DOMAIN at |-> atoms[at[i]].label]

\* The stretches of live text from the targets, each as the number of live
\* atoms before it and up to its end.
OwnRanges(atoms, targets) ==
    LET live == Live(atoms)
        ours(i) == i \in DOMAIN live /\ live[i].by \in targets
    IN  {r \in (0..Len(live)) \X (0..Len(live)) :
            /\ r[1] < r[2] /\ ~ours(r[1]) /\ ~ours(r[2] + 1)
            /\ \A i \in (r[1] + 1)..r[2] : ours(i)}
LastFirst(ranges) == InOrder(ranges, LAMBDA r, s : r[1] > s[1])

\* The gaps from the last offset to the first; at one offset, in text order.
GapsBackwards(atoms, targets) ==
    LET kept(g) == Kept(atoms, targets, g)
    IN  InOrder(Gaps(atoms, targets),
                LAMBDA g, h : kept(g) > kept(h) \/ (kept(g) = kept(h) /\ g < h))

\* invert_text_operations: the deletes, then the inserts
Inverted(set, targets) ==
    LET atoms == Merged(set)
        deletes == LastFirst(OwnRanges(atoms, targets))
        gaps == GapsBackwards(atoms, targets)
    IN  [i \in DOMAIN deletes |->
            Kind("delete", deletes[i][1], deletes[i][2], <<>>)]
        \o [i \in DOMAIN gaps |->
            Kind("insert", Kept(atoms, targets, gaps[i]), 0,
                 LostText(atoms, targets, gaps[i]))]

\* The inverse of a step: a whole-run write by the text it replaced.
InverseOfStep(a, step) ==
    IF \E op \in step.ops : op.kind = "write"
    THEN IF \E op \in step.ops : op.text # step.was
         THEN <<Kind("write", 0, 0, step.was)>> ELSE <<>>
    ELSE Inverted(known[a], step.ops)
-----------------------------------------------------------------------------
(* Actions.                                                                *)

Init ==
    /\ ops = {}
    /\ known = [a \in Actors |-> {}]
    /\ history = [a \in Actors |-> [undo |-> <<>>, redo |-> <<>>]]
    /\ typing = [a \in Actors |-> "no"]

Mint(a, kinds) ==
    /\ Cardinality(ops) + Len(kinds) <= MaxOps
    /\ LET minted == Range(Minted(a, kinds))
       IN  /\ ops' = ops \cup minted
           /\ known' = [known EXCEPT ![a] = @ \cup minted]

\* A gesture that goes on adds its operations to the last step.
Extended(stack, minted) == [stack EXCEPT ![Len(stack)].ops = @ \cup minted]

\* What is left of a gesture whose step has been closed.
ClosedStep(gesture) ==
    IF gesture = "insert" THEN "insert, closed" ELSE "delete, closed"

\* apply_editor_input: the text from..to is replaced by size new characters.
\* A gesture of the kind of the last one may belong to the step it began; once
\* that is closed, to none.
Input(a, from, to, size) ==
    LET text == [i \in 1..size |->
                    <<a, Highest(known[a], a) + (IF from < to THEN 2 ELSE 1), i>>]
        kinds == (IF from < to THEN <<Kind("delete", from, to, <<>>)>> ELSE <<>>)
                 \o (IF size > 0 THEN <<Kind("insert", from, 0, text)>> ELSE <<>>)
        gesture == IF size > 0 THEN "insert" ELSE "delete"
        minted == Range(Minted(a, kinds))
    IN  /\ from < to \/ size > 0
        /\ Mint(a, kinds)
        /\ \/ /\ typing[a] = gesture
              /\ history' = [history EXCEPT
                    ![a].undo = Extended(@, minted),
                    ![a].redo = <<>>]
              /\ UNCHANGED typing
           \/ /\ typing[a] = ClosedStep(gesture)
              /\ history' = [history EXCEPT ![a].redo = <<>>]
              /\ UNCHANGED typing
           \/ /\ history' = [history EXCEPT
                    ![a].undo = Append(@, [ops |-> minted, was |-> Shown(known[a])]),
                    ![a].redo = <<>>]
              /\ typing' = [typing EXCEPT ![a] = gesture]

\* An undoable command of another kind is refused: its checkpoint has closed the
\* step, and the gesture may go on all the same (bound: while it can).
Fail(a) ==
    /\ Cardinality(ops) < MaxOps
    /\ typing[a] \in {"insert", "delete"}
    /\ typing' = [typing EXCEPT ![a] = ClosedStep(@)]
    /\ UNCHANGED <<ops, known, history>>

\* update_inline_text
Rewrite(a) ==
    LET kinds == <<Kind("write", 0, 0, <<<<a, Highest(known[a], a) + 1, 1>>>>)>>
    IN  /\ Mint(a, kinds)
        /\ typing' = [typing EXCEPT ![a] = "no"]
        /\ history' = [history EXCEPT
                ![a].undo = Append(@, [ops |-> Range(Minted(a, kinds)),
                                       was |-> Shown(known[a])]),
                ![a].redo = <<>>]

Other(verb) == IF verb = "undo" THEN "redo" ELSE "undo"

\* step_edit_history, in a session
Step(a, verb) ==
    /\ history[a][verb] # <<>>
    /\ LET kinds == InverseOfStep(a, Last(history[a][verb]))
           step == [ops |-> Range(Minted(a, kinds)), was |-> Shown(known[a])]
       IN  /\ Mint(a, kinds)
           /\ history' = [history EXCEPT
                  ![a][verb] = Front(@), ![a][Other(verb)] = Append(@, step)]
    /\ typing' = [typing EXCEPT ![a] = "no"]

\* Mutant of Deliver: an operation may come before what it observes.
DeliverAny(a, op) ==
    /\ op \notin known[a]
    /\ known' = [known EXCEPT ![a] = @ \cup {op}]
    /\ typing' = [typing EXCEPT ![a] = "no"]
    /\ UNCHANGED <<ops, history>>

\* apply_remote_operations: the service delivers nothing before what it observes.
Deliver(a, op) ==
    /\ op \notin known[a]
    /\ \A o \in ops : Observes(op, o) => o \in known[a]
    /\ known' = [known EXCEPT ![a] = @ \cup {op}]
    /\ typing' = [typing EXCEPT ![a] = "no"]
    /\ UNCHANGED <<ops, history>>

Next ==
    \E a \in Actors :
        \/ \E to \in 0..Len(Shown(known[a])) : \E from \in 0..to :
               \E size \in {0, MaxText} : Input(a, from, to, size)
        \/ Rewrite(a) \/ Fail(a)
        \/ \E verb \in {"undo", "redo"} : Step(a, verb)
        \/ \E op \in ops : Deliver(a, op)

Spec == Init /\ [][Next]_vars
-----------------------------------------------------------------------------
(* Correctness.                                                            *)

\* An undo step: its operations, and the text before it.
Steps == [ops : SUBSET Operations, was : Texts]

Closed(set) == \A op \in set : \A o \in ops : Observes(op, o) => o \in set

TypeOK ==
    /\ ops \subseteq Operations
    /\ \A x, y \in ops : x.actor = y.actor /\ x.seq = y.seq => x = y
    /\ known \in [Actors -> SUBSET ops]
    /\ history \in [Actors -> [undo : Seq(Steps), redo : Seq(Steps)]]
    /\ typing \in [Actors -> Typings]
    /\ \A a \in Actors :
           /\ Closed(known[a]) /\ Own(a, ops) \subseteq known[a]
           /\ \A verb \in {"undo", "redo"} : \A i \in DOMAIN history[a][verb] :
                  history[a][verb][i].ops \subseteq Own(a, known[a])

Linear(order) == \A i, j \in DOMAIN order : Observes(order[i], order[j]) => j < i

\* The text does not depend on the order edits are fed in, as long as none
\* comes before what it observed (text_sequence.rs resolve_run: "Feeding
\* concurrent edits in either order gives the same string").
AnyOrderConverges ==
    LET order == CausalOrder(ops)
        start == StartOf(Fresh(BaseText), order)
        edits == EditsAfter(order)
    IN  \A other \in SetToSeqs(Range(edits)) :
            Linear(other) =>
                Resolved(start, other, RankIn(order)) = Merged(ops)

\* Text inserted by one operation is never split by an operation that was
\* written without knowledge of it ("no run is ever split").
NothingIsSplit ==
    LET atoms == Merged(ops)
        inserts == {op \in ops : op.kind = "insert" /\ Len(op.text) > 1}
    IN  \A op \in inserts : \A i, j, k \in DOMAIN atoms :
            (i < j /\ j < k /\ atoms[i].by = op /\ atoms[k].by = op) =>
                atoms[j].by # Base /\ (atoms[j].by = op \/ Observes(atoms[j].by, op))

\* What an operation does to the text its author looked at.
Spliced(text, op) ==
    CASE op.kind = "write"  -> op.text
      [] op.kind = "insert" -> SubSeq(text, 1, op.from) \o op.text
                                   \o SubSeq(text, op.from + 1, Len(text))
      [] op.kind = "delete" -> SubSeq(text, 1, op.from)
                                   \o SubSeq(text, op.to + 1, Len(text))

\* One after the other.
SplicedBy(text, batch) ==
    LET after[n \in 0..Len(batch)] ==
            IF n = 0 THEN text ELSE Spliced(after[n - 1], batch[n])
    IN  after[Len(batch)]

\* The run as the app keeps it between merges: tokens, and tombstones.
Collapsed(atoms) == [i \in DOMAIN atoms |->
    [label |-> atoms[i].label, by |-> Base, dead |-> ~Alive(atoms[i]), gone |-> {}]]

\* Whatever others have done before, what a person types, deletes or undoes
\* lands where they see it; and merging it into the open document gives the
\* text that merging the whole log gives (collaboration.rs
\* remateralise_in_session: "exactly what applying it to the already-collapsed
\* document does").
Landed(a, own) ==
    LET batch == InOrder(own, LAMBDA x, y : x.seq < y.seq)
        text == Shown(known[a] \cup own)
    IN  /\ text = SplicedBy(Shown(known[a]), batch)
        /\ text = TextOf(Merge(Collapsed(Merged(known[a])), own))

LandsWhereTyped ==
    [][\A a \in Actors :
        \A own \in {Own(a, known'[a] \ known[a])} \ {{}} :
            Landed(a, own)]_vars

\* What is left when the targets alone had not been: their insertions go, what
\* only they deleted is back, in its place.
Without(set, targets) ==
    LET atoms == Merged(set)
        left == Ascending({i \in DOMAIN atoms :
                    atoms[i].by \notin targets /\ atoms[i].gone \subseteq targets})
    IN  [n \in DOMAIN left |-> atoms[left[n]].label]

\* Two gaps at one offset: between them, only text that the undo removes.
Tied(set, targets) ==
    LET atoms == Merged(set)
    IN  \E g, h \in Gaps(atoms, targets) :
            g # h /\ Kept(atoms, targets, g) = Kept(atoms, targets, h)

Undone(a, step) ==
    Shown(known[a] \cup Range(Minted(a, InverseOfStep(a, step))))

\* Undo and redo of typing take back the actor's own step and nothing else,
\* wherever others have moved it (ADR 0017: "names only its author's own
\* contribution").  When two stretches come back to one offset they come back
\* in the wrong order, see the README.
UndoTakesOnlyItsOwn ==
    \A a \in Actors : \A verb \in {"undo", "redo"} : history[a][verb] # <<>> =>
        LET step == Last(history[a][verb])
        IN  (\A op \in step.ops : op.kind # "write") =>
                \/ Undone(a, step) = Without(known[a], step.ops)
                \/ Tied(known[a], step.ops)
=============================================================================
