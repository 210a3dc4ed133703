---------------------------- MODULE LocalSession ----------------------------
(***************************************************************************)
(* One person, one document, no service: edits, undo and redo, saves to a  *)
(* local repository, and the recovery journal that shadows unsaved work    *)
(* (crates/opendoc-app/src: dispatch.rs, state.rs, repository_io.rs,       *)
(* recovery_journal.rs).                                                   *)
(*                                                                         *)
(* Every command is dispatched in two parts: what it does, and then the    *)
(* sync of the recovery journal.  The process may die between any two      *)
(* calls on a store, and any call may fail.  One process runs at a time.   *)
(*                                                                         *)
(* Data.  A document is the set of edits in effect.  An edit is of the     *)
(* document and has an inverse operation, is of the document and has none  *)
(* ("fixed": a suggestion, a deleted column), or is of the workbook.  The  *)
(* kind of an envelope is its payload's; all operations on the document    *)
(* are of one kind here, so identities tell apart less than the code's.    *)
(***************************************************************************)
EXTENDS Naturals, Sequences, SequencesExt

CONSTANTS MaxEdits,      \* bound: edits made
          MaxSeq,        \* bound: the last number an actor mints
          MaxCommits,    \* bound: saves
          MaxSegments,   \* bound: recovery segments at one time
          MaxProcesses,  \* bound: the process and its restarts
          MaxFaults,     \* bound: store calls that fail
          None           \* no segment, cursor or content

Edits == {"doc", "fixed", "sheet"} \X (1..MaxEdits)
Documents == SUBSET Edits
Processes == 1..MaxProcesses
Ids == 1..MaxSegments

\* "undo" and "redo" are the markers of a step taken back by snapshot, which
\* do nothing.
Kinds == {"document", "sheet", "undo", "redo"}

\* An envelope: its identity, the number of the operation on the document that
\* it carries or 0, and what its payload does.
Entries == [actor : Processes, seq : Nat \ {0}, op : Nat, kind : Kinds,
            put : Documents, cut : Documents]

\* EnvelopeIdentity
EntryIds == [actor : Processes, seq : Nat \ {0}, kind : Kinds]

\* An entry of operation_inverses: the operation of this actor, and the changes
\* that take it back.  An operation whose inverse cannot be expressed has none.
Inversions == [op : Nat \ {0}, put : Documents, cut : Documents]

\* A recovery segment: the document when it was begun with the changes it can
\* only name, and the envelopes since.
Segments == [base : Documents, noted : Seq(EntryIds), frames : Seq(Entries),
             manifest : 0..MaxCommits, next : Nat \ {0}, nextOp : Nat \ {0}]

\* RecoveryCursor
Cursors == [session : Ids, saved : Nat, covered : Seq(EntryIds),
            stray : BOOLEAN]   \* history

ASSUME LocalSessionAssumption ==
    /\ {MaxEdits, MaxSeq, MaxCommits, MaxSegments, MaxProcesses, MaxFaults}
           \subseteq Nat
    /\ MaxProcesses # 0
    /\ None \notin Nat /\ None \notin Segments /\ None \notin Cursors

VARIABLES app,       \* OpenDocApp: what a crash takes
          cursor,    \* recovery.cursor: the segment this process is writing
          offers,    \* recovery.sessions: the segments offered to the user
          segments,  \* the recovery store
          repo,      \* the commits behind the branch head, oldest first, each
                     \* with the document and all envelopes up to it
          pc,        \* how far dispatch_command has come
          previous,  \* the segment that has just been replaced
          process,   \* how many processes there have been, and the actor
          edits, faults,   \* how many there have been
          rest,      \* history: the work that must not be lost, or None
          blame      \* history: what may have cut this session off its head

vars == <<app, cursor, offers, segments, repo, pc, previous, process, edits,
          faults, rest, blame>>

Identity(entry) == [actor |-> entry.actor, seq |-> entry.seq, kind |-> entry.kind]
Identities(entries) == [i \in DOMAIN entries |-> Identity(entries[i])]

\* AppUndoCheckpoint.  end is step_end, or None while the step is open.
CheckpointOf(a) == [content |-> a.content, journal |-> a.journal,
                    saved |-> a.saved, manifest |-> a.manifest,
                    next |-> a.next, nextOp |-> a.nextOp, end |-> None]

\* manifest is last_manifest, as its place in the repository, or 0; next and
\* nextOp are the numbers of the next envelope and operation.
NoDocument == [open |-> FALSE, content |-> {}, journal |-> <<>>, saved |-> 0,
               manifest |-> 0, next |-> 1, nextOp |-> 1, undo |-> <<>>,
               redo |-> <<>>, inverses |-> {},
               recovered |-> FALSE,   \* history: recovered and not yet saved
               lost |-> FALSE,        \* history: an edit without an inverse has
                                      \* been undone
               reused |-> FALSE,      \* history: an operation has been numbered
                                      \* like one that a stack still holds
               half |-> FALSE]        \* history: the stacks are of the document
                                      \* before the last open, which failed

-----------------------------------------------------------------------------
(* What the session knows of itself.                                       *)

\* Mutant of Dirty: a journal can only be longer than what was saved of it.
DirtyLonger(a) == a.saved < Len(a.journal) /\ a.manifest # 0

\* has_pending_save_changes
Dirty(a) == a.saved # Len(a.journal)

Since(a, from) == SubSeq(a.journal, from + 1, Len(a.journal))
Pending(a) == Since(a, a.saved)

\* The merge of a base with operations that follow it: what is in effect is in
\* the base or put by an operation, and not cut since.
Replayed(base, entries) ==
    LET uncut(content, from) ==
            {e \in content : \A i \in DOMAIN entries : i >= from => e \notin entries[i].cut}
    IN  uncut(base, 1) \cup UNION {uncut(entries[i].put, i) : i \in DOMAIN entries}

\* Mutant of Captured: what is in the map already stays.
CapturedOnce(inverses, first, changes) ==
    inverses \cup
        {[op |-> first + i - 1, put |-> changes[i].cut, cut |-> changes[i].put] :
            i \in {i \in DOMAIN changes :
                /\ \A e \in changes[i].put \cup changes[i].cut : e[1] = "doc"
                /\ \A r \in inverses : r.op # first + i - 1}}

\* discard_stale_inverses, then an entry for each operation of the batch
Captured(inverses, first, changes) ==
    {r \in inverses : r.op < first \/ changes = <<>>} \cup
        {[op |-> first + i - 1, put |-> changes[i].cut, cut |-> changes[i].put] :
            i \in {i \in DOMAIN changes :
                \A e \in changes[i].put \cup changes[i].cut : e[1] = "doc"}}

\* A checkpoint of this session holds an operation of its own with a number that
\* is still to be minted.
Reuses(a) ==
    \E stack \in {a.undo, a.redo} : \E i \in DOMAIN stack :
        \E j \in DOMAIN stack[i].journal :
            /\ stack[i].journal[j].actor = process
            /\ stack[i].journal[j].op >= a.nextOp

\* push_document_operation for each operation of a batch, or
\* push_operation_envelope, which takes no operation number
Minted(a, kind, changes) ==
    LET operations == IF kind = "document" THEN changes ELSE <<>>
        minted == [i \in DOMAIN changes |->
            [actor |-> process, seq |-> a.next + i - 1,
             op |-> IF kind = "document" THEN a.nextOp + i - 1 ELSE 0,
             kind |-> kind, put |-> changes[i].put, cut |-> changes[i].cut]]
    IN  [a EXCEPT !.content = Replayed(@, minted),
                  !.journal = @ \o minted,
                  !.next = @ + Len(changes),
                  !.nextOp = @ + Len(operations),
                  !.inverses = Captured(@, a.nextOp, operations),
                  !.reused = @ \/ (operations # <<>> /\ Reuses(a))]

Marker == [put |-> {}, cut |-> {}]

\* read_operation_envelopes, from the head
History == IF repo = <<>> THEN <<>> ELSE Last(repo).history

\* validate_operation_envelopes: no two envelopes have one identity, and no two
\* operations one OperationId.
UniqueEnvelopes(entries) ==
    \A i, j \in DOMAIN entries :
        /\ entries[i].actor = entries[j].actor
        /\ entries[i].seq = entries[j].seq
        => i = j
UniqueOperations(entries) ==
    \A i, j \in DOMAIN entries :
        /\ entries[i].actor = entries[j].actor
        /\ entries[i].op # 0 /\ entries[i].op = entries[j].op
        => i = j
Unique(entries) == UniqueEnvelopes(entries) /\ UniqueOperations(entries)

\* Mutant of Accepted: a first save trusts its own journal.
AcceptedUnread(a) ==
    /\ Unique(a.journal)
    /\ a.manifest \in {0, Len(repo)}

\* save_to_repository_inner: with a manifest, the journal in memory is checked
\* and the swap expects that manifest; without one, the repository's history is
\* read and the swap expects the head that was read.
Accepted(a) ==
    IF a.manifest # 0
    THEN Unique(a.journal) /\ a.manifest = Len(repo)
    ELSE Unique(History \o Pending(a))

\* A first save builds on a history with numbers this session has yet to mint:
\* later saves look at the journal in memory alone.
Behind(a) ==
    /\ a.manifest = 0
    /\ \E i \in DOMAIN History :
           /\ History[i].actor = process
           /\ History[i].seq >= a.next \/ History[i].op >= a.nextOp
-----------------------------------------------------------------------------
(* Undo and redo: step_edit_history, outside a collaboration session.      *)

Stack(a, verb) == IF verb = "undo" THEN a.undo ELSE a.redo

\* checkpoint closes the step that is open on either stack.
Closed(a) ==
    LET close(stack) ==
            IF stack # <<>> /\ Last(stack).end = None
            THEN [stack EXCEPT ![Len(stack)].end = Len(a.journal)] ELSE stack
    IN  [a EXCEPT !.undo = close(@), !.redo = close(@)]

Popped(a, verb) ==
    IF verb = "undo" THEN [a EXCEPT !.undo = Front(@)]
                     ELSE [a EXCEPT !.redo = Front(@)]

\* push_opposite
Pushed(a, verb, checkpoint) ==
    IF verb = "undo" THEN [a EXCEPT !.redo = Append(@, checkpoint)]
                     ELSE [a EXCEPT !.undo = Append(@, checkpoint)]

Workbook(content) == {e \in content : e[1] = "sheet"}

\* The envelopes of the step that began at this checkpoint.
Window(a, target) ==
    SubSeq(a.journal, Len(target.journal) + 1,
           IF target.end = None \/ target.end > Len(a.journal)
           THEN Len(a.journal) ELSE target.end)

\* What operation_inverses holds for an operation of this actor.
InversesOf(a, op) == {r \in a.inverses : r.op = op}

\* inverse_of_step has an answer.  The stacks are empty when a document is
\* opened, so all in a window is this actor's.
Reversible(a, target) ==
    /\ Len(target.journal) <= Len(a.journal)
    /\ target.end # None => Len(target.journal) <= target.end
    /\ Workbook(target.content) = Workbook(a.content)
    /\ \A i \in DOMAIN Window(a, target) :
           InversesOf(a, Window(a, target)[i].op) # {}

\* The inverse of each, newest first.
InverseOf(a, target) ==
    LET step == Reverse(Window(a, target))
        inverse(e) == CHOOSE r \in InversesOf(a, e.op) : TRUE
    IN  [i \in DOMAIN step |-> [put |-> inverse(step[i]).put,
                                cut |-> inverse(step[i]).cut]]

\* Mutant of Restored: the count of saved operations is left behind.
RestoredUncounted(a, target) ==
    [a EXCEPT !.content = target.content,
              !.journal = target.journal,
              !.manifest = target.manifest,
              !.next = target.next, !.nextOp = target.nextOp]

\* restore_checkpoint: all but operation_inverses
Restored(a, target) ==
    [a EXCEPT !.content = target.content,
              !.journal = target.journal,
              !.manifest = target.manifest,
              !.saved = IF target.saved < Len(target.journal)
                        THEN target.saved ELSE Len(target.journal),
              !.next = target.next, !.nextOp = target.nextOp]

Stepped(a, verb) ==
    LET target == Last(Stack(a, verb))
        popped == Popped(a, verb)
        stacked == Pushed(Closed(popped), verb, CheckpointOf(a))
    IN  IF Reversible(popped, target)
        THEN Minted(stacked, "document", InverseOf(popped, target))
        ELSE Minted(Restored(stacked, target), verb, <<Marker>>)
-----------------------------------------------------------------------------
(* Commands.                                                               *)

Init ==
    /\ app = [NoDocument EXCEPT !.open = TRUE]   \* new_document
    /\ cursor = None
    /\ offers = {}
    /\ segments = [s \in Ids |-> None]
    /\ repo = <<>>
    /\ pc = "rest"
    /\ previous = None
    /\ process = 1
    /\ edits = 0
    /\ faults = 0
    /\ rest = None
    /\ blame = {}

\* A command may begin: the last one has ended, with a warning or without.
AtRest == pc \in {"rest", "warned"}

\* The command has succeeded, and the sync follows.
Done == pc' = "sync"

Live == {s \in Ids : segments[s] # None}

\* An undoable command that mints one operation, as a step of its own.
Edit(type) ==
    /\ AtRest /\ app.open
    /\ edits < MaxEdits /\ app.next <= MaxSeq
    /\ edits' = edits + 1
    /\ LET stepped == [Closed(app) EXCEPT !.undo = Append(@, CheckpointOf(app)),
                                          !.redo = <<>>]
       IN  app' = Minted(stepped, IF type = "sheet" THEN "sheet" ELSE "document",
                         <<[put |-> {<<type, edits + 1>>}, cut |-> {}]>>)
    /\ Done
    /\ UNCHANGED <<cursor, offers, segments, repo, previous, process, faults,
                   rest, blame>>

\* step_edit_history
Step(verb) ==
    /\ AtRest /\ app.open
    /\ Stack(app, verb) # <<>>
    /\ app.next <= MaxSeq
    /\ LET stepped == Stepped(app, verb)
       IN  app' = [stepped EXCEPT !.lost =
                      @ \/ \E e \in app.content \ stepped.content : e[1] = "fixed"]
    /\ blame' = IF app'.manifest # app.manifest
                THEN blame \cup {"undo"} ELSE blame
    /\ Done
    /\ UNCHANGED <<cursor, offers, segments, repo, previous, process, edits,
                   faults, rest>>

Commit == repo' = Append(repo, [content |-> app.content,
                                history |-> History \o Pending(app),
                                behind  |-> Behind(app)])   \* history

\* save_to_repository_inner.  A save that is refused, or that fails before the
\* head is swapped, changes nothing.
Save ==
    /\ AtRest /\ app.open
    /\ Len(repo) < MaxCommits
    /\ Accepted(app)
    /\ Commit
    /\ rest' = app.content
    /\ blame' = {}
    /\ app' = [app EXCEPT !.saved = Len(app.journal),
                          !.manifest = Len(repo) + 1,
                          !.recovered = FALSE]
    /\ Done
    /\ UNCHANGED <<cursor, offers, segments, previous, process, edits,
                   faults>>

\* The head is swapped, and the lookup record cannot be written: an error, and
\* the session does not know that it has been saved.
SaveHalf ==
    /\ AtRest /\ app.open
    /\ Len(repo) < MaxCommits /\ faults < MaxFaults
    /\ Accepted(app)
    /\ Commit
    /\ rest' = app.content
    /\ faults' = faults + 1
    /\ blame' = blame \cup {"lookup"}
    /\ UNCHANGED <<app, cursor, offers, segments, pc, previous, process, edits>>

\* Mutant of Rebased: numbering starts afresh.
RebasedNever(entries, next) == next

\* This actor's.
Own(entries) == {i \in DOMAIN entries : entries[i].actor = process}

\* The first number that is free after these entries: rebase_next_seq_from_journal,
\* recovered_sequence_counters
Rebased(entries, next) ==
    Max({next} \cup {entries[i].seq + 1 : i \in Own(entries)})

\* likewise for the operations they carry
RebasedOp(entries, nextOp) ==
    Max({nextOp} \cup {entries[i].op + 1 : i \in Own(entries)})

\* open_projection_from_repository, by a user who accepts the loss of what is
\* unsaved (guard_document_replacement)
Open ==
    /\ AtRest
    /\ repo # <<>>
    /\ app' = [NoDocument EXCEPT !.open = TRUE,
                                 !.content = Last(repo).content,
                                 !.journal = History,
                                 !.saved = Len(History),
                                 !.manifest = Len(repo),
                                 !.next = Rebased(History, app.next),
                                 !.nextOp = RebasedOp(History, app.nextOp),
                                 !.inverses = app.inverses]
    /\ rest' = IF app.open THEN None ELSE rest
    /\ blame' = {}
    /\ Done
    /\ UNCHANGED <<cursor, offers, segments, repo, previous, process, edits,
                   faults>>

\* A read of the store fails after the document, the journal and the counters
\* have been replaced: an error, with the old manifest and both stacks in place.
OpenHalf ==
    /\ AtRest /\ faults < MaxFaults
    /\ repo # <<>>
    /\ app' = [app EXCEPT !.open = TRUE,
                          !.content = Last(repo).content,
                          !.journal = History,
                          !.saved = Len(History),
                          !.next = Rebased(History, @),
                          !.nextOp = RebasedOp(History, @),
                          !.recovered = FALSE,
                          !.half = @ \/ app.undo # <<>> \/ app.redo # <<>>]
    /\ faults' = faults + 1
    /\ pc' = "warned"
    /\ rest' = IF app.open THEN None ELSE rest
    /\ blame' = IF app.manifest = Len(repo) THEN {} ELSE {"open"}
    /\ cursor' = IF cursor = None THEN None ELSE [cursor EXCEPT !.stray = TRUE]
    /\ UNCHANGED <<offers, segments, repo, previous, process, edits>>

\* close_document, likewise
Close ==
    /\ AtRest /\ app.open
    /\ app' = NoDocument
    /\ rest' = None
    /\ blame' = {}
    /\ Done
    /\ UNCHANGED <<cursor, offers, segments, repo, previous, process, edits,
                   faults>>
-----------------------------------------------------------------------------
(* Recovery.                                                               *)

RecoveredNext(segment) == Rebased(segment.frames, segment.next)
RecoveredNextOp(segment) == RebasedOp(segment.frames, segment.nextOp)

\* recover_session: the frames become the whole journal.
Recovered(segment) ==
    [NoDocument EXCEPT !.open = TRUE,
                       !.content = Replayed(segment.base, segment.frames),
                       !.journal = segment.frames,
                       !.manifest = segment.manifest,
                       !.next = RecoveredNext(segment),
                       !.nextOp = RecoveredNextOp(segment),
                       !.inverses = app.inverses,
                       !.recovered = TRUE]

\* recover_session, by a user who accepts the loss of what is open: replay, and
\* remove the segment.
Recover(s) ==
    /\ AtRest
    /\ s \in offers /\ segments[s] # None
    /\ app' = Recovered(segments[s])
    /\ segments' = [segments EXCEPT ![s] = None]
    /\ cursor' = None
    /\ offers' = Live \ {s}
    /\ rest' = None
    /\ blame' = IF segments[s].manifest = Len(repo) THEN {} ELSE {"recovery"}
    /\ Done
    /\ UNCHANGED <<repo, previous, process, edits, faults>>

\* The segment cannot be removed: an error, after the replay.  The cursor still
\* names the segment of the document that was replaced.
RecoverHalf(s) ==
    /\ AtRest /\ faults < MaxFaults
    /\ s \in offers /\ segments[s] # None
    /\ app' = Recovered(segments[s])
    /\ faults' = faults + 1
    /\ pc' = "warned"
    /\ rest' = None
    /\ blame' = IF segments[s].manifest = Len(repo) THEN {} ELSE {"recovery"}
    /\ cursor' = IF cursor = None THEN None ELSE [cursor EXCEPT !.stray = TRUE]
    /\ UNCHANGED <<offers, segments, repo, previous, process, edits>>

\* discard_recovery_session
Discard(s) ==
    /\ AtRest
    /\ s \in offers
    /\ segments' = [segments EXCEPT ![s] = None]
    /\ offers' = Live \ {s, IF cursor = None THEN s ELSE cursor.session}
    /\ rest' = IF app.open /\ pc = "rest" THEN rest ELSE None
    /\ Done
    /\ UNCHANGED <<app, cursor, repo, previous, process, edits, faults, blame>>

\* The process dies or ends, and the next one lists what it left
\* (install_recovery_journal).
Restart ==
    /\ process < MaxProcesses
    /\ process' = process + 1
    /\ app' = NoDocument
    /\ cursor' = None
    /\ offers' = Live
    /\ pc' = "rest"
    /\ previous' = None
    /\ blame' = {}
    /\ UNCHANGED <<segments, repo, edits, faults, rest>>
-----------------------------------------------------------------------------
(* sync_recovery_journal.                                                  *)

\* The cursor is of a document that a recovery has replaced since.
Stray(c) == c # None /\ c.stray

\* The dispatch is over.  What is open is now work to keep, unless it is a
\* recovered document that is taken for saved (RecoveredIsUnsaved), or may be
\* taken for what a stray cursor covers.
Finish(a) ==
    /\ pc' = "rest"
    /\ rest' = IF ~a.open THEN rest
               ELSE IF (a.recovered /\ ~Dirty(a)) \/ a.half \/ Stray(cursor') THEN None
               ELSE a.content

\* Any error: drop the cursor and warn.
Warn ==
    /\ pc' = "warned"
    /\ cursor' = None
    /\ faults' = faults + 1
    /\ UNCHANGED rest

ToShadow == app.open /\ Dirty(app)

\* Mutant of IsCurrent: a segment is taken for current by its length.
IsCurrentByLength ==
    /\ cursor # None
    /\ cursor.saved = app.saved
    /\ Len(app.journal) >= cursor.saved + Len(cursor.covered)

\* recovery_cursor_is_current
IsCurrent ==
    /\ cursor # None
    /\ cursor.saved = app.saved
    /\ Len(app.journal) >= cursor.saved + Len(cursor.covered)
    /\ Identities(SubSeq(app.journal, cursor.saved + 1,
                         cursor.saved + Len(cursor.covered))) = cursor.covered

\* clean or closed: there is nothing to recover
SyncRemove ==
    /\ pc = "sync" /\ ~ToShadow
    /\ cursor # None
    /\ cursor' = None
    /\ \/ /\ segments' = [segments EXCEPT ![cursor.session] = None]
          /\ Finish(app)
          /\ UNCHANGED faults
       \/ /\ faults < MaxFaults
          /\ Warn
          /\ UNCHANGED segments
    /\ UNCHANGED <<app, offers, repo, previous, process, edits, blame>>

\* append_segment: the envelopes the segment does not cover yet
SyncAppend ==
    /\ pc = "sync" /\ ToShadow /\ IsCurrent
    /\ LET new == Since(app, cursor.saved + Len(cursor.covered))
       IN  \/ /\ segments' = [segments EXCEPT ![cursor.session].frames = @ \o new]
              /\ cursor' = [cursor EXCEPT !.covered = @ \o Identities(new)]
              /\ Finish(app)
              /\ UNCHANGED faults
           \/ /\ faults < MaxFaults /\ new # <<>>
              /\ Warn
              /\ UNCHANGED segments
    /\ UNCHANGED <<app, offers, repo, previous, process, edits, blame>>

Segment == [base |-> app.content, noted |-> Identities(Pending(app)),
            frames |-> <<>>, manifest |-> app.manifest, next |-> app.next,
            nextOp |-> app.nextOp]

CursorOn(s) == [session |-> s, saved |-> app.saved,
                covered |-> Identities(Pending(app)), stray |-> FALSE]   \* history

\* Mutant of SyncBegin: the segment that is replaced goes first.
SyncBeginRemoves ==
    /\ pc = "sync" /\ ToShadow /\ ~IsCurrent
    /\ IF cursor # None
       THEN /\ segments' = [segments EXCEPT ![cursor.session] = None]
            /\ cursor' = None
            /\ UNCHANGED <<pc, rest>>
       ELSE \E s \in Ids \ Live :
            /\ segments' = [segments EXCEPT ![s] = Segment]
            /\ cursor' = CursorOn(s)
            /\ Finish(app)
    /\ UNCHANGED <<app, offers, repo, previous, process, edits, faults, blame>>

\* begin_recovery_segment: write_segment under a fresh id
SyncBegin ==
    /\ pc = "sync" /\ ToShadow /\ ~IsCurrent
    /\ \/ \E s \in Ids \ (Live \cup offers) :
              /\ \A i \in Ids \ (Live \cup offers) : s <= i
              /\ segments' = [segments EXCEPT ![s] = Segment]
              /\ cursor' = CursorOn(s)
              /\ IF cursor = None
                 THEN Finish(app) /\ UNCHANGED previous
                 ELSE /\ pc' = "replaced"
                      /\ previous' = cursor.session
                      /\ UNCHANGED rest
              /\ UNCHANGED faults
       \/ /\ faults < MaxFaults
          /\ Warn
          /\ UNCHANGED <<segments, previous>>
    /\ UNCHANGED <<app, offers, repo, process, edits, blame>>

\* begin_recovery_segment: the previous segment goes
SyncReplace ==
    /\ pc = "replaced"
    /\ previous' = None
    /\ \/ /\ segments' = [segments EXCEPT ![previous] = None]
          /\ UNCHANGED <<cursor, faults>>
          /\ Finish(app)
       \/ /\ faults < MaxFaults
          /\ Warn
          /\ UNCHANGED segments
    /\ UNCHANGED <<app, offers, repo, process, edits, blame>>

\* clean or closed, and nothing was being written
SyncNothing ==
    /\ pc = "sync" /\ ~ToShadow
    /\ cursor = None
    /\ UNCHANGED <<app, cursor, offers, segments, repo, previous, process,
                   edits, faults, blame>>
    /\ Finish(app)

Next ==
    \/ \E type \in {"doc", "fixed", "sheet"} : Edit(type)
    \/ \E verb \in {"undo", "redo"} : Step(verb)
    \/ Save \/ SaveHalf \/ Open \/ OpenHalf \/ Close \/ Restart
    \/ \E s \in Ids : Recover(s) \/ RecoverHalf(s) \/ Discard(s)
    \/ SyncRemove \/ SyncAppend \/ SyncBegin \/ SyncReplace \/ SyncNothing

Spec == Init /\ [][Next]_vars
-----------------------------------------------------------------------------
(* Correctness.                                                            *)

Checkpoints == [content : Documents, journal : Seq(Entries), saved : Nat,
                manifest : 0..MaxCommits, next : Nat \ {0}, nextOp : Nat \ {0},
                end : Nat \cup {None}]

Apps == [open : BOOLEAN, content : Documents, journal : Seq(Entries), saved : Nat,
         manifest : 0..MaxCommits, next : Nat \ {0}, nextOp : Nat \ {0},
         undo : Seq(Checkpoints), redo : Seq(Checkpoints),
         inverses : SUBSET Inversions, recovered : BOOLEAN, lost : BOOLEAN,
         reused : BOOLEAN, half : BOOLEAN]

Commits == [content : Documents, history : Seq(Entries), behind : BOOLEAN]

TypeOK ==
    /\ app \in Apps
    /\ app.saved <= Len(app.journal) /\ app.manifest <= Len(repo)
    /\ cursor \in Cursors \cup {None}
    /\ offers \subseteq Ids
    /\ segments \in [Ids -> Segments \cup {None}]
    /\ repo \in Seq(Commits) /\ Len(repo) <= MaxCommits
    /\ pc \in {"rest", "warned", "sync", "replaced"}
    /\ previous \in Ids \cup {None}
    /\ process \in Processes /\ edits \in 0..MaxEdits /\ faults \in 0..MaxFaults
    /\ rest \in Documents \cup {None}
    /\ blame \subseteq {"undo", "recovery", "lookup", "open"}

\* Between commands the live segment replays to exactly the state in memory:
\* its content, its numbering, its manifest and the changes it can name; and a
\* clean or closed document has no live segment (ADR 0005 section 2).  A cursor
\* that a failed recovery left on the segment of another document is excused.
ShadowReplays ==
    pc = "rest" /\ ~Stray(cursor) /\ ~app.half =>
        IF ToShadow
        THEN /\ cursor # None
             /\ LET s == segments[cursor.session]
                IN  /\ s # None
                    /\ Replayed(s.base, s.frames) = app.content
                    /\ s.manifest = app.manifest
                    /\ RecoveredNext(s) = app.next
                    /\ RecoveredNextOp(s) = app.nextOp
                    /\ s.noted \o Identities(s.frames) = Identities(Pending(app))
        ELSE cursor = None

\* The dirty flag, which guards every replacement of the document and drives
\* autosave: a document it calls clean is what the repository's head holds.
CleanMeansSaved ==
    (app.open /\ ~Dirty(app) /\ ~app.recovered) =>
        IF repo = <<>> THEN app.content = {}
        ELSE app.content = Last(repo).content

\* Whenever the process dies, inside a command or out of it, the work of the
\* last finished command is the head's or can be recovered.
Kept(content) ==
    \/ repo # <<>> /\ Last(repo).content = content
    \/ repo = <<>> /\ content = {}
    \/ \E s \in Live : Replayed(segments[s].base, segments[s].frames) = content
UnsavedSurvives == rest # None => Kept(rest)

NoneBehind == \A i \in DOMAIN repo : ~repo[i].behind

\* What is proved of CommittedOnce: its half about envelopes.
EnvelopesCommittedOnce == NoneBehind => UniqueEnvelopes(History)

\* The repository never holds one envelope twice, nor one operation, which is
\* counted apart from the envelopes, whatever was undone, recovered or lost: the
\* merge is defined on histories without (operation.rs).  But for a recovered
\* session whose numbering is behind the head it saves on.
CommittedOnce == NoneBehind => Unique(History)

\* Nobody else writes here, so a save is refused only to a session that undid
\* its way behind a save, recovered work that is older than the head, had a save fail
\* after the swap, or had an open of the head fail half way.
LoneSaveIsAccepted ==
    (app.open /\ blame = {} /\ NoneBehind) => Accepted(app)

StepRestores(verb) ==
    Stack(app, verb) # <<>> =>
        Stepped(app, verb).content = Last(Stack(app, verb)).content

\* Undo gives back the document before the step, by inverse or by snapshot,
\* and redo the one after it, however snapshots take the journal and both
\* numbers back under the inverses that stay.  But for three cases: an edit
\* without an inverse has been undone, and the windows of the steps index a
\* journal that this cut short; an operation has been numbered like one that a
\* stack still holds, and took its inverse's place, although "redo has to
\* restore the edit" (state.rs:1067); or the stacks are of the document before
\* an open that failed.
UndoAndRedoRestore ==
    ~app.lost /\ ~app.reused /\ ~app.half =>
        StepRestores("undo") /\ StepRestores("redo")

\* "the result is an ordinary unsaved document" (recovery_journal.rs:723): what
\* was recovered and not saved since counts as unsaved.
RecoveredIsUnsaved == app.recovered => Dirty(app)
=============================================================================
