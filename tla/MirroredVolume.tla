--------------------------- MODULE MirroredVolume ---------------------------
(***************************************************************************)
(* Storage in the browser: a volume in memory that answers every call at   *)
(* once, and the driver that carries its mutations to IndexedDB afterwards *)
(* (crates/opendoc-store/src/mirrored.rs MirroredVolume and                *)
(* MirroredObjectStore; crates/opendoc-wasm/src/storage.rs).               *)
(*                                                                         *)
(* A tab may go at any step.  One tab owns the database, by a Web Lock;    *)
(* the others work in memory and wait.  A save is three calls on the       *)
(* volume, and the driver may take a batch between any two of them: that   *)
(* is what the volume allows, and more than a single-threaded page does.   *)
(*                                                                         *)
(* Data.  A key is an object (its hash), the head of the one document, or  *)
(* a frame <<session, index>> of a crash-recovery segment.  An object's    *)
(* value is the object, a head's a manifest.                               *)
(***************************************************************************)
EXTENDS Naturals, FiniteSets

CONSTANTS Tabs,
          Snapshots,    \* hashes of what a save can write
          Manifests,    \* hashes of manifests,
          SnapshotOf,   \* the snapshot a manifest names
          ParentOf,     \* and the manifest before it, or None
          Head,         \* the key of the document's head
          Sessions,     \* recovery session ids
          MaxFrame,     \* bound: the last frame of a segment
          MaxSeq,       \* bound: mutations of one page
          None          \* no value, tab, session or batch

Frames == Sessions \X (0..MaxFrame)
Objects == Snapshots \cup Manifests
Keys == Objects \cup {Head} \cup Frames
Values == Objects \cup Frames

ASSUME VolumeAssumption ==
    /\ None \notin Keys \cup Tabs \cup Sessions
    /\ Head \notin Objects \cup Frames
    /\ Snapshots \cap Manifests = {}
    /\ Objects \cap Frames = {}
    /\ SnapshotOf \in [Manifests -> Snapshots]
    /\ ParentOf \in [Manifests -> Manifests \cup {None}]
    /\ {MaxFrame, MaxSeq} \subseteq Nat

VARIABLES phase,    \* per tab: how far storage_ready has come
          volume,   \* per tab: VolumeState
          saving,   \* per tab: the save it is in the middle of
          session,  \* per tab: the segment its recovery journal writes
          flush,    \* per tab: FLUSHING and the batch in its transaction
          owner,    \* who holds the Web Lock
          durable   \* the object store in IndexedDB

vars == <<phase, volume, saving, session, flush, owner, durable>>

Contents == [Keys -> Values \cup {None}]

ASSUME StoreAssumption == None \notin Contents

\* pending holds for each key the last mutation not yet acknowledged; a seq of
\* 0 says there is none, and the value None that the key was deleted.
Volumes == [entries : Contents,
            pending : [Keys -> [seq : Nat, value : Values \cup {None}]],
            seq : Nat,
            durableSeq : Nat,
            mirroring : BOOLEAN]

NotPending == [seq |-> 0, value |-> None]

NewVolume == [entries |-> [k \in Keys |-> None],
              pending |-> [k \in Keys |-> NotPending],
              seq |-> 0, durableSeq |-> 0, mirroring |-> TRUE]

\* closed; storage_ready reading the store, or waiting for the lock; a waiting
\* tab reading the store; persistent; and never to be persistent, because
\* there is no database, too much work was queued, or the read failed.
Phases == {"closed", "hydrating", "waiting", "promoting", "persistent",
           "memory", "capped", "stranded"}

\* Commands run once storage_ready has answered.  Those of a tab that can never
\* be persistent change its own memory only, and are left out.
Running(t) == phase[t] \in {"waiting", "promoting", "persistent"}

NotSaving == [step |-> "none", manifest |-> None, expected |-> None]

Savings == {NotSaving} \cup
    [step : {"manifest", "head"},
     manifest : Manifests,
     expected : Manifests \cup {None}]

Idle == [on |-> FALSE, through |-> 0, batch |-> None, committed |-> FALSE,
         failed |-> FALSE]

Flushes == [on : BOOLEAN,             \* FLUSHING
            through : Nat,            \* the last seq of the batch
            batch : Contents \cup {None},
            committed : BOOLEAN,      \* its transaction has committed
            failed : BOOLEAN]         \* the last loop ended with an error
-----------------------------------------------------------------------------
(* The volume.                                                             *)

PendingKeys(v) == {k \in Keys : v.pending[k].seq # 0}

\* What the store holds once these mutations are applied to it.
Overlaid(store, pending) ==
    [k \in Keys |-> IF pending[k].seq # 0 THEN pending[k].value ELSE store[k]]

\* Mutant of Recorded: a key keeps the number of its first unacknowledged write.
RecordedFirst(v, k, value) ==
    IF ~v.mirroring THEN [v EXCEPT !.seq = @ + 1, !.durableSeq = v.seq + 1]
    ELSE [v EXCEPT !.seq = @ + 1,
                   !.pending[k] = [seq |-> IF @.seq # 0 THEN @.seq ELSE v.seq + 1,
                                   value |-> value]]

\* record
Recorded(v, k, value) ==
    IF ~v.mirroring THEN [v EXCEPT !.seq = @ + 1, !.durableSeq = v.seq + 1]
    ELSE [v EXCEPT !.seq = @ + 1,
                   !.pending[k] = [seq |-> v.seq + 1, value |-> value]]

\* put
Put(v, k, value) == Recorded([v EXCEPT !.entries[k] = value], k, value)

\* put_if_absent: the key of an object is its hash.
PutIfAbsent(v, o) == IF v.entries[o] # None THEN v ELSE Put(v, o, o)

\* delete
Delete(v, k) ==
    IF v.entries[k] = None /\ v.pending[k].seq = 0 THEN v
    ELSE Recorded([v EXCEPT !.entries[k] = None], k, None)

FramesOf(v, s) == {f \in Frames : f[1] = s /\ v.entries[f] # None}

\* delete_prefix of a session, in key order
DeletePrefix(v, s) ==
    LET before(f) == Cardinality({g \in FramesOf(v, s) : g[2] <= f[2]})
        gone == FramesOf(v, s)
        deleted(f) == [seq |-> v.seq + before(f), value |-> None]
    IN  [v EXCEPT
            !.entries = [k \in Keys |-> IF k \in gone THEN None ELSE @[k]],
            !.pending = [k \in Keys |-> IF k \in gone /\ v.mirroring
                                        THEN deleted(k) ELSE @[k]],
            !.seq = @ + Cardinality(gone),
            !.durableSeq = IF v.mirroring \/ gone = {} THEN @
                           ELSE v.seq + Cardinality(gone)]

\* hydrate, with the filter of its callers: only keys the volume lacks
Hydrated(v, stored) ==
    [v EXCEPT !.entries = [k \in Keys |-> IF @[k] = None
                                          THEN stored[k] ELSE @[k]]]

\* Mutant of Unmirrored: the queue is cleared to a map of no keys.
UnmirroredEmpty(v) ==
    [v EXCEPT !.mirroring = FALSE,
              !.pending = [k \in {} |-> NotPending],
              !.durableSeq = v.seq]

\* disable_mirroring
Unmirrored(v) ==
    [v EXCEPT !.mirroring = FALSE,
              !.pending = [k \in Keys |-> NotPending],
              !.durableSeq = v.seq]

\* acknowledge
Acknowledged(v, through) ==
    [v EXCEPT !.pending = [k \in Keys |-> IF @[k].seq > through
                                          THEN @[k] ELSE NotPending],
              !.durableSeq = IF through > @
                             THEN IF through < v.seq THEN through ELSE v.seq
                             ELSE @]
-----------------------------------------------------------------------------
(* The driver's part of a command.                                         *)

\* schedule_flush, after every command: start the loop unless it runs, there
\* is no database, or nothing is pending.
Scheduled(t, v) ==
    IF phase[t] = "persistent" /\ ~flush[t].on /\ PendingKeys(v) # {}
    THEN [flush EXCEPT ![t] = [Idle EXCEPT !.on = TRUE]]
    ELSE flush

\* A command's last call on the volume leaves it at v.
EndCommand(t, v) ==
    /\ volume' = [volume EXCEPT ![t] = v]
    /\ flush' = Scheduled(t, v)

Room(t, n) == volume[t].seq + n <= MaxSeq

Init ==
    /\ phase = [t \in Tabs |-> "closed"]
    /\ volume = [t \in Tabs |-> NewVolume]
    /\ saving = [t \in Tabs |-> NotSaving]
    /\ session = [t \in Tabs |-> None]
    /\ flush = [t \in Tabs |-> Idle]
    /\ owner = None
    /\ durable = [k \in Keys |-> None]
-----------------------------------------------------------------------------
(* Attaching the volume to IndexedDB.                                      *)

\* install_volume and ready: the lock is free and this tab takes it.
OpenAsOwner(t) ==
    /\ phase[t] = "closed"
    /\ owner = None
    /\ owner' = t
    /\ phase' = [phase EXCEPT ![t] = "hydrating"]
    /\ UNCHANGED <<volume, saving, session, flush, durable>>

\* ready: another tab owns the store; keep mirroring and wait for it.
OpenAndWait(t) ==
    /\ phase[t] = "closed"
    /\ owner # None
    /\ phase' = [phase EXCEPT ![t] = "waiting"]
    /\ UNCHANGED <<volume, saving, session, flush, owner, durable>>

\* ready: there is no database to open.
OpenInMemory(t) ==
    /\ phase[t] = "closed"
    /\ phase' = [phase EXCEPT ![t] = "memory"]
    /\ volume' = [volume EXCEPT ![t] = Unmirrored(@)]
    /\ UNCHANGED <<saving, session, flush, owner, durable>>

\* wait_to_become_owner: the lock is granted when its holder goes.
GrantLock(t) ==
    /\ phase[t] \in {"waiting", "capped"}
    /\ owner = None
    /\ owner' = t
    \* promote_to_owner of a tab whose queue is gone returns, and keeps the lock
    /\ phase' = [phase EXCEPT ![t] = IF volume[t].mirroring
                                     THEN "promoting" ELSE "capped"]
    /\ UNCHANGED <<volume, saving, session, flush, durable>>

\* ready, promote_to_owner: the store is read, and the tab is persistent.
Hydrate(t) ==
    /\ phase[t] \in {"hydrating", "promoting"}
    /\ phase' = [phase EXCEPT ![t] = "persistent"]
    /\ volume' = [volume EXCEPT ![t] = Hydrated(@, durable)]
    \* install_recovery_journal drops the cursor
    /\ session' = [session EXCEPT ![t] = None]
    /\ flush' = IF PendingKeys(volume[t]) # {}
                THEN [flush EXCEPT ![t].on = TRUE] ELSE flush
    /\ UNCHANGED <<saving, owner, durable>>

\* ready, promote_to_owner: the store could not be read.  The lock is kept.
FailHydrate(t) ==
    /\ phase[t] \in {"hydrating", "promoting"} /\ saving[t] = NotSaving
    /\ phase' = [phase EXCEPT ![t] = "stranded"]
    /\ UNCHANGED <<volume, saving, session, flush, owner, durable>>

\* schedule_flush of a tab without the store whose queue has grown too long
OverCap(t) ==
    /\ phase[t] \in {"waiting", "promoting"} /\ saving[t] = NotSaving
    /\ PendingKeys(volume[t]) # {}
    /\ volume' = [volume EXCEPT ![t] = Unmirrored(@)]
    /\ phase' = [phase EXCEPT ![t] = IF @ = "waiting" THEN "capped" ELSE @]
    /\ UNCHANGED <<saving, session, flush, owner, durable>>

\* The tab is closed, or dies.  The browser frees its lock; a transaction it
\* had open is applied as a whole or not at all.
Close(t) ==
    /\ phase[t] # "closed"
    /\ phase' = [phase EXCEPT ![t] = "closed"]
    /\ volume' = [volume EXCEPT ![t] = NewVolume]
    /\ saving' = [saving EXCEPT ![t] = NotSaving]
    /\ session' = [session EXCEPT ![t] = None]
    /\ flush' = [flush EXCEPT ![t] = Idle]
    /\ owner' = IF owner = t THEN None ELSE owner
    /\ durable' \in {durable} \cup
           (IF flush[t].batch = None \/ flush[t].committed THEN {}
            ELSE {flush[t].batch})
-----------------------------------------------------------------------------
(* Commands.                                                               *)

\* save_to_repository_inner: the snapshot, under the head that was read
BeginSave(t) ==
    /\ Running(t) /\ saving[t] = NotSaving
    /\ Room(t, 3)
    /\ \E m \in Manifests :
           /\ ParentOf[m] = volume[t].entries[Head]
           /\ volume' = [volume EXCEPT ![t] = PutIfAbsent(@, SnapshotOf[m])]
           /\ saving' = [saving EXCEPT ![t] =
                  [step |-> "manifest", manifest |-> m,
                   expected |-> ParentOf[m]]]
    /\ UNCHANGED <<phase, session, flush, owner, durable>>

\* Mutant of WriteManifest: the swap is let before the manifest.
WriteManifestLate(t) ==
    /\ saving[t].step = "manifest"
    /\ volume' = [volume EXCEPT ![t] = Put(@, Head, saving[t].manifest)]
    /\ saving' = [saving EXCEPT ![t].step = "head"]
    /\ UNCHANGED <<phase, session, flush, owner, durable>>

\* commit_manifest: write_manifest (and the record beside it, which nothing
\* names: no property could miss it)
WriteManifest(t) ==
    /\ saving[t].step = "manifest"
    /\ volume' = [volume EXCEPT ![t] = PutIfAbsent(@, saving[t].manifest)]
    /\ saving' = [saving EXCEPT ![t].step = "head"]
    /\ UNCHANGED <<phase, session, flush, owner, durable>>

\* commit_manifest: compare_and_swap_head.  A head adopted meanwhile wins.
SwapHead(t) ==
    /\ saving[t].step = "head"
    /\ saving' = [saving EXCEPT ![t] = NotSaving]
    /\ EndCommand(t, IF volume[t].entries[Head] = saving[t].expected
                     THEN Put(volume[t], Head, saving[t].manifest)
                     ELSE volume[t])
    /\ UNCHANGED <<phase, session, owner, durable>>

\* VolumeRecoveryJournalStore::write_segment, under a fresh session id
BeginSegment(t) ==
    /\ phase[t] = "persistent" /\ saving[t] = NotSaving
    /\ session[t] = None
    /\ Room(t, 1)
    /\ \E s \in Sessions :
           /\ \A u \in Tabs : session[u] # s
           /\ \A f \in Frames : f[1] = s =>
                  volume[t].entries[f] = None /\ durable[f] = None
           /\ session' = [session EXCEPT ![t] = s]
           /\ EndCommand(t, Put(volume[t], <<s, 0>>, <<s, 0>>))
    /\ UNCHANGED <<phase, saving, owner, durable>>

\* VolumeRecoveryJournalStore::append_segment: the frame after the last one
AppendFrame(t) ==
    /\ session[t] # None /\ saving[t] = NotSaving
    /\ Room(t, 1)
    /\ \E i \in 1..MaxFrame :
           /\ volume[t].entries[<<session[t], i - 1>>] # None
           /\ volume[t].entries[<<session[t], i>>] = None
           /\ EndCommand(t, Put(volume[t], <<session[t], i>>, <<session[t], i>>))
    /\ UNCHANGED <<phase, saving, session, owner, durable>>

\* VolumeRecoveryJournalStore::remove_segment, of the tab's own segment once
\* the document is saved, or of one an earlier page left
RemoveSegment(t) ==
    /\ phase[t] = "persistent" /\ saving[t] = NotSaving
    /\ \E s \in Sessions :
           /\ FramesOf(volume[t], s) # {}
           /\ Room(t, Cardinality(FramesOf(volume[t], s)))
           /\ session' = [session EXCEPT ![t] = IF @ = s THEN None ELSE @]
           /\ EndCommand(t, DeletePrefix(volume[t], s))
    /\ UNCHANGED <<phase, saving, owner, durable>>

\* Any other command: it writes nothing, and schedules all the same.
OtherCommand(t) ==
    /\ Running(t) /\ saving[t] = NotSaving
    /\ EndCommand(t, volume[t])
    /\ UNCHANGED <<phase, saving, session, owner, durable>>
-----------------------------------------------------------------------------
(* The loop of schedule_flush.                                             *)

\* Mutant of TakeBatch: a batch leaves the newest mutation for the next one.
TakeBatchShort(t) ==
    /\ flush[t].on /\ flush[t].batch = None /\ PendingKeys(volume[t]) # {}
    /\ LET pending == volume[t].pending
           last == CHOOSE k \in PendingKeys(volume[t]) :
                       \A j \in Keys : pending[j].seq <= pending[k].seq
           cut == [pending EXCEPT ![last] = NotPending]
       IN  flush' = [flush EXCEPT ![t].batch = Overlaid(durable, cut),
                                  ![t].through = pending[last].seq]
    /\ UNCHANGED <<phase, volume, saving, session, owner, durable>>

\* flush_batch: every pending mutation goes into one transaction.  The batch is
\* what the store will hold: nobody else writes to it meanwhile.
TakeBatch(t) ==
    /\ flush[t].on /\ flush[t].batch = None /\ PendingKeys(volume[t]) # {}
    /\ flush' = [flush EXCEPT
           ![t].batch = Overlaid(durable, volume[t].pending),
           ![t].through = CHOOSE n \in 0..volume[t].seq :
               /\ \E k \in Keys : volume[t].pending[k].seq = n
               /\ \A k \in Keys : volume[t].pending[k].seq <= n]
    /\ UNCHANGED <<phase, volume, saving, session, owner, durable>>

\* flush_batch: nothing is pending, and the loop ends.
EndFlush(t) ==
    /\ flush[t].on /\ flush[t].batch = None /\ PendingKeys(volume[t]) = {}
    /\ flush' = [flush EXCEPT ![t] = Idle]
    /\ UNCHANGED <<phase, volume, saving, session, owner, durable>>

\* The transaction commits; the page has not heard of it yet.
Commit(t) ==
    /\ flush[t].batch # None /\ ~flush[t].committed
    /\ durable' = flush[t].batch
    /\ flush' = [flush EXCEPT ![t].committed = TRUE]
    /\ UNCHANGED <<phase, volume, saving, session, owner>>

\* The transaction aborts: what it held stays pending, and the loop ends.
Abort(t) ==
    /\ flush[t].batch # None /\ ~flush[t].committed
    /\ flush' = [flush EXCEPT ![t] = [Idle EXCEPT !.failed = TRUE]]
    /\ UNCHANGED <<phase, volume, saving, session, owner, durable>>

\* Mutant of Acknowledge: one batch, and the loop is over.
AcknowledgeOnce(t) ==
    /\ flush[t].committed
    /\ volume' = [volume EXCEPT ![t] = Acknowledged(@, flush[t].through)]
    /\ flush' = [flush EXCEPT ![t] = Idle]
    /\ UNCHANGED <<phase, saving, session, owner, durable>>

\* flush_batch, after the await
Acknowledge(t) ==
    /\ flush[t].committed
    /\ volume' = [volume EXCEPT ![t] = Acknowledged(@, flush[t].through)]
    /\ flush' = [flush EXCEPT ![t] = [Idle EXCEPT !.on = TRUE]]
    /\ UNCHANGED <<phase, saving, session, owner, durable>>

Next == \E t \in Tabs :
    \/ OpenAsOwner(t) \/ OpenAndWait(t) \/ OpenInMemory(t)
    \/ GrantLock(t) \/ Hydrate(t) \/ FailHydrate(t) \/ OverCap(t) \/ Close(t)
    \/ BeginSave(t) \/ WriteManifest(t) \/ SwapHead(t)
    \/ BeginSegment(t) \/ AppendFrame(t) \/ RemoveSegment(t) \/ OtherCommand(t)
    \/ TakeBatch(t) \/ EndFlush(t) \/ Commit(t) \/ Abort(t) \/ Acknowledge(t)

Spec == Init /\ [][Next]_vars

\* A command runs to its end; the promises of the driver settle.
Fairness == \A t \in Tabs :
    /\ WF_vars(WriteManifest(t) \/ SwapHead(t))
    /\ WF_vars(TakeBatch(t) \/ EndFlush(t))
    /\ WF_vars(Commit(t) \/ Abort(t))
    /\ WF_vars(Acknowledge(t))

FairSpec == Spec /\ Fairness
-----------------------------------------------------------------------------
(* Correctness.                                                            *)

TypeOK ==
    /\ phase \in [Tabs -> Phases]
    /\ volume \in [Tabs -> Volumes]
    /\ saving \in [Tabs -> Savings]
    /\ session \in [Tabs -> Sessions \cup {None}]
    /\ flush \in [Tabs -> Flushes]
    /\ owner \in Tabs \cup {None}
    /\ durable \in Contents

\* A head never becomes durable before the objects it names: whenever the page
\* dies, the durable head leads to manifests and snapshots that are all there
\* (mirrored.rs, "Why this is safe for head pointers").
NoDanglingHead ==
    /\ durable[Head] # None => durable[durable[Head]] # None
    /\ \A m \in Manifests : durable[m] # None =>
           /\ durable[SnapshotOf[m]] # None
           /\ ParentOf[m] # None => durable[ParentOf[m]] # None

\* A volume that the store is mirrored from: once the owner, and still counting.
Mirrored(t) == phase[t] = "persistent" /\ volume[t].mirroring

\* What the owner holds is what is durable with what is pending written over
\* it: no flush acknowledges a write it did not carry, and nothing adopted
\* from the store hides a write of the tab's own (acknowledge, hydrate).  And
\* durable_seq is honest: no mutation numbered at or below it still waits.
MemoryIsDurablePlusPending ==
    \A t \in Tabs :
        /\ Mirrored(t) => volume[t].entries = Overlaid(durable, volume[t].pending)
        /\ \A k \in PendingKeys(volume[t]) :
               volume[t].durableSeq < volume[t].pending[k].seq

\* The owner's memory, and the copy of it being made: AbstractVolume.
Memory == IF \E t \in Tabs : Mirrored(t)
          THEN volume[CHOOSE t \in Tabs : Mirrored(t)].entries ELSE None

Copy ==
    LET open == {t \in Tabs : flush[t].batch # None /\ ~flush[t].committed}
    IN  IF open = {} THEN None ELSE flush[CHOOSE t \in open : TRUE].batch

\* The queue, the coalescing, the batches and the lock implement whole copies:
\* durable storage is always the whole memory of its owner at one moment.
AbstractSpec ==
    INSTANCE AbstractVolume WITH Nothing <- None, memory <- Memory,
                                 copy <- Copy
WholeCopies == AbstractSpec!ASpec

\* Work waits for durability no longer than the driver's loop takes, unless a
\* transaction failed: then the next command tries again (schedule_flush).
EventuallyDurable == \A t \in Tabs :
    (Mirrored(t) /\ PendingKeys(volume[t]) # {}) ~>
        \/ ~Mirrored(t)
        \/ PendingKeys(volume[t]) = {}
        \/ flush[t].failed
=============================================================================
