# opendoc: specifications, model checking and proofs

TLA+ specifications of the parts of opendoc where order, failure and concurrency
decide whether an edit survives: the durable log of a collaborative document, the
protocol between editors and the collaboration service, the permissions under
which they write, the document threads a service process runs, the browser's
storage, one person's session with its undo, saves and crash recovery, and the text
merge that concurrent editors and their undos meet in. Line numbers refer to the
sources under `src/`; every definition that models code is listed with its lines in
`PROJECT.json` ("map").

Contents: [1 inventory](#1-inventory) · [2 modules](#2-modules) ·
[3 runs](#3-runs) · [4 what is proved](#4-what-is-proved) ·
[5 disagreements with the code's own words](#5-disagreements-with-the-codes-own-words) ·
[6 not modelled](#6-not-modelled) · [7 plan](#7-plan)

To reproduce, in this directory:

    tlc -workers 2 -config DocumentLog.cfg MCDocumentLog.tla    # and the other .cfg files
    tlapm DocumentLogProofs.tla                                  # and the other *Proofs.tla

## 1 Inventory

opendoc is a collaborative document and spreadsheet editor in Rust, with one
engine for the desktop (Tauri), the browser (wasm) and a self-hosted service.
Edits are *operations*, each with an id (actor, sequence number), a causal context
(a vector clock) and a payload; a document is what the merge kernel makes of a set
of operations.

### 1.1 The collaboration service (`crates/opendoc-service`)

| part | state it keeps | operations | talks to |
|---|---|---|---|
| document log `log.rs` | operations in memory, the head it believes in, `commit_seq` | `create`, `append`, `load` | repository |
| document thread `document.rs` | connections, the log, the merged document | `join`, `leave`, `submit`, `enforce_grants`, presence | log, permissions, every socket |
| sockets `server.rs` | one task per socket: a reader, a queue of frames to write | `document_socket`, `run_socket` | document thread's mailbox |
| permissions `permission.rs` | durable grant table and audit trail, an in-memory cache of them | `authorize`, `seed_owner`, `set_role` | object store |
| registry `service.rs` | running document threads, threads that are stopping, quota records | `create_document`, `open_document`, `set_grant`, `stop_idle_documents` | all of the above |
| identity `identity.rs` | subjects, their actors, session tokens | register, open, authenticate, close, sweep | registry |

*Hard behaviour.* Several processes may share one object store, so two logs can
extend one head. A commit is five store calls, any of which can fail, and a process
can die between any two. Request handlers and document threads run concurrently;
what they share is the mailbox of a document, the grants cache and the registry's
mutex. Sockets drop with frames on them.

*Correct means:* the head always names a document that loads; what was acknowledged
stays; nobody serves what is not durable; the log is one the merge is defined on (no
id twice, dense per actor, causes first); a connection misses no commit; a revoked
subject does not write or listen; an owner remains; one thread per document.

### 1.2 Clients

| part | state it keeps | operations |
|---|---|---|
| browser driver `opendoc-wasm/src/collab.rs` | phase, two watermarks (submitted, acknowledged), ack timer, blocked reason, refusal count | `begin`, `ingest`, `outbox` (each tick), `socket_closed` |
| its session in the app `opendoc-app/src/collaboration.rs` | the replica: operations held, by id | join, apply remote, mint local |
| desktop driver `apps/desktop/src-tauri/src/collab.rs` | the same, on a thread of its own | connect, serve, sweep, expire |
| page `apps/desktop/src/collab.ts` | the socket and two timers | opens, closes and pumps the driver |

*Hard behaviour.* Timers race late answers; batches are pipelined, so one failure
takes the batches behind it along; a client that reconnects can be welcomed before
the service has read the end of its previous socket; the user goes on typing
through all of it; one subject may have several tabs, which share an actor.

*Correct means:* nothing typed is lost; what counts as acknowledged is durable; an
honest client is not refused except because the store failed; edits reach the log
and replicas end equal.

### 1.3 Storage (`crates/opendoc-store`)

| part | state | operations | hard behaviour |
|---|---|---|---|
| repository `repository.rs` | content-addressed objects, branch heads, candidate heads | commit, compare-and-swap, reconcile candidates | divergent writers without a swap |
| local store `local_store.rs` | files, a lock file per head | put by rename, swap under the lock, compact | stale locks, leftover temporary files, lost renames |
| mirrored volume `mirrored.rs`, browser storage `storage.rs` | a synchronous map and a log of mutations not yet in IndexedDB | put, delete, swap, pending, acknowledge | new values while old ones are in flight |
| packs, flat and OpenDAL stores | files | put, get, list | compaction against readers |

*Correct means:* whatever a head names is stored; a swap that said yes is the only
one for its expected head; what was acknowledged by the mirror is exactly what the
backing store has.

### 1.4 Engine and app

| part | state | nature |
|---|---|---|
| merge kernel `opendoc-merge` | none: operations in, document out | pure: causal order, text sequence, tables, inverses for undo |
| recovery journal `opendoc-app/src/recovery_journal.rs` | segments per edit session | crash recovery of unsaved work |
| save, versions, signing (`opendoc-app`) | the open document and its repository | sequential |
| spreadsheet engine | workbook, dependency graph | sequential; recalculation order |
| core model, format, layout, render, PDF, import, citations, API | none over time | pure functions and parsing |

`PROJECT.json` lists every part with its status, and under "hazards" what in this
code is hard to test, at the line where it bites, with the properties that cover it
or the reason none does yet.

## 2 Modules

    AbstractLog                        what the durable log promises
        ^ refined by (ImplementsPromise)
    DocumentLog  <-- DocumentLogProofs (theorems)
        ^ MCDocumentLog                DocumentLog.cfg
    Collab  <-- CollabProofs (theorems)
        |                              takes one append as atomic, as DocumentLog shows
        ^ MCCollab                     Collab.cfg CollabLive.cfg PendingDrains.cfg TwoTabs.cfg
    Grants  <-- GrantsProofs (theorems; takes the thread's batches as they come)
        ^ MCGrants                     Grants.cfg GrantsStale.cfg
    Registry  <-- RegistryProofs (theorems)
        ^ MCRegistry                   Registry.cfg
    AbstractVolume                     what the browser's durable store promises
        ^ refined by (WholeCopies)
    MirroredVolume  <-- MirroredVolumeProofs (theorems)
        ^ MCMirroredVolume             MirroredVolume.cfg
    LocalSession  <-- LocalSessionProofs (theorems)
        |                              one person: edits, undo, saves, the recovery journal
        ^ MCLocalSession               LocalSession.cfg RecoveredSession.cfg
    TextMerge  <-- TextMergeProofs  <-- TextMergeEditProofs (theorems)
        |                              what Collab's replicas make of the operations they hold
        ^ MCTextMerge                  TextMerge.cfg

### 2.1 DocumentLog: from a batch to a head

`log.rs` over `repository.rs`. Several services share one store. The store is
`snapshots`, `segments`, `manifests` (what has been put) and `head`; per service,
`mem` is its `DocumentLog` (operations, head, `commit_seq`) or `None`, and `pend`
is the call it is in the middle of. `acked` remembers what callers were told.

| action | code |
|---|---|
| `BeginCreate`, `BeginAppend` | `create`, `append` up to the first put |
| `WriteSnapshot`, `WriteSegment`, `WriteManifest`, `WriteRecord` | the four puts of `commit`, in its order; genesis has no segment |
| `Swap` | `compare_and_swap_head`: yes, or a conflict and no retry |
| `Advance` | memory is assigned and the caller is answered |
| `BeginLoad`, `FinishLoad` | `load`: the head, then the walk to genesis and the density check |
| `StoreError`, `Crash` | any call fails before it takes effect; the process dies, or its thread is stopped |

*Abstraction.* Hashes are collision-free and a manifest names its parent, so a
manifest hash is modelled as the history behind it. Immutable objects are read in
one step. The local store's swap never reports an error after its rename, so a
failed call has no effect; an operation batch is a dense run of one actor, which is
what `validate_batch` lets through. The chain limit of `load` is not modelled.

`AbstractLog` is the promise in four actions (`Create`, `Commit`, `Observe`,
`Forget`): one history that only grows, extended only by a service that has all of
it. The refinement maps `head` to the history and each service's operations to its
view.

### 2.2 Collab: editors, sockets and the document thread

The state is the log (`commits`), the service's view of each tab's socket (`conn`),
the frames on it (`up`, `down`) and on the tab's previous socket (`old`), and per
tab the `driver`: phase, replica, both watermarks, the awaited acknowledgement, the
blocked reason, the refusal count and `commit_seq`. `authored` and `faults` are
history.

| action | code |
|---|---|
| `Join` | `document.rs` `join`, with the welcome |
| `Submit`, `SubmitOld` | `submit`, `validate_batch` and the fanout in `handle`, for a frame of the current or previous socket; the outcomes are `Commit`, `Replay`, `Refuse`, `StoreFailure` |
| `Leave` | the previous socket ends with frames unread |
| `Author` | a local edit minted in its causal context, connected or not |
| `Begin` | `begin` |
| `Ingest` | `ingest`: `Welcome`, `Acknowledge`, `Refused`, `Apply` |
| `Outbox` | one tick of `outbox`: the timer, the cross-checks, at most `FramesPerTick` chunks |
| `DropDoomed`, `Drop` | `socket_closed`, because the driver asked or the service is gone, or because the network failed |
| `Restart` | the service stops and starts; the log survives |

*Abstraction.* A payload is the tab that typed it: enough for "same id, different
bytes". The Lamport timestamp is a function of the clock. A refusal's code is
"conflict" for every failed validation and "storage" for a failed append; the
driver looks at neither. Merging never fails. Presence, roles, the caret and
annotation-only batches are left out. The acknowledgement timer of forty ticks may
run out at any tick at which an answer is awaited. The driver is the browser's; the
desktop's follows the same protocol in another shape and is not claimed.

### 2.3 Grants: permissions while they change

The durable table (`stored`), the process's copy (`cache`), and per thread (request
handlers and the document thread) the `call` in progress. The cache's lock is not
held across the store read that fills it, so `Probe`, `Fetch` and `Fill` are three
steps of any thread that authorizes.

| action | code |
|---|---|
| `Probe`, `Fetch`, `Fill` | `grants()` in `permission.rs` |
| `BeginOpen`, `DecideOpen` | `open_document` for a socket, which sends the join |
| `BeginSet`, `DecideSet`, `Load`, `Put`/`PutFails`, `Publish`, `Notify` | `set_grant` and `set_role`, under the write lock; durable first, cache second, then the document thread is told |
| `SendSubmit`, `Take` | a socket's next batch; the thread takes its next request |
| `DecideJoin`/`Connect`, `DecideSubmit`/`AppendBatch`, `DecideEnforce` | `join`, `submit`, `enforce_grants` |
| `Restart` | the process restarts with an empty cache |

*Abstraction.* A role is its rank and an action the rank it needs. A subject has
one connection. `enforce_grants` reads the table once for all connections, as they
are all answered by the one read-through. The audit trail and the sessions closed
on revocation are left out. `effect`, `straddled` and `late` are history variables:
the last role made durable, whether a fill was overtaken by a write, and whether a
request was taken up after it had stopped being allowed.

### 2.4 Registry: the document threads of one process

The registry behind its mutex (`registry`: `open`, `retiring`, and which documents
are `warm`, i.e. used within the idle window), the operating system's threads and
the document in whose loop each one is (`serves`), per request handler the request
in progress (`task`, with the handle it holds), what is durable (`creator`, `owned`,
`charged`), the uuids that were ever returned to somebody (`known`), and `faults`.

| action | code |
|---|---|
| `HandOut`, `Start`, `Refuse` | `document()`: the document runs; it is started; it is refused or fails. Each includes the sweep of `reclaim_before_admitting` |
| `Want`, `AskAgain`, `GiveUp`, `Release` | a request names a document, repeats a refused lookup or not, drops its handle |
| `Admit`, `Charge`, `Genesis`, `SeedOwner`, `Spawn`, `Register` | `create_document`, a step per call it makes; `CreateFails` is its `?` |
| `Exit` | a thread leaves its loop once no handle is left |
| `Cool`, `Sweep` | the idle window of a document passes; `reclaim_idle_documents` and `stop_idle_documents` |
| `Restart` | the process stops and starts; what is durable stays |

*Abstraction.* Whatever happens under the registry's mutex is one step. A sweep
below the limit may be due or not, and of the documents it stops any may have
threads that outlive the deadline, so every duration is covered. Which fresh uuid or
idle thread is taken makes no difference and is a `CHOOSE`. Only uuids that were
returned to somebody are asked for: the service has no listing. A load or an append
that fails is `Fault`; what they do is DocumentLog's, who may open is Grants'.

`create_document` starts the thread before it takes the mutex, so for a moment the
document runs unregistered, which `service.rs` and `document.rs` elsewhere say never
happens. `OneThreadPerDocument` holds regardless, because nobody can ask for that
uuid yet: `known` is what the proof rests on.

### 2.5 MirroredVolume: storage in the browser

`mirrored.rs` and the driver `opendoc-wasm/src/storage.rs`. Per tab: `phase` (how far
`storage_ready` has come), the `volume` in memory (entries, the last mutation per key
that is not acknowledged, `seq`, `durable_seq`, whether it still counts mutations),
the save it is in the middle of, the recovery segment it writes, and the `flush` in
progress. Shared: the `owner` of the Web Lock and what is `durable` in IndexedDB.

| action | code |
|---|---|
| `OpenAsOwner`, `OpenAndWait`, `OpenInMemory`, `GrantLock` | `ready` and `wait_to_become_owner`: the lock is free, taken, absent, granted later |
| `Hydrate`, `FailHydrate`, `OverCap` | the store is read and adopted under what is pending; it cannot be read; the queue of a tab without the store grew too long |
| `BeginSave`, `WriteManifest`, `SwapHead` | the snapshot, the manifest and the head of a save |
| `BeginSegment`, `AppendFrame`, `RemoveSegment` | the recovery journal's store on this volume |
| `TakeBatch`, `Commit`, `Abort`, `Acknowledge`, `EndFlush` | `flush_batch` and the loop of `schedule_flush` |
| `Close` | the tab goes at any step; an open transaction is applied whole or not at all |

`AbstractVolume` is the promise: durable storage is replaced only by a whole copy of
its owner's memory as it was at one moment. The refinement maps `Memory` to the
owner's entries and `Copy` to the batch in the transaction.

*Abstraction.* Saves may interleave with a flush at every call, which is more than a
single-threaded page does. Runtimes without Web Locks, where two tabs overwrite each
other, are documented to do so and left out, and so are the commands of a tab that
never gets a store. A promoted tab's head outranks the departed tab's (documented),
as do its other pending writes. A tab past the cap that is granted the lock keeps it;
one past the cap between the two awaits of `promote_to_owner` becomes persistent
without mirroring, which `Mirrored` takes into account.

### 2.6 LocalSession: undo, saves and crash recovery

One person, one document and no service. `app` is what a crash takes: the document,
its journal of envelopes, how much of it is saved, the manifest the session builds
on, the numbers of the next envelope (`next`) and of the next operation (`nextOp`), the
undo and redo stacks, and `inverses`, the map `operation_inverses`. `cursor`, `offers`
and `segments` are the recovery journal's state and store, `repo` the commits behind the
head, `pc` how far `dispatch_command` has come.

| action | code |
|---|---|
| `Edit` | an undoable command: the checkpoint and the minted operation |
| `Step` | `step_edit_history` for undo and redo: by inverse operations where `operation_inverses` has one for every operation of the step, else by snapshot with a marker in the journal |
| `Save`, `SaveHalf` | `save_to_repository_inner`: accepted and committed; committed, and then the lookup record fails |
| `Open`, `OpenHalf`, `Close` | the document is replaced or closed, with the loss accepted; `OpenHalf` is an open whose reads fail after the document, the journal and the counters have been replaced |
| `SyncAppend`, `SyncBegin`, `SyncReplace`, `SyncRemove`, `SyncNothing` | `sync_recovery_journal` after each command; each may fail (`Warn`) |
| `Recover`, `RecoverHalf`, `Discard` | what the user does with an offered segment |
| `Restart` | the process dies between any two store calls; the next one has a fresh actor |

*Numbers and inverses.* An envelope has a number (`seq`), and the operation on the
document that it carries has another (`op`), from a counter of its own; a cell edit or the
marker of an undo by snapshot carries none. Both counters go back with a snapshot; the map
of inverses does not. `Minted` is `push_document_operation`: it drops the entries at and
above the number it mints (`Captured`, `discard_stale_inverses`) and enters the inverse of
each operation, and `Reversible` and `InverseOf` look them up by number. Both kinds of
identity are checked when a journal is saved (`Unique`, `validate_operation_envelopes`).

*Abstraction.* A document is the set of edits in effect. An edit has an inverse
operation, or is of the document and has none ("fixed"), or is of the workbook. The kind
of an envelope is its payload's; all operations on the document are of one kind here, so
identities tell apart less than the code's. Each edit is a step of its own: coalescing is
TextMerge's, and a refused command changes nothing here. An open that fails on a snapshot
it can read but not convert is left out. Signatures, blobs, remote operations, candidate
merges, `new_document` in a running session and other processes on the same repository are
left out. A torn frame counts as not written.

History variables and fields say what the properties excuse, each a case of section 5 and
nothing wider: `rest` is the work of the last finished command, which must not be lost;
`blame`, the four ways a lone session's save can still be refused; `behind` of a commit,
that the session had yet to mint numbers that the history it saved on already holds;
`stray` of the cursor, that a failed recovery or open left it on the segment of another
document; `lost`, that an edit without an inverse was undone; `reused`, that an operation
was numbered like one that a stack still holds; `half`, that the stacks are of the document
before an open that failed.

### 2.7 TextMerge: concurrent text and its undo

One run of text and several replicas in a session. A replica is what it holds
(`known`); its text is `Merged(known)`. `history` is its undo and redo stacks,
`typing` the gesture that may go on.

| definition | code |
|---|---|
| `CausalOrder` | `causal_order`: again and again the first operation that is ready |
| `Visible`, `Landing`, `Edited`, `Resolved` | `resolve_run_atoms` and `resolve_text_sequence` |
| `ResetIn`, `EditsAfter`, `StartOf`, `Merge` | `collect_text_run_edits`, `apply_text_run_edits`, `run_base_text`: a write of the whole run discards the edits ranked before it |
| `Inverted` | `invert_text_operations`: what an undo submits, deletes of `OwnRanges` and then restores at `GapsBackwards` |
| `Input`, `Rewrite`, `Step` | typing (delete, insert or both), `update_inline_text`, undo and redo, each minted in its causal context as `apply_batch` does |
| `Fail` | an undoable command that is refused: its checkpoint has closed the step and the coalescing key is still there, so typing that goes on with the gesture belongs to no step |
| `Deliver` | `apply_remote_operations`, in an order the service can send |

*Abstraction.* Characters are labels. All operations carry a context (files from
before contexts are left out) and none is delivered twice with another payload, which
the log refuses. Structural operations, marks and suggestions are left out. An offset
is one the author can see.

`Landing` steps over later concurrent inserts. In the order the merge feeds edits no
such insert is there yet, so only another order exercises it: that is what
`AnyOrderConverges` compares, over every linear extension.

## 3 Runs

| run | module, cfg | states | asks | result |
|---|---|---|---|---|
| `document_log` | MCDocumentLog, DocumentLog.cfg | 0.76 M | does every interleaving of two services, with crashes and failed calls, keep the head loadable, the acknowledged commits, the served state and `commit_seq`, and refine `AbstractLog`? | holds |
| `collab` | MCCollab, Collab.cfg | 0.67 M | with an actor per tab, through drops, restarts, failed appends, early timeouts and old sockets: is the log sound, nothing lost, nothing missed, nobody refused without cause? | holds |
| `collab_live` | MCCollab, CollabLive.cfg | 16 K | is what was typed logged in the end, and do replicas converge, with two drops and a failed append? | holds |
| `pending_drains` | MCCollab, PendingDrains.cfg | small | do resends stop once everything is logged? | violated (5.1) |
| `two_tabs` | MCCollab, TwoTabs.cfg | small | is nothing lost when two tabs share an actor? | violated (5.2) |
| `grants` | MCGrants, Grants.cfg | 4.6 M | does an owner always remain, and are revocation, durability of grants and closing of connections right in every interleaving in which no cache fill is overtaken? | holds |
| `grants_stale` | MCGrants, GrantsStale.cfg | – | and without that condition? | violated (5.3) |
| `registry` | MCRegistry, Registry.cfg | 0.15 M | with lookups, creations and sweeps at once, late threads, failed steps and a restart: one thread per document, held handles current, limit and quota kept, no ownerless document known, refusals that lift? | holds |
| `mirrored_volume` | MCMirroredVolume, MirroredVolume.cfg | 0.35 M | with two tabs, saves and recovery frames during flushes, aborted transactions and tabs that go: does a durable head always lead somewhere, is memory what is durable with what is pending, and is durable storage a whole copy (`AbstractVolume`) that catches up? | holds |
| `local_session` | MCLocalSession, LocalSession.cfg | 1.6 M | through edits, undo, saves, failed store calls, a crash and a recovery: is finished work never lost, the recovery segment a replay of memory, the dirty flag right, no envelope and no operation committed twice, a lone save accepted? And do undo and redo of three edits of any kind give back what was there, while the map of inverses stays and the numbers go back? | holds |
| `recovered_session` | MCLocalSession, RecoveredSession.cfg | small | does recovered work count as unsaved? | violated (5.4) |
| `text_merge` | MCTextMerge, TextMerge.cfg | 0.11 M | do replicas that type, delete, rewrite, undo and redo concurrently get one text in any order, unsplit, where each author saw it, and does undo take back its own only? | holds |

Each property of a passing run has a mutant beside the definition it changes (a
dropped guard, an ignored answer, an off-by-one): with the mutant in place the run
finds the property violated.

### 3.1 Bounds, and why they are enough

*DocumentLog.* `MaxCommits` = 2 commits after genesis: the chain has a first, a
middle and a last manifest, and each service can extend what the other wrote.
`MaxFaults` = 2 crashes or failed calls: both services, or one twice. `MaxSeq` = 2
operations per actor: a batch of one, of two, and a continuation. The theorems of
section 4 hold without any of these bounds.

*Collab.* `MaxAuthored` = 2 operations over all tabs, with `SubmitLimit` 2: two
batches of one in flight, or one batch of two; every property is about the order of
two operations. `MaxDrops` (sockets lost and restarts together) is 1 for safety and
2 for liveness. `MaxStoreFailures` = 2 = `MaxRefusalRecoveries`, so that a session
can be ended by refusals; the code's limit is 3. `MaxInFlight` bounds the frames of
one tab on the wire when it sends: it stops the timer from filling the wire with
copies, and 3 leaves a copy behind an original with an answer between. At most one
old socket of a tab lingers at a time. `FramesPerTick` is 2 for the code's 8.

*Grants.* Two subjects, two handlers and the document thread; `GrantRoles` none,
viewer and owner; batches need editor. `MaxSets` = 2 so that two changes race or
follow each other, one `MaxRestarts` for a cold cache, one `MaxFaults` for a failed
write, and a `MaxMailbox` of 2 requests.

*Registry.* Three documents against `MaxOpen` = 2, so that one must go before
another comes, and one thread more than there are places, so that there is always
one for a created document until it is registered. Two handlers: a lookup against a
creation, a lookup against a holder, two creations. `MaxCreated` = 3, one subject,
and one fault (a failed store call or a restart) at any point.

*MirroredVolume.* Two tabs: an owner and one that waits and is promoted. `MaxSeq` = 4
mutations of a page: a save is three, so one more can precede or follow it while it
flushes. Three manifests over two snapshots, so that two saves share an object that
`put_if_absent` finds. One recovery session of two frames (`MaxFrame` 1).

*LocalSession.* `BoundedSpec` trades the bounds for one another (`FailuresOrEdits`). With
two edits, everything else happens: two saves, so that one can be undone past and followed by
another; two processes: a crash and what the next one finds; three segments: the one being
replaced, its successor and one on offer; one failed store call anywhere. The next number
goes to 5, 4 once there has been a save and 3 after two. Or a third edit is made, with
numbers to 5, one save, one process and no failed call: an edit on either side of one that is
taken back by snapshot, which is what it takes for a number to be minted twice while a stack
holds it. Run once, without a violation: two edits with numbers to 4 whatever was saved
(5.5 M states), three edits with numbers to 5 and two processes (1.3 M), and, for undo
alone, four edits with numbers to 7 in one process. The theorems of section 4 hold without
any of these bounds.

*TextMerge.* Two replicas, a run of two characters, inserts of two (so that one can be
split) and `MaxOps` = 3 operations: two concurrent edits and an undo or an answer, or
an edit, its undo and its redo. Three operations are also the least that
`LandsWhereTyped` can need (a base, a stale edit, a write). Larger instances that were
run once: three replicas over one character (0.35 M states), one replica and four
operations; both hold.

MirroredVolume is checked for deadlock: a tab can always open or go. The other runs
have `CHECK_DEADLOCK FALSE`: with every bounded counter used up and nobody
typing, the system really has nothing left to do.

Symmetry is used for services, actors, tabs and handlers in runs of safety
properties and of `ImplementsPromise`, a safety property whose refinement treats
services and actors alike. The liveness runs use none. MirroredVolume, LocalSession and TextMerge use none
(manifests form a chain, and actors are ordered).

### 3.2 Fairness

`Fairness` in Collab is weak fairness of: opening a socket (the page's retry
timer), the service registering it and reading submit frames (its threads), reading
server frames and ticking the outbox (the page's pump, every tick while the page is
open), ending the old socket, and dropping a socket the driver wants gone. Typing,
network loss, restarts and store failures have none. Drops and store failures are
bounded: under endless drops nothing can be promised.

In Registry it is weak fairness of each handler's lookups, repeated lookups and
creation steps (a request runs to its end), of a thread leaving its loop once its
inbox is closed, and of idle windows passing. Sockets need not end, nobody need
create or sweep, and threads need not exit before a deadline.

In MirroredVolume it is weak fairness, per tab, of a save that has begun (a command
runs to its end), of the flush loop's next batch, of a transaction ending one way or
the other, and of the page hearing of it. Tabs need not open, and the lock need not be
granted. `EventuallyDurable` therefore ends in durability, or in a failed transaction,
after which the next command tries again.

## 4 What is proved

`DocumentLogProofs` proves, with TLAPS, for any sets of services, actors and
batches and any bounds, from the assumptions named in DocumentLog
(`BatchesAssumption`, `BoundsAssumption`, and `NoneAssumption`: `None` is neither a
history nor a log):

| theorem | statement |
|---|---|
| `TypeCorrect` | `Spec => []TypeOK` |
| `HeadAlwaysLoadable` | `Spec => []HeadIsLoadable` |
| `AcknowledgedNeverLost` | `Spec => []AcknowledgedSurvives` |
| `ServedAlwaysCommitted` | `Spec => []ServedIsCommitted` |
| `CommitSeqAlwaysNamesHistory` | `Spec => []CommitSeqNamesHistory` |
| `Implements` | `Spec => ImplementsPromise` |

*The argument.* None of the safety invariants is inductive alone: whether a swap
may move the head depends on what the call in progress has already put. The
inductive invariant `IInv` is `TypeOK`, `HeadIsLoadable`, `AcknowledgedSurvives`,
and for every service

- `MemoryOK`: what it serves is the history it names as head, `commit_seq` is its
  length, and it is a prefix of the branch head;
- `CallOK`: a commit in progress targets its expected head plus one batch that
  continues the actor's numbering (`BaseOK`), and every object its phase has passed
  is stored (`ObjectsOK`); a load in progress works from a prefix of the head.

When `Swap` succeeds, the expected head *is* the head, so it is loadable, and
`AppendLoadable` makes its extension loadable from `BaseOK` and `ObjectsOK`.
Prefixes only lengthen (`AppendPrefix`, `PrefixOrder`), which keeps everything said
about other services. Two services with equal `commit_seq` hold prefixes of one
head with equal length, which are equal (`PrefixDetermined`). For `Implements`,
`Swap` is `Create` or `Commit`, `Advance` and `FinishLoad` are `Observe`, `Crash` is
`Forget`, and every other action stutters.

`RegistryProofs` proves, for any sets of documents, threads, handlers and subjects
and any limits, from `RegistryAssumption` (`None` is no document, thread or subject;
the limits are natural numbers, `MaxOpen` positive) and, where it counts,
`FiniteAssumption` (there are finitely many uuids and request handlers):

| theorem | statement |
|---|---|
| `TypeCorrect` | `Spec => []TypeOK` |
| `OneThreadAlways` | `Spec => []OneThreadPerDocument` |
| `HeldAlwaysCurrent` | `Spec => []HeldIsCurrent` |
| `KnownAlwaysOwned` | `Spec => []KnownIsOwned` |
| `LimitAlwaysKept` | `Spec => []WithinLimit` |
| `QuotaAlwaysKept` | `Spec => []QuotaIsKept` |

*The argument.* The inductive invariant is `TypeOK`, `KnownIsOwned`, and

- `Sound(registry, serves)`: an open document is served by its registered thread and
  is not retiring; a retiring uuid's thread serves it or has exited; a thread in a
  loop is open, retiring, or of a document nobody was told of; no two threads share
  a document; what is held is open. It takes the registry and the threads as
  parameters because every lookup sweeps *before* it goes on: `StopSound` and
  `ReclaimSound` show it of the state in the middle of the step, and the rest of the
  step starts from there;
- `TaskOK` and `Apart`: a creation past its genesis has a document that nobody else
  has or knows, no thread serves it before `Spawn`, and its own does after;
- `ServedExist`: only documents with a genesis commit have threads, so a new uuid has
  none.

Most steps change no more than what a sweep stops and the handler's own request; one
lemma (`SettledStep`) serves them all.

`WithinLimit` is inductive with `IInv`: stopping documents moves them from open to
retiring or frees their places, so no sweep lengthens the registry (`StopLength`),
and a registration adds one to a registry that was not full. `QuotaIsKept` is not:
`ChargedFirst` adds the creations that were charged and have no genesis commit yet.

`LimitAlwaysKept` has no run of its own: `Full`, which the runs exercise, is what it
rests on, and `RefusalLifts` is the run's property about the limit.

`MirroredVolumeProofs` proves, for any sets of tabs, snapshots, manifests and recovery
sessions and any bounds, from `VolumeAssumption` (the kinds of keys are disjoint,
`None` is no key, tab or session, a manifest names a snapshot and at most one parent,
the bounds are natural numbers) and `StoreAssumption` (`None` is not a store):

| theorem | statement |
|---|---|
| `TypeCorrect` | `Spec => []TypeOK` |
| `MemoryAlwaysDurablePlusPending` | `Spec => []MemoryIsDurablePlusPending` |
| `HeadNeverDangles` | `Spec => []NoDanglingHead` |
| `CopiesAreWhole` | `Spec => WholeCopies` |

*The argument.* The first two rest on an invariant with five parts for each tab:

- `PhaseOK`: whoever reads or writes the store holds the lock, and only a persistent
  tab flushes or has a segment;
- `VolumeOK`: what is pending is numbered beyond `durableSeq`, up to `seq`, and is the
  value in memory;
- `OwnOnly`: before the store is adopted, a volume holds exactly what it has pending,
  so adopting fills only gaps and no deletion is undone;
- `Agrees`: afterwards, what is not pending is durable;
- `CopyOK`: a batch is memory, but for what was written under a later number; once
  committed it is the durable store, until it is acknowledged.

Every call on a volume is `Grown`: the keys it changes are pending under new numbers.
One lemma (`Mutated`) serves all commands from that. That there is a last number to
flush up to is `Greatest`, proved from the library's well-founded ordering of finite
sets. `HeadNeverDangles` needs more: `SInv` says of the durable store, of *every*
tab's memory and of every batch that head and manifests lead to what is there
(`Sound`), and of a save that the objects its next call names are in memory
(`SaveOK`). A batch is the whole memory (`TakenWhole`), which is why it is sound
although a save may be half done; two sound stores adopted into one are sound. For
`CopiesAreWhole`, the lock gives the `CHOOSE`s in `Memory` and `Copy` one candidate
(`ViewOf`); `Hydrate` is `Adopt`, the commands are `Mutate`, `TakeBatch` is `Begin`,
`Commit` and `Abort` are `Finish`, `Close` is `Leave`, and the rest stutters.

`GrantsProofs` proves, for any sets of subjects, handlers and roles to grant and any
bounds, from `GrantsAssumption` (the creator is a subject, the document thread is no
handler, `Cold` is no table):

| theorem | statement |
|---|---|
| `TypeCorrect` | `Spec => []TypeOK` |
| `OwnerAlwaysRemains` | `Spec => []OwnerRemains` |
| `SafeAlwaysUnlessStraddled` | `Spec => []SafeUnlessStraddled` |

*The argument.* `IInv` is `TypeOK` with `OneWriter` (the write lock), `Warm` (whoever
decides or loads has filled the cache), `Owned` (every table that is durable, cached or
on its way to either has an owner), `PublishesStored` (what is published is what is
durable) and `JoinsRead` (a join needs `Viewer`). A stale cache cannot break `Owned`:
an old table had an owner too, and `Load` refuses a change of it that leaves none. That
is why `OwnerAlwaysRemains` holds without any condition.

`SInv` is what holds as long as no fill was overtaken. `Fresh` says that the cache is
the durable table but for a role that is being published; the lock then makes them equal
at `Load`, so what is written is the durable table with one change (`PutsOneChange`) and
no grant is lost. `DocumentKnows` says that the table the document thread decides by is
the durable one, unless a change is publishing or the word of it is queued (`Pending`);
`Take` turns the last such word into an enforcement, hence `Reading`. `LateIsRefused`
says of a request that was not allowed when it was taken up that neither the durable
table, nor the cache, nor the table it decides by allows it, until a change does.
`Fill` is the one step that needs the condition: it may put an old table into the cache
after `Publish` has put the new one there, which is what `grants_stale` shows.

`CollabProofs` proves, for any sets of tabs and actors and any limits and bounds, from
`CollabAssumption` (every tab has an actor; `SUBMIT_LIMIT` and the other limits are
positive, the bounds natural numbers):

| theorem | statement |
|---|---|
| `TypeCorrect` | `Spec => []TypeOK` |
| `LogAlwaysSound` | `Spec => []LogIsSound` |

and, from `OwnActors` as well (no two tabs share an actor):

| theorem | statement |
|---|---|
| `NothingTypedIsLost` | `OwnActors => (Spec => []TypedIsNeverLost)` |
| `MarksAreHonest` | `OwnActors => (Spec => []WatermarksAreHonest)` |
| `NoCommitIsMissed` | `OwnActors => (Spec => []JoinedMissesNothing)` |
| `OnlyTheStoreRefuses` | `OwnActors => (Spec => []RefusalsAreStoreFailures)` |

The identity service gives every subject one actor, so `OwnActors` says that nobody has
the document open twice at a time. The code allows it, and then the theorems' first
property is false: `two_tabs` finds it violated (5.2). The soundness of the log does
not depend on it, which is why `LogAlwaysSound` is without the hypothesis.

*The argument.* `IInv` is `TypeOK`, `LogIsSound`, `LogIsDense` (at every commit, every
actor's operations are numbered from 1 without a gap, so their count is the highest
number, which is what `validate_batch` compares with) and `TabOK` for each tab: batches
on a socket are runs of one author in order, frames name commits that exist, and
replica and typed operations are finite. An append keeps `LogIsDense` because what is
fresh of a valid batch is a tail of it that starts right after the log's count
(`Fresh`).

`OInv` says seven things of each tab, none of which is inductive without the others:

- `HoldsOwn`: the replica has exactly what the tab typed and otherwise only what is
  logged; the log has of this actor only what the tab typed; batches on the sockets,
  the abandoned one too, are the tab's own. This is where two tabs of one actor fail;
- `ContextOK`: an operation observed the tab's own before it and, of others, what is
  logged, hence a batch without a gap is valid whenever it is read (`ValidWithoutGap`);
- `MarksOK`: acknowledged, or named by an acknowledgement on its way, is logged;
- `PhaseOK`: nothing precedes the welcome, and nothing is submitted before it;
- `ToldInOrder`: every logged operation is held or in a frame on its way, and a frame
  that names a commit follows all that was committed before. `WatermarksAreHonest`
  needs the order and not just the arrival: `commit_seq` is raised by one frame;
- `NoGap`: while nothing was refused, what precedes a batch on the socket is logged or
  further ahead on that socket, and so is what `submitted_through` counts;
- `RefusalsOK`: a "conflict" on its way follows a "storage" one, or the driver is
  already blocked by it.

A submission is one step that touches every socket: it appends, answers its author and
sends the commit to all. What it sends to whom is stated once (`Told`, `DownGrows`), and
`HoldsOwn`, `ToldInOrder`, `NoGap` and `RefusalsOK` follow from that for the author and
for the others alike (`ServedTold` and its siblings). TLC checked `IInv` and `OInv` on
the instance of `Collab.cfg` before they were proved.

`LocalSessionProofs` proves, for any bounds, from `LocalSessionAssumption` (the bounds
are natural numbers, there is at least one process, and `None` is no number, segment or
cursor):

| theorem | statement |
|---|---|
| `TypeCorrect` | `Spec => []TypeOK` |
| `CleanIsSaved` | `Spec => []CleanMeansSaved` |
| `IdentitiesCommittedOnce` | `Spec => []EnvelopesCommittedOnce`, the half of `CommittedOnce` about envelopes |
| `LoneSavesAreAccepted` | `Spec => [](UniqueOperations(app.journal) => LoneSaveIsAccepted)` |
| `SegmentIsFaithful` | `Spec => []ShadowReplays` |
| `UnsavedWorkSurvives` | `Spec => []UnsavedSurvives` |
| `UndoGivesBack` | `Spec => []UndoAndRedoRestore` |

*The numbering* is that of the envelopes. Numbers go back: an undo by snapshot restores the
counter with the journal it belongs to, and a recovery takes it from a segment. So nothing
can be said of a counter that only grows. What holds is an order on identities, by actor and then by
number (`Before`), and every process has a higher actor than the last:

- `Numbered`, of the session and of every checkpoint on its two stacks, since a step may
  make any of them the session: nothing in the journal is as high as the next number;
  the part that is not saved is ascending; without a `behind` commit no identity is in
  it twice; and if it names the head's manifest, its unsaved part and its next number are
  above all of the head's history. A save that is accepted makes the last clause false of
  every checkpoint at once, because none of them names the new head;
- `SegmentNumbered`, the same of every recovery segment, of what it notes and of its
  frames, since a recovery makes it the session;
- `HistoryNumbered`: the head's history has no identity twice and no actor to come;
- `CursorCovers` and `PreviousIsAnother`: the cursor covers what its segment has, the
  segment is not on offer, and it is not the one that goes;
- `BlamelessIsAtHead`: without blame the session names the head's manifest.

`MintedNumbered` (minting keeps the order), `SavedNumbering` (an accepted save, with a
manifest or without), `RecoveredNumbering` and `AppendedNumbering` (a segment that grows
by what the cursor does not cover) carry it; there is one lemma per action. The highest
number in a journal exists by the library's well-founded order on finite sets
(`RebasedProps`). The numbers of operations are counted likewise, but the markers and cell
edits between them carry none, so the argument does not carry over as it stands: that no
operation is committed twice (the other half of `CommittedOnce`) is model-checked, and
`LoneSavesAreAccepted` has it for its journal as a hypothesis.

*The line.* A segment is taken for current when the identities it covers are those in the
journal (`recovery_cursor_is_current`), and an undo by snapshot mints numbers again that
the segment may have seen. That the test is sound is a fact about all versions the session
can come back to, its own and those of its checkpoints (`Line`):

- `Coherent`: all begin with the same envelopes: none for a session that never saved, what
  was opened for one, the head's for one whose open has failed and left it without a
  manifest (`SameStart`). If one of them has the identities of another's whole journal, it
  has really grown from it, by those envelopes (`Agrees`). Two versions saved as different commits
  have the saved part in common (`SavedTogether`), and that part is in the head's history;
- `Leads`: no version is further on than the session;
- `Settled`: no version of the line goes on from a checkpoint of the undo stack with an
  undo, or from one of the redo stack with a redo, unless the checkpoint's step was empty,
  and an empty step is never undone by snapshot. So a marker minted on a checkpoint never makes up an identity that another
  version already has there (`Springs`, `SpringTurns`): this is what the kind of an envelope
  in its identity is for. Numbers alone would not do, since the next numbers along a stack
  are not monotonic.

`EditLined`, `StepLined` and `SaveLined` carry the line through the commands that grow it.
After an open that failed under stacks that are not empty (`half`) there is no line any
more: the checkpoints are of another document.

*The shadow.* `ShadowInv` adds what is owed inside a dispatch: before the sync, if the
segment is taken for current it replays, with the envelopes it lacks appended, to the
session (`CurrentShadows`, from the line); once it is replaced, the new one does alone.
`RestInv` says what keeps the finished work: the head, or, while a document is open, the
segment of the cursor. It is needed because a sync removes segments: it must not remove
the only one that keeps the work, and with nothing open there must be no cursor on it.

*Undo and redo.* `UndoInv` says of every checkpoint on both stacks that its step can be
retraced (`Retraces`): from it to what came after, the checkpoint above or the session, the
journal grew by a window. Either every operation in it has an inverse in the map and that
one is its own (`Held`), and the window leads from the one content to the other and its
inverse back; or one of them has none there, and going back loses an edit without an
inverse, which is what `lost` records. The second half is as important as the first: a
number whose entry was pruned and not minted again must not look like a step that never
had an inverse.

The map is not part of what a snapshot restores, so what the stacks need of it has to
survive minting at a number that went back. `Captured` changes the entries at and above the
next number only, and `Reuses` asks just before whether any journal on a stack has an
operation of this actor there. If none has, no step on a stack loses or changes an inverse
(`Under`); if one has, `reused` records it. The envelopes of an undo are the inverse of the
window and their inverse is the window (`Reversal`), so the step it pushes on the other
stack can be retraced as well. An edit can be retraced because it is new (`MadeInv`: no
journal, segment, commit or inverse holds an edit still to be made), so taking it out again
is exact. `DocInv` says that the inverses touch the document alone, not the workbook.

`UndoGivesBack` excuses three cases: `lost`, `reused` and `half`. Each is a case of section 5,
and without `reused` the property is false.

TLC checked all of this, with the quantifiers over sequences and numbers bounded, on the
instances with two edits and with three that section 3 names, before it was proved.

`TextMergeProofs` proves, for any number of replicas, any length of the base text and of
gestures and any number of operations, from `TextMergeAssumption` (these are natural
numbers, and there is at least one replica):

| theorem | statement |
|---|---|
| `TypeCorrect` | `Spec => []TypeOK` |
| `RunsAreNeverSplit` | `Spec => []NothingIsSplit` |
| `EveryOrderConverges` | `Spec => []AnyOrderConverges` |

*The argument.* `NothingIsSplit` speaks of the merge of all operations, so first of what
`causal_order` makes of them. The invariant `CausalOK` says that identities are distinct,
a context names operations that were minted (`ContextsExist`), every replica holds all it
minted and, with an operation, all that this one observes. From that, a new operation
observes exactly what its replica holds (`MintedAnew`): so observing is transitive and goes
with the Lamport clock (`AddedInOrder`), and some operation is always ready. Hence
`CausalOrderProps`: the causal order has each operation once, behind what it observes.

The merge is then followed edit by edit (`MergeProps`). Everything that is there is
ranked before the edit that comes, so nothing is stepped over and an insert lands right
behind an atom its author saw (`LandingProps`). Were that inside another insert, its
author would have seen an atom of it, and an atom is seen with the operation it is from;
what stands inside it already has seen that operation too, and observing is transitive
(`InsertKeepsUnsplit`). Deletes move nothing.

*Any order.* Two linear extensions of what the edits observe differ by swaps of
neighbours, but swapping two edits is no lemma about one text: where an insert lands
depends on what its anchor's neighbours step over. The proof needs no swaps. The text F
that the causal order builds says where each edit belongs (`Settled`): the text of an
insert stands behind the atom its author saw (`Anchor`), and whatever stands between the
two is its own or ranked after it; a delete has struck exactly what its author saw. Each
edit in its turn settles, and disturbs nothing that has (`NextInOrder`, `SettledKept`).
Now feed the same edits in another order. The invariant is that the text so far is a part
of F (`Part`): F without the atoms and the deletions of what is still to come. An edit
whose turn it may be knows only what has come, so it sees the same in the part as in F
(`PartVisible`) and has the same anchor. `LandsInPlace` is the heart: everything it steps
over stands before its text in F, by induction along the stretch, because each of these
atoms hangs on an anchor that is stepped over too or is no further than its own; and the
first atom it does not step over stands behind its text, for it would otherwise be ranked
lower. When all have come the part is F (`WholePart`). TLC checked `Settled` with three
replicas before it was proved (0.35 M states). So `Landing`'s stepping, which the causal
order never exercises, is exactly what makes the other orders agree with it.

`TextMergeEditProofs` proves, from the same assumption:

| theorem | statement |
|---|---|
| `EditsLandWhereTyped` | `Spec => LandsWhereTyped` |
| `UndoIsItsOwn` | `Spec => []UndoTakesOnlyItsOwn` |

*Where edits land.* A batch is minted by a replica that knows everything its merge then
has, so the batch comes last in the causal order, in the order it was minted
(`OrderGoesOn`; `KnownComeFirst` and `BatchComesInOrder` are its two halves, by counting
what is ready), and the merge of all is the merge of what was known, edited by the batch
alone (`MergeGoesOn`). An edit that knows all that is there sees the living atoms and steps
over none, so it splices the text (`DeleteSplices`, `InsertSplices`): texts are read off
the places of the atoms (`Reads`), and a splice cuts places out or puts places in
(`CutReads`, `PutReads`). That needs every edit of the batch to stay within the text that
those before it have left (`Suits`). For a gesture and a write it is plain; for an undo it is
the work: the deletes go from the last stretch to the first, so none moves one that is
still to come, and leave the text that is not the targets' (`CutsRead`); the inserts go from
the last gap to the first, and what is kept before a gap is still there (`InsertsFit`). The
second half of the property, that the open document may be collapsed first, is the same
argument on atoms that have no history (`CollapsedFacts`, `BatchLands`).

*What an undo takes back.* Its batch lands, so what shows after it is the text that its
edits make one after the other (`UndoneIs`). The deletes leave what is alive and not the
targets'. Two gaps at different offsets are, from the last to the first, also from the last
gap to the first (`GapsGoBack`, since no less is kept further on); so when the insert for
gap g comes, what is there before the offset it names stands before the gap, and all else,
the stretches that have come back already too, behind it (`OnePutMore`). When all have come
the places that are read are those of `Without` (`InvertedTakesBack`), because the merge of
a whole log has no text that was dead before it (`MergedNoneDead`). `Tied` gaps are where
the first step fails, and the code with it (section 5).

*The rest of the invariant.* `HistoryOK` adds that a gesture that may go on has begun a step, and that every step on a
stack is the replica's own. For `TypeOK` an undo has to mint what is well formed
(`InvertedProps`): the ranges it deletes have starts of their own (`RangesProps`) and the
gaps it fills are ordered (`GapsBackwardsProps`), so that sorting them is defined
(`EveryPlaceIsTaken`: a strict total order on a finite set takes every place). TLC
checked `IInv` with three replicas before it was proved (0.2 M states).

Library operators that are defined by recursion on a sequence (`FoldLeft`, `SelectSeq`,
`SetToSortSeq`) have no facts the provers can use. `CausalOrder` and `Resolved` are
therefore recursive functions, for which a well-founded order gives existence
(`OrderIsDefined`, `EditingIsDefined`) and `SetInduction` the rest; `InOrder` puts a set
in order by counting, and `SplicedBy` applies a batch one after the other.

*Only model-checked:*

- liveness (`RefusalLifts` in Registry, `EventuallyDurable` in MirroredVolume, the
  properties of `collab_live`), which is out of reach of the installed provers, as are
  `ENABLED` and induction over data. No module uses a RECURSIVE operator.
- the half of `CommittedOnce` in LocalSession about operations, and with it the hypothesis of
  `LoneSavesAreAccepted`.

Every other property of a passing run is a theorem.

## 5 Disagreements with the code's own words

Four runs are expected to be violated. Each states something a comment or test of
the repository says, and shows a behaviour of the code that does otherwise.

**5.1 Resends that never stop** (`pending_drains`). A client loses its socket with a
batch on it, reconnects and is welcomed, and only then does the service read the
old socket's batch. The client resends; the service finds every operation already
logged and acknowledges with an empty list of ids (`document.rs:463`), because the
receipt of a replay has no operations. The driver's watermark moves only by those
ids, so it resends at every timeout until the socket is lost.
`collab.rs:936`: "the worst case of a timeout that fired too early is one redundant
frame and one acknowledgement."

**5.2 Two tabs of one subject** (`two_tabs`). A subject has one actor, so two tabs
number their operations alike. `welcome` (`collab.rs:672`) keeps only held
operations numbered beyond the actor's highest in the service's log: what one tab
typed offline under a number the other has logged is neither logged nor kept.
`collab.rs:590`: "silently dropping it would lose a user's typing."

**5.3 A cached role that outlives its revocation** (`grants_stale`). `grants()`
(`permission.rs:321`) reads the store and fills the cache with no lock over both. A
read that fetched before a revocation and fills after it leaves the old table in
the cache, and the document thread authorizes from it until the next change or
restart. `document.rs:26`: "a revoked editor's next keystroke is refused." The run
`grants` shows that this fill is the *only* way: every interleaving without it
keeps all three promises.

**5.4 Recovered work that counts as saved** (`recovered_session`). A new segment folds
the unsaved operations into its base (`recovery_journal.rs:656`), and `recover_session`
makes the frames alone the journal, none of it saved (787–793). A segment without
frames, which one edit after a save leaves, is recovered to an empty journal, so
`has_pending_save_changes` answers no; the segment is removed, and nothing asks before
the document is replaced or writes it again. `recovery_journal.rs:723`: "the result is
an ordinary unsaved document".

The models also meet the following. Their properties exclude each case by name, so
that everything else is still checked:

- *Undo past a save* (`state.rs:744`). Undo by snapshot restores the checkpoint's
  manifest, saved count and next number too. The next save is refused as a conflict
  until the step is redone or the document reopened, and the marker takes a number
  that was used before (`blame` "undo").
- *Recovery after the swap.* A crash between a save's head swap and the removal of the
  segment leaves a recovered session on the manifest before; its save conflicts,
  where ADR 0005 section 3 says "the save that follows is a normal commit" (`blame`
  "recovery").
- *A lookup record that fails* (`repository_io.rs:750`) after the head was swapped:
  the session does not learn that it was saved, and later saves conflict (`blame`
  "lookup").
- *Numbering goes back.* `recover_session` takes the next number from the segment
  (`recovery_journal.rs:795`), and a first save without a manifest reads the head's
  history to check identities (`repository_io.rs:589`–598) but does not move the next
  number past it. A recovered session can so save once on a head that already holds its
  own actor's later numbers; the saves that follow check the journal in memory alone, so
  one identity may be committed twice. `NoneBehind` excuses what such a save begins.
- *A cursor on another document* (`recovery_journal.rs:849`–852). When the recovered
  segment cannot be removed, `recover_session` returns before it drops the cursor, which
  goes on naming the segment of the document that was replaced. An edit that happens to
  have the same identity as one that segment covers is taken for covered. `Stray` excuses
  this cursor until it is dropped or replaced.
- *Windows that index a shorter journal* (`state.rs:591`). A step's window is a pair of
  positions in the journal. Undo by snapshot of an edit without an inverse cuts the journal
  short, so the windows of steps on either stack can then be empty or hold other
  envelopes: undo or redo does nothing, or inverts what is not the step's. A test
  (`state.rs:1067`) says "redo has to restore the edit". `UndoAndRedoRestore` holds as
  long as no such edit was undone (`lost`).
- *A redo that takes back another step* (`state.rs:770`). `restore_checkpoint` puts
  `next_operation_seq` back and leaves `operation_inverses` alone, where a step looks up its
  inverses by operation id (`state.rs:655`). Add paragraph B (operation 1), set a cell, add
  paragraph A (operation 2), undo three times and redo three times. The undo of the cell is by
  snapshot and brings back the counter of before A, so the undo of B mints operation 2 once
  more and the redo of B operation 3, whose inverse is "delete B". The redo of the cell
  restores a journal in which operation 3 was A's deletion; the redo of A looks operation 3
  up and deletes B, and A does not come back. `document_service.rs:118` says of the pruning
  that happens here "In ordinary editing it is a no-op: the minted sequence number is always
  above every entry already there", and the test at `state.rs:1067` "redo has to restore the
  edit". `UndoAndRedoRestore` holds until an operation is numbered like one that a stack
  still holds (`reused`); with that excuse taken out of it, `local_session` finds this run.
- *An open that fails half way* (`repository_io.rs:1118`–1160). The journal, the counters and
  the document are replaced before the blobs and signatures are read; if a read fails, the
  manifest, the undo and redo stacks and the recovery cursor are still those of the document
  before. The next save may be refused (`blame` "open"), the cursor is a stray one, and undo
  goes to a document that is not open any more (`half`).
- *A command refused between two keystrokes* (`dispatch.rs:54`–57). Its checkpoint closes the
  step that was open (`state.rs:692`–700), and the coalescing key survives the error: what
  is typed next with the same gesture belongs to no step, and no undo takes it back. In
  TextMerge this is `Fail`; the rest of the step is still taken back exactly.
- *Recovery removes its segment before the re-snapshot* (`recovery_journal.rs:851`): a
  crash in between loses the recovered work. `Recover` sets `rest` to `None`.
- *Two restored stretches at one offset* (`inverse.rs`, the sort of `restores`). When a
  step replaced two stretches with nothing but its own text between them (replace-all
  of `[ab]` in "ab"), both are restored at one offset and the stable sort emits them in
  text order, so the later one lands before the earlier: "ba". ADR 0017 says "every
  insert, in descending position"; the tests keep a space between the occurrences.
  `Tied` is this case. It takes four operations: with `NumActors` 1, `MaxOps` 4 and
  the disjunct `Tied` removed, `UndoTakesOnlyItsOwn` is violated within 400 states;
  with it, that instance passes.

## 6 Not modelled

- Presence, roles and the caret in the client protocol; identity and sessions.
- Panics of a document thread (`service.rs:553`): its dead handle stays registered.
- Candidate heads, the head lock file and packs: section 7. The head lock's stale-lock
  takeover (`local_store.rs:330`) is a hazard without a property.
- The merge of structure: blocks, tables, marks, suggestions, annotations. TextMerge
  shows of one run that equal sets of operations give equal text.
- Undo of structural operations beyond "has an inverse" (LocalSession), and the caret; an
  undo whose inverse batch is refused, which loses its step (`state.rs:516`).
- Spreadsheet, layout, rendering, PDF, import, citations, the document model and the
  command API: functions from values to values, without state shared over time.
- Loss of unsynced writes after a power failure (`local_store.rs:255`).

## 7 Plan

In order of what depends on it:

1. *Done:* DocumentLog, AbstractLog and their proofs; Collab; Grants and its proofs;
   Registry and its proofs; MirroredVolume, AbstractVolume and their proofs;
   LocalSession; TextMerge.
2. **CandidateHeads** and **HeadLock** (`repository.rs`, `local_store.rs`):
   reconciliation without a swap, and when the lock file makes the swap atomic.
3. Structural operations in TextMerge (a run inside a block that others delete and an
   undo brings back), then tables.
4. Desktop driver and roles as variants of Collab; identity with revocation; pack
   compaction; a chain limit in DocumentLog.
5. In LocalSessionProofs, an order on the numbers of operations that does not mind the
   envelopes without one, for the rest of `CommittedOnce`.

Every invariant and action property of a passing run but for that half is a theorem, liveness
apart; a module that is added here gets its own.
