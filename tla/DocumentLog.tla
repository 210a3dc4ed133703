---------------------------- MODULE DocumentLog ----------------------------
(***************************************************************************)
(* crates/opendoc-service/src/log.rs (DocumentLog) over the repository of  *)
(* crates/opendoc-store/src/repository.rs (commit_manifest): how a batch   *)
(* of operations becomes durable, object by object, and how a restarted    *)
(* service rebuilds the document from the objects alone.                   *)
(*                                                                         *)
(* Several services share one object store.  Each commit puts a snapshot,  *)
(* a segment, a manifest and a head record, every put a step of its own,   *)
(* and then moves the branch head by compare-and-swap.  A service can      *)
(* crash, and a store call can fail, between any two steps.                *)
(*                                                                         *)
(* Data.  A HashRef is collision-free and a manifest names its parent, so  *)
(* a manifest hash stands for the whole history behind it: it is modelled  *)
(* AS that history, a sequence of batches, and <<>> is the genesis         *)
(* manifest.  A segment names its predecessor and base manifest, so it is  *)
(* identified the same way.  A snapshot is a function of the operations    *)
(* merged.  A batch is a dense run first..last of one actor's operations,  *)
(* which is what document.rs validate_batch hands to append.               *)
(***************************************************************************)
EXTENDS Naturals, Sequences

CONSTANTS Services,    \* the service processes that share the object store
          Actors,      \* the actors whose operations the log holds
          Batches,     \* the batches a commit can carry
          None,        \* no head, no document in memory
          MaxCommits,  \* bound: commits in one document's chain
          MaxFaults    \* bound: crashes and failed store calls

ASSUME BatchesAssumption ==
    Batches \subseteq [actor : Actors, first : Nat \ {0}, last : Nat \ {0}]

ASSUME BoundsAssumption == MaxCommits \in Nat /\ MaxFaults \in Nat

VARIABLES snapshots,  \* histories whose snapshot object is stored
          segments,   \* histories whose last segment object is stored
          manifests,  \* histories whose manifest object is stored
          head,       \* the branch head: None or the history it names
          mem,        \* per service: None or its DocumentLog in memory
          pend,       \* per service: the call it is in the middle of
          acked,      \* histories whose commit was reported to the caller
          faults      \* crashes and failed store calls so far

vars == <<snapshots, segments, manifests, head, mem, pend, acked, faults>>

store == <<snapshots, segments, manifests>>

Histories == Seq(Batches)

Phases == {"idle", "snapshot", "segment", "manifest", "record", "swap",
           "swapped", "loading"}

\* The in-memory DocumentLog: the operations (grouped by commit), the head it
\* believes in, and commit_seq.
Logs == [operations : Histories, head : Histories, commit_seq : Nat]

ASSUME NoneAssumption == None \notin Histories \cup Logs

\* A call in progress: the operations once it succeeds, the manifest it is
\* committing (or loading), and the head the swap expects.
Calls == [phase : Phases, operations : Histories, target : Histories,
          expected : Histories \cup {None}]

Idle == [phase |-> "idle", operations |-> <<>>, target |-> <<>>,
         expected |-> None]

Prefix(s, t) ==
    /\ Len(s) <= Len(t)
    /\ \A i \in 1..Len(s) : s[i] = t[i]

\* b continues its actor's sequence after the first k commits of h: its first
\* operation is numbered one past the highest that actor has there.
Continues(h, k, b) ==
    /\ \A i \in 1..k : h[i].actor = b.actor => h[i].last < b.first
    /\ \/ b.first = 1
       \/ \E i \in 1..k : h[i].actor = b.actor /\ h[i].last + 1 = b.first

\* verify_sequences_are_dense: every actor's operations are numbered 1, 2, ...
Dense(h) ==
    \A n \in 1..Len(h) : h[n].first <= h[n].last /\ Continues(h, n - 1, h[n])

\* Everything load() reads on the way from a head back to genesis and out again.
Loadable(h) ==
    /\ <<>> \in snapshots
    /\ \A n \in 0..Len(h) : SubSeq(h, 1, n) \in manifests
    /\ \A n \in 1..Len(h) : SubSeq(h, 1, n) \in segments
    /\ Dense(h)

----------------------------------------------------------------------------

Init ==
    /\ snapshots = {} /\ segments = {} /\ manifests = {}
    /\ head = None
    /\ mem = [s \in Services |-> None]
    /\ pend = [s \in Services |-> Idle]
    /\ acked = {}
    /\ faults = 0

\* create(): refused (no state changes) when a head exists, else starts the
\* genesis commit, which expects no head.
BeginCreate(s) ==
    /\ pend[s].phase = "idle"
    /\ mem[s] = None
    /\ head = None
    /\ pend' = [pend EXCEPT ![s] =
                    [phase |-> "snapshot", operations |-> <<>>,
                     target |-> <<>>, expected |-> None]]
    /\ UNCHANGED <<store, head, mem, acked, faults>>

\* append(): a validated batch is merged in memory and the commit starts.
BeginAppend(s, b) ==
    /\ pend[s].phase = "idle"
    /\ mem[s] # None
    /\ Len(mem[s].head) < MaxCommits
    /\ b.first <= b.last
    /\ Continues(mem[s].operations, Len(mem[s].operations), b)
    /\ pend' = [pend EXCEPT ![s] =
                    [phase |-> "snapshot",
                     operations |-> Append(mem[s].operations, b),
                     target |-> Append(mem[s].head, b),
                     expected |-> mem[s].head]]
    /\ UNCHANGED <<store, head, mem, acked, faults>>

\* Mutant of WriteSnapshot: the commit forgets to put its segment.
WriteSnapshotNoSegment(s) ==
    /\ pend[s].phase = "snapshot"
    /\ snapshots' = snapshots \cup {pend[s].operations}
    /\ pend' = [pend EXCEPT ![s].phase = "manifest"]
    /\ UNCHANGED <<segments, manifests, head, mem, acked, faults>>

\* write_snapshot; the genesis commit has no segment to write.
WriteSnapshot(s) ==
    /\ pend[s].phase = "snapshot"
    /\ snapshots' = snapshots \cup {pend[s].operations}
    /\ pend' = [pend EXCEPT ![s].phase =
                    IF pend[s].expected = None THEN "manifest" ELSE "segment"]
    /\ UNCHANGED <<segments, manifests, head, mem, acked, faults>>

WriteSegment(s) ==
    /\ pend[s].phase = "segment"
    /\ segments' = segments \cup {pend[s].target}
    /\ pend' = [pend EXCEPT ![s].phase = "manifest"]
    /\ UNCHANGED <<snapshots, manifests, head, mem, acked, faults>>

WriteManifest(s) ==
    /\ pend[s].phase = "manifest"
    /\ manifests' = manifests \cup {pend[s].target}
    /\ pend' = [pend EXCEPT ![s].phase = "record"]
    /\ UNCHANGED <<snapshots, segments, head, mem, acked, faults>>

\* The BranchHeadRecord object goes in as well; nothing ever reads it back, so
\* only the step, which can fail or be cut short, is kept.
WriteRecord(s) ==
    /\ pend[s].phase = "record"
    /\ pend' = [pend EXCEPT ![s].phase = "swap"]
    /\ UNCHANGED <<store, head, mem, acked, faults>>

\* Mutant of Swap: the last writer wins.
SwapUnchecked(s) ==
    /\ pend[s].phase = "swap"
    /\ head' = pend[s].target
    /\ pend' = [pend EXCEPT ![s].phase = "swapped"]
    /\ UNCHANGED <<store, mem, acked, faults>>

\* Mutant of Swap: the answer of the compare-and-swap is not looked at.
SwapUnread(s) ==
    /\ pend[s].phase = "swap"
    /\ head' = IF head = pend[s].expected THEN pend[s].target ELSE head
    /\ pend' = [pend EXCEPT ![s].phase = "swapped"]
    /\ UNCHANGED <<store, mem, acked, faults>>

\* compare_and_swap_head: a moved head is a Conflict, and the log does not
\* retry; memory is untouched either way.
Swap(s) ==
    /\ pend[s].phase = "swap"
    /\ IF head = pend[s].expected
       THEN /\ head' = pend[s].target
            /\ pend' = [pend EXCEPT ![s].phase = "swapped"]
       ELSE /\ pend' = [pend EXCEPT ![s] = Idle]
            /\ UNCHANGED head
    /\ UNCHANGED <<store, mem, acked, faults>>

\* "Durable. Only now does in-memory state advance", and the caller is told.
Advance(s) ==
    /\ pend[s].phase = "swapped"
    /\ mem' = [mem EXCEPT ![s] =
                  [operations |-> pend[s].operations,
                   head |-> pend[s].target,
                   commit_seq |-> IF mem[s] = None THEN 0
                                  ELSE mem[s].commit_seq + 1]]
    /\ acked' = acked \cup {pend[s].target}
    /\ pend' = [pend EXCEPT ![s] = Idle]
    /\ UNCHANGED <<store, head, faults>>

\* load() reads the head first; everything after is immutable objects.
BeginLoad(s) ==
    /\ pend[s].phase = "idle"
    /\ mem[s] = None
    /\ head # None
    /\ pend' = [pend EXCEPT ![s] =
                    [phase |-> "loading", operations |-> head,
                     target |-> head, expected |-> None]]
    /\ UNCHANGED <<store, head, mem, acked, faults>>

\* The walk to genesis and back.  A missing object or a sparse sequence is a
\* Storage error and nothing is opened.
LoadCounting(s, commit_seq) ==
    /\ pend[s].phase = "loading"
    /\ mem' = [mem EXCEPT ![s] =
                  IF Loadable(pend[s].target)
                  THEN [operations |-> pend[s].operations,
                        head |-> pend[s].target,
                        commit_seq |-> commit_seq]
                  ELSE None]
    /\ pend' = [pend EXCEPT ![s] = Idle]
    /\ UNCHANGED <<store, head, acked, faults>>

\* Mutants of FinishLoad: the genesis manifest is counted as a commit, or
\* subtracted twice.
FinishLoadCountsGenesis(s) == LoadCounting(s, Len(pend[s].target) + 1)
FinishLoadUnderflows(s) == LoadCounting(s, Len(pend[s].target) - 1)

\* commit_seq is the number of manifests walked, genesis aside.
FinishLoad(s) == LoadCounting(s, Len(pend[s].target))

\* Any store call of the commit or the load fails before it takes effect:
\* the error is returned and memory is as it was.
StoreError(s) ==
    /\ pend[s].phase \notin {"idle", "swapped"}
    /\ faults < MaxFaults
    /\ faults' = faults + 1
    /\ pend' = [pend EXCEPT ![s] = Idle]
    /\ UNCHANGED <<store, head, mem, acked>>

\* The process dies, or the idle document thread stops: memory goes, objects
\* stay, and a commit cut short leaves whatever it had put.
Crash(s) ==
    /\ mem[s] # None \/ pend[s].phase # "idle"
    /\ faults < MaxFaults
    /\ faults' = faults + 1
    /\ mem' = [mem EXCEPT ![s] = None]
    /\ pend' = [pend EXCEPT ![s] = Idle]
    /\ UNCHANGED <<store, head, acked>>

Next ==
    \E s \in Services :
        \/ BeginCreate(s)
        \/ \E b \in Batches : BeginAppend(s, b)
        \/ WriteSnapshot(s)
        \/ WriteSegment(s)
        \/ WriteManifest(s)
        \/ WriteRecord(s)
        \/ Swap(s)
        \/ Advance(s)
        \/ BeginLoad(s)
        \/ FinishLoad(s)
        \/ StoreError(s)
        \/ Crash(s)

Spec == Init /\ [][Next]_vars

----------------------------------------------------------------------------
(***************************************************************************)
(* Properties                                                              *)
(***************************************************************************)

\* Every variable has its type.
TypeOK ==
    /\ snapshots \subseteq Histories
    /\ segments \subseteq Histories
    /\ manifests \subseteq Histories
    /\ head \in Histories \cup {None}
    /\ mem \in [Services -> Logs \cup {None}]
    /\ pend \in [Services -> Calls]
    /\ acked \subseteq Histories
    /\ faults \in Nat

\* Whatever crash or store error happened, the head names a document that
\* load() rebuilds without an error: objects are durable before the head that
\* names them, and the chain is dense for every actor even when several
\* services extended it in turn (log.rs "A crash at any point leaves objects
\* nothing points at, which is garbage, not corruption").
HeadIsLoadable == head # None => Loadable(head)

\* A commit that was reported to a caller is in the history for ever: no
\* later commit of any service, no crash and no reload drops or reorders it
\* (log.rs append: "makes them durable before returning").
AcknowledgedSurvives ==
    \A h \in acked : head # None /\ Prefix(h, head)

\* No service serves an operation storage does not have: what is in memory is
\* a prefix of the committed history, even while another service moves the
\* head (the in-memory state advances only after the swap).
ServedIsCommitted ==
    \A s \in Services :
        mem[s] # None => head # None /\ Prefix(mem[s].operations, head)

\* commit_seq, which clients compare across services and restarts, names a
\* history: equal numbers mean equal logs whether the log was built by
\* appending or by reloading (load counts manifests, append counts commits).
CommitSeqNamesHistory ==
    \A s, t \in Services :
        /\ mem[s] # None
        /\ mem[t] # None
        /\ mem[s].commit_seq = mem[t].commit_seq
        => mem[s].operations = mem[t].operations

\* The object-by-object commit implements the one-step promise of AbstractLog.
Promise == INSTANCE AbstractLog WITH
    history <- head,
    view <- [s \in Services |->
                IF mem[s] = None THEN None ELSE mem[s].operations]

\* Every behaviour of the commit protocol is a behaviour of AbstractLog: one
\* growing history, extended only by a service that has all of it.
ImplementsPromise == Promise!Spec
=============================================================================
