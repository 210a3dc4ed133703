------------------------------ MODULE Registry ------------------------------
(***************************************************************************)
(* Which document threads one service process runs, how they are started,  *)
(* shared, stopped and counted, and what creating a document leaves behind *)
(* when one of its steps fails: crates/opendoc-service/src/service.rs      *)
(* (OpenDocService, Registry), with document.rs spawn_with_log and         *)
(* DocumentHandle.                                                         *)
(*                                                                         *)
(* Everything under the registry's mutex is one step.  A request handler   *)
(* takes the mutex for one lookup, keeps the handle it got for as long as  *)
(* its socket lasts, and creates a document in steps that take the mutex   *)
(* at both ends only.  Threads leave their loop on their own, some time    *)
(* after the last handle is gone.                                          *)
(*                                                                         *)
(* Time.  A document is warm from its last lookup until it cools, which it *)
(* may at any time; a sweep below the limit may be due or not; a stopped   *)
(* thread may or may not be seen to exit before the deadline.              *)
(*                                                                         *)
(* Data.  Who may open a document is in Grants.tla, the steps of the       *)
(* genesis commit and of a load in DocumentLog.tla.                        *)
(***************************************************************************)
EXTENDS FiniteSets, Naturals

CONSTANTS Documents,    \* document uuids
          Threads,      \* what the operating system can run at once
          Handlers,     \* concurrent request handlers
          Subjects,     \* who creates documents
          None,         \* no thread, document or subject
          MaxOpen,      \* max_open_documents
          MaxCreated,   \* max_documents_per_subject
          MaxFaults     \* bound: failed store calls and restarts

ASSUME RegistryAssumption ==
    /\ None \notin Documents \cup Threads \cup Subjects
    /\ MaxOpen \in Nat \ {0}
    /\ {MaxCreated, MaxFaults} \subseteq Nat

\* A uuid has 128 bits, and a process runs so many requests at once.
ASSUME FiniteAssumption == IsFiniteSet(Documents) /\ IsFiniteSet(Handlers)

VARIABLES registry,  \* the Registry behind the mutex
          serves,    \* per thread: the document whose loop it is in
          task,      \* per handler: the request it is serving
          creator,   \* per document: who made its genesis commit, durable
          owned,     \* documents whose owner is in the grant table, durable
          charged,   \* per subject: created_documents, durable
          known,     \* documents whose uuid was returned to somebody
          faults     \* failed store calls and restarts so far

vars == <<registry, serves, task, creator, owned, charged, known, faults>>

durable == <<creator, owned, charged, known>>

Registries == [open : [Documents -> Threads \cup {None}],
               retiring : [Documents -> Threads \cup {None}],
               warm : SUBSET Documents]   \* last_used_ms within the window

Phases == {"idle", "wanting", "refused", "holding", "charging", "genesis",
           "seeding", "spawning", "registering"}

Tasks == [phase : Phases,
          document : Documents \cup {None},
          subject : Subjects \cup {None},
          thread : Threads \cup {None}]    \* a handle to it is held here

Idle == [phase |-> "idle", document |-> None, subject |-> None, thread |-> None]

Empty == [open |-> [d \in Documents |-> None],
          retiring |-> [d \in Documents |-> None],
          warm |-> {}]

Opened(r) == {d \in Documents : r.open[d] # None}
Retiring(r) == {d \in Documents : r.retiring[d] # None}

\* Registry::len
Length(r) == Cardinality(Opened(r)) + Cardinality(Retiring(r))

\* A clone of the thread's handle is held outside the registry.
Held(t) == \E h \in Handlers : task[h].thread = t

\* Mutant of Reaped: a uuid once reserved stays reserved.
ReapedNever(r) == r

\* reap_retired
Reaped(r) ==
    [r EXCEPT !.retiring = [d \in Documents |->
        IF r.retiring[d] # None /\ serves[r.retiring[d]] = None
        THEN None ELSE r.retiring[d]]]

\* retire_all: the handles of these documents are dropped; the threads of the
\* slow ones are not seen to exit in time, and keep their uuids reserved.
Retired(r, docs, slow) ==
    [open     |-> [d \in Documents |-> IF d \in docs THEN None ELSE r.open[d]],
     retiring |-> [d \in Documents |-> IF d \in slow THEN r.open[d]
                                                     ELSE r.retiring[d]],
     warm     |-> r.warm \ docs]

\* The outcomes of stopping some documents: the registry, and the threads that
\* have been joined.
Stop(docs) ==
    {[registry |-> Retired(Reaped(registry), docs, slow),
      joined   |-> {registry.open[d] : d \in docs \ slow}] : slow \in SUBSET docs}

SolelyHeld == {d \in Opened(registry) : ~Held(registry.open[d])}

\* Mutant of Reclaimable: the idle window alone decides.
ReclaimableByTimer(taking) == Opened(registry) \ (registry.warm \cup taking)

\* is_reclaimable, except for a document whose handle is being taken.
Reclaimable(taking) == SolelyHeld \ (registry.warm \cup taking)

\* reclaim_locked
Reclaim(taking) == Stop(Reclaimable(taking))

\* reclaim_before_admitting: always at the limit, else when a sweep is due.
ReclaimBeforeAdmitting(taking) ==
    IF Length(registry) >= MaxOpen
    THEN Reclaim(taking)
    ELSE Reclaim(taking) \cup {[registry |-> registry, joined |-> {}]}

\* refuse_when_full, for a document that is not open
Full(r) == Length(r) >= MaxOpen

\* register
Registered(r, d, t) ==
    [r EXCEPT !.open = [@ EXCEPT ![d] = t], !.warm = @ \cup {d}]

Joined(threads) ==
    [t \in Threads |-> IF t \in threads THEN None ELSE serves[t]]

\* Threads that a spawn can give: nothing is in their loop or waits to join it.
Free(r, running) ==
    {t \in Threads : running[t] = None /\ \A d \in Documents : r.retiring[d] # t}

\* A new thread: which one it is makes no difference.
Spawned(r, running) == CHOOSE t \in Threads : t \in Free(r, running)

Fault == faults < MaxFaults /\ faults' = faults + 1

----------------------------------------------------------------------------
(***************************************************************************)
(* Looking a document up                                                   *)
(***************************************************************************)

\* Somebody who was given a document's uuid asks for it.
Want(h, d) ==
    /\ task[h].phase = "idle"
    /\ d \in known
    /\ task' = [task EXCEPT ![h].phase = "wanting", ![h].document = d]
    /\ UNCHANGED <<registry, serves, durable, faults>>

\* A caller that was refused asks again, or gives up.
AskAgain(h) ==
    /\ task[h].phase = "refused"
    /\ task' = [task EXCEPT ![h].phase = "wanting"]
    /\ UNCHANGED <<registry, serves, durable, faults>>

GiveUp(h) ==
    /\ task[h].phase = "refused"
    /\ task' = [task EXCEPT ![h] = Idle]
    /\ UNCHANGED <<registry, serves, durable, faults>>

Hold(h, t) == task' = [task EXCEPT ![h].phase = "holding", ![h].thread = t]

\* document(), of a running document: its last_used_ms is set and its handle
\* cloned before the sweep, so the sweep cannot stop it.
HandOut(h) ==
    LET d == task[h].document
    IN  /\ task[h].phase = "wanting"
        /\ registry.open[d] # None
        /\ \E after \in ReclaimBeforeAdmitting({d}) :
            /\ registry' = [after.registry EXCEPT !.warm = @ \cup {d}]
            /\ serves' = Joined(after.joined)
        /\ Hold(h, registry.open[d])
        /\ UNCHANGED <<durable, faults>>

\* A retiring uuid is looked at once more before it is refused.
LookAgain(r, d) == IF r.retiring[d] = None THEN r ELSE Reaped(r)

\* Mutant of MayStart: a uuid that is being stopped is taken to be free.
MayStartWhileRetiring(r, d) == ~Full(r)

MayStart(r, d) == r.retiring[d] = None /\ ~Full(r)

\* document(), of one that is not running: its thread is started from storage,
\* all under the mutex.
Start(h) ==
    LET d == task[h].document
    IN  /\ task[h].phase = "wanting"
        /\ registry.open[d] = None
        /\ \E after \in ReclaimBeforeAdmitting({}) :
            LET r == LookAgain(after.registry, d)
            IN  /\ MayStart(r, d)
                /\ Free(r, Joined(after.joined)) # {}
                /\ LET t == Spawned(r, Joined(after.joined))
                   IN  /\ registry' = Registered(r, d, t)
                       /\ serves' = [Joined(after.joined) EXCEPT ![t] = d]
                       /\ Hold(h, t)
        /\ UNCHANGED <<durable, faults>>

\* The lookup is refused: the uuid is still being stopped, the registry is
\* full, there is no thread to be had, or the document does not load.
Refuse(h) ==
    LET d == task[h].document
    IN  /\ task[h].phase = "wanting"
        /\ registry.open[d] = None
        /\ \E after \in ReclaimBeforeAdmitting({}) :
            LET r == LookAgain(after.registry, d)
            IN  /\ registry' = r
                /\ serves' = Joined(after.joined)
                /\ IF MayStart(r, d) /\ Free(r, serves') # {}
                   THEN Fault
                   ELSE UNCHANGED faults
        /\ task' = [task EXCEPT ![h].phase = "refused"]
        /\ UNCHANGED durable

Document(h) == HandOut(h) \/ Start(h) \/ Refuse(h)

\* The socket ends, or the request is answered, and its clone is dropped.
Release(h) ==
    /\ task[h].phase = "holding"
    /\ task' = [task EXCEPT ![h] = Idle]
    /\ UNCHANGED <<registry, serves, durable, faults>>

----------------------------------------------------------------------------
(***************************************************************************)
(* Creating a document                                                     *)
(***************************************************************************)

Continue(h, phase) == task' = [task EXCEPT ![h].phase = phase]
Abandon(h) == task' = [task EXCEPT ![h] = Idle]

\* The first check, which keeps a refusal from having side effects.
Admit(h, s) ==
    /\ task[h].phase = "idle"
    /\ \E after \in ReclaimBeforeAdmitting({}) :
        /\ registry' = after.registry
        /\ serves' = Joined(after.joined)
        /\ IF Full(after.registry)
           THEN UNCHANGED task
           ELSE task' = [task EXCEPT ![h].phase = "charging", ![h].subject = s]
    /\ UNCHANGED <<durable, faults>>

\* Mutant of Charge: one document over the quota.
ChargeOneMore(h) ==
    LET s == task[h].subject
    IN  /\ task[h].phase = "charging"
        /\ IF charged[s] > MaxCreated
           THEN Abandon(h) /\ UNCHANGED charged
           ELSE /\ charged' = [charged EXCEPT ![s] = @ + 1]
                /\ Continue(h, "genesis")
        /\ UNCHANGED <<registry, serves, creator, owned, known, faults>>

\* charge_document_quota, a read and a write under one lock.
Charge(h) ==
    LET s == task[h].subject
    IN  /\ task[h].phase = "charging"
        /\ IF charged[s] >= MaxCreated
           THEN Abandon(h) /\ UNCHANGED charged
           ELSE /\ charged' = [charged EXCEPT ![s] = @ + 1]
                /\ Continue(h, "genesis")
        /\ UNCHANGED <<registry, serves, creator, owned, known, faults>>

\* A fresh uuid: which one it is makes no difference.
NewUuid == CHOOSE d \in Documents : creator[d] = None

\* DocumentLog::create
Genesis(h) ==
    /\ task[h].phase = "genesis"
    /\ \E d \in Documents : creator[d] = None
    /\ creator' = [creator EXCEPT ![NewUuid] = task[h].subject]
    /\ task' = [task EXCEPT ![h].phase = "seeding", ![h].document = NewUuid]
    /\ UNCHANGED <<registry, serves, owned, charged, known, faults>>

\* Mutant of SeedOwner: a grant that could not be written is no reason to stop.
SeedOwnerBestEffort(h) ==
    /\ task[h].phase = "seeding"
    /\ \/ owned' = owned \cup {task[h].document} /\ UNCHANGED faults
       \/ Fault /\ UNCHANGED owned
    /\ Continue(h, "spawning")
    /\ UNCHANGED <<registry, serves, creator, charged, known>>

SeedOwner(h) ==
    /\ task[h].phase = "seeding"
    /\ owned' = owned \cup {task[h].document}
    /\ Continue(h, "spawning")
    /\ UNCHANGED <<registry, serves, creator, charged, known, faults>>

\* spawn_with_log, outside the mutex: the thread runs before it is registered.
Spawn(h) ==
    /\ task[h].phase = "spawning"
    /\ LET t == Spawned(registry, serves)
       IN  IF Free(registry, serves) # {}
           THEN /\ serves' = [serves EXCEPT ![t] = task[h].document]
                /\ task' = [task EXCEPT ![h].phase = "registering",
                                        ![h].thread = t]
           ELSE Abandon(h) /\ UNCHANGED serves
    /\ UNCHANGED <<registry, durable, faults>>

\* The second check, and the document is registered and its uuid returned; or
\* it is refused and the handle dropped, with all else left as it is.
Register(h) ==
    /\ task[h].phase = "registering"
    /\ \E after \in ReclaimBeforeAdmitting({}) :
        /\ serves' = Joined(after.joined)
        /\ IF Full(after.registry)
           THEN /\ registry' = after.registry
                /\ UNCHANGED known
           ELSE /\ registry' = Registered(after.registry, task[h].document,
                                          task[h].thread)
                /\ known' = known \cup {task[h].document}
    /\ Abandon(h)
    /\ UNCHANGED <<creator, owned, charged, faults>>

\* Mutant of CreateFails: what was charged is given back.
CreateFailsRefunded(h) ==
    /\ task[h].phase \in {"charging", "genesis", "seeding"}
    /\ Fault
    /\ charged' = IF task[h].phase = "charging" THEN charged
                  ELSE [charged EXCEPT ![task[h].subject] = @ - 1]
    /\ Abandon(h)
    /\ UNCHANGED <<registry, serves, creator, owned, known>>

\* A store call of a creation fails, and its error is returned.
CreateFails(h) ==
    /\ task[h].phase \in {"charging", "genesis", "seeding"}
    /\ Fault
    /\ Abandon(h)
    /\ UNCHANGED <<registry, serves, durable>>

Create(h) ==
    \/ Charge(h) \/ Genesis(h) \/ SeedOwner(h)
    \/ Spawn(h) \/ Register(h)

----------------------------------------------------------------------------
(***************************************************************************)
(* Threads, time and the operator                                          *)
(***************************************************************************)

\* The last handle is gone, so the inbox closes and the thread leaves its loop.
Exit(t) ==
    /\ serves[t] # None
    /\ ~Held(t)
    /\ \A d \in Documents : registry.open[d] # t
    /\ serves' = [serves EXCEPT ![t] = None]
    /\ UNCHANGED <<registry, task, durable, faults>>

\* The idle window of a document passes.
Cool(d) ==
    /\ d \in registry.warm
    /\ registry' = [registry EXCEPT !.warm = @ \ {d}]
    /\ UNCHANGED <<serves, task, durable, faults>>

\* reclaim_idle_documents, and stop_idle_documents, which has no window (and
\* forgets the grants cache, which is state of Grants.tla).
Sweep ==
    /\ \E after \in Reclaim({}) \cup Stop(SolelyHeld) :
        /\ registry' = after.registry
        /\ serves' = Joined(after.joined)
    /\ UNCHANGED <<task, durable, faults>>

\* The process stops and starts again: what is durable stays.
Restart ==
    /\ Fault
    /\ registry' = Empty
    /\ serves' = [t \in Threads |-> None]
    /\ task' = [h \in Handlers |-> Idle]
    /\ UNCHANGED durable

Init ==
    /\ registry = Empty
    /\ serves = [t \in Threads |-> None]
    /\ task = [h \in Handlers |-> Idle]
    /\ creator = [d \in Documents |-> None]
    /\ owned = {}
    /\ charged = [s \in Subjects |-> 0]
    /\ known = {}
    /\ faults = 0

Next ==
    \/ \E h \in Handlers :
        \/ \E d \in Documents : Want(h, d)
        \/ AskAgain(h) \/ GiveUp(h)
        \/ HandOut(h) \/ Start(h) \/ Refuse(h) \/ Release(h)
        \/ \E s \in Subjects : Admit(h, s)
        \/ Charge(h) \/ Genesis(h) \/ SeedOwner(h)
        \/ Spawn(h) \/ Register(h) \/ CreateFails(h)
    \/ \E t \in Threads : Exit(t)
    \/ \E d \in Documents : Cool(d)
    \/ Sweep
    \/ Restart

Spec == Init /\ [][Next]_vars

\* A request is served, whoever was refused asks again or gives up, the steps of
\* a creation follow one another, time passes and threads leave closed loops.
\* Nothing makes a socket end, a thread exit in time or an operator sweep.
Fairness ==
    /\ \A h \in Handlers :
        WF_vars(Document(h) \/ AskAgain(h) \/ GiveUp(h) \/ Create(h))
    /\ \A t \in Threads : WF_vars(Exit(t))
    /\ \A d \in Documents : WF_vars(Cool(d))

FairSpec == Spec /\ Fairness

----------------------------------------------------------------------------
(***************************************************************************)
(* Properties                                                              *)
(***************************************************************************)

\* Every variable has its type.
TypeOK ==
    /\ registry \in Registries
    /\ serves \in [Threads -> Documents \cup {None}]
    /\ task \in [Handlers -> Tasks]
    /\ creator \in [Documents -> Subjects \cup {None}]
    /\ owned \subseteq Documents
    /\ charged \in [Subjects -> 0..MaxCreated]
    /\ known \subseteq Documents
    /\ faults \in 0..MaxFaults

\* No document ever has two threads in their loops, so one process never writes
\* one branch head twice: not while a stopped one lingers past the deadline,
\* and not in the window in which a created one runs unregistered (document.rs
\* "two writers, which is the one thing the one-thread-per-document design
\* exists to make impossible").
OneThreadPerDocument ==
    \A t, u \in Threads : serves[t] = serves[u] /\ serves[t] # None => t = u

\* A handle that a socket holds is to the running, registered thread of its
\* document: no sweep, however timed, stops a document that is in use or
\* replaces its thread (service.rs is_reclaimable, DocumentHandle
\* is_solely_held).
HeldIsCurrent ==
    \A h \in Handlers : task[h].phase = "holding" =>
        /\ registry.open[task[h].document] = task[h].thread
        /\ serves[task[h].thread] = task[h].document

\* The limit counts the threads that linger as well as the running ones, and
\* no interleaving of lookups and creations gets past it (service.rs
\* refuse_when_full, Registry::len).
WithinLimit == Length(registry) <= MaxOpen

\* However a creation fails or races, nobody has made more documents than they
\* were charged for or than the quota allows, across restarts too (service.rs
\* charge_document_quota).
QuotaIsKept ==
    \A s \in Subjects :
        /\ Cardinality({d \in Documents : creator[d] = s}) <= charged[s]
        /\ charged[s] <= MaxCreated

\* A document anybody was told of exists and has an owner, and no grant names a
\* document that does not exist (service.rs create_document: "a failure to
\* create the document cannot leave an ownerless grant behind").
KnownIsOwned ==
    /\ known \subseteq owned
    /\ \A d \in owned : creator[d] # None

\* A lookup that is refused for lack of room is not refused for ever: if it is
\* repeated, it succeeds, unless somebody else holds a document meanwhile
\* (service.rs DEFAULT_MAX_OPEN_DOCUMENTS: "a refusal that lifts on its own
\* rather than one that lasts until a restart").
RefusalLifts ==
    \A h \in Handlers :
        task[h].phase = "wanting" ~>
            \/ task[h].phase \notin {"wanting", "refused"}
            \/ \E g \in Handlers : task[g].phase = "holding"
=============================================================================
