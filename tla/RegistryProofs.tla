--------------------------- MODULE RegistryProofs ---------------------------
(***************************************************************************)
(* Proofs about Registry: type correctness, one thread per document, that  *)
(* a held handle is to the registered thread, that what is known is owned, *)
(* the limit and the quota, whatever the sweeps, deadlines, failures and   *)
(* restarts, for any documents, threads, handlers and subjects.            *)
(***************************************************************************)
EXTENDS Registry, FiniteSetTheorems, TLAPS

----------------------------------------------------------------------------
(***************************************************************************)
(* The inductive invariant                                                 *)
(***************************************************************************)

\* What is true of the registry r and the threads s between any two steps, and
\* in the middle of a step that sweeps first: an open document is served by its
\* thread and is not retiring, a retiring one by its thread or nobody; both are
\* known; a live thread is open, or retiring, or of a document nobody was told
\* of; and what is held is open.
Sound(r, s) ==
    /\ r \in Registries
    /\ s \in [Threads -> Documents \cup {None}]
    /\ \A d \in Documents : r.open[d] # None =>
            s[r.open[d]] = d /\ r.retiring[d] = None /\ d \in known
    /\ \A d \in Documents : r.retiring[d] # None =>
            s[r.retiring[d]] \in {d, None} /\ d \in known
    /\ \A t \in Threads : s[t] # None =>
            \/ r.open[s[t]] = t
            \/ r.retiring[s[t]] = t
            \/ s[t] \notin known
    /\ \A t, u \in Threads : s[t] = s[u] /\ s[t] # None => t = u
    /\ \A h \in Handlers : task[h].phase = "holding" =>
            r.open[task[h].document] = task[h].thread

\* A creation that has a document nobody was told of.
Minting(h) == task[h].phase \in {"seeding", "spawning", "registering"}

\* What a request in progress may rely on.
TaskOK(h) ==
    /\ task[h].phase \in {"wanting", "refused", "holding"} =>
            task[h].document \in known
    /\ task[h].thread # None <=> task[h].phase \in {"holding", "registering"}
    /\ task[h].phase \in {"charging", "genesis"} => task[h].subject \in Subjects
    /\ Minting(h) => /\ task[h].document \in Documents \ known
                     /\ creator[task[h].document] # None
    /\ task[h].phase \in {"spawning", "registering"} => task[h].document \in owned
    /\ task[h].phase \in {"seeding", "spawning"} =>
            \A t \in Threads : serves[t] # task[h].document
    /\ task[h].phase = "registering" => serves[task[h].thread] = task[h].document

\* Two creations never have the same document.
Apart ==
    \A g, h \in Handlers :
        Minting(g) /\ Minting(h) /\ g # h => task[g].document # task[h].document

\* Only documents that exist have threads.
ServedExist == \A t \in Threads : serves[t] # None => creator[serves[t]] # None

IInv ==
    /\ TypeOK
    /\ KnownIsOwned
    /\ Sound(registry, serves)
    /\ \A h \in Handlers : TaskOK(h)
    /\ Apart
    /\ ServedExist

----------------------------------------------------------------------------
(***************************************************************************)
(* Sweeps                                                                  *)
(***************************************************************************)

\* What a sweep that stops some documents leaves: a document it stops is closed,
\* and retiring or joined; the others keep their thread, retiring ones unless
\* it has exited.
Stopped(r, s, docs) ==
    /\ r \in Registries
    /\ s \in [Threads -> Documents \cup {None}]
    /\ \A d \in Documents :
        /\ r.open[d] = IF d \in docs THEN None ELSE registry.open[d]
        /\ r.retiring[d] # None =>
            \/ r.retiring[d] = registry.retiring[d]
            \/ d \in docs /\ r.retiring[d] = registry.open[d]
        /\ (d \notin docs /\ r.retiring[d] = None /\ registry.retiring[d] # None) =>
            serves[registry.retiring[d]] = None
    /\ \A t \in Threads :
        \/ s[t] = serves[t]
        \/ s[t] = None /\ \E d \in docs : registry.open[d] = t
    /\ \A d \in docs :
        \/ r.retiring[d] = registry.open[d]
        \/ s[registry.open[d]] = None

LEMMA StopEffect ==
    ASSUME TypeOK, Sound(registry, serves),
           NEW docs, docs \subseteq Opened(registry), NEW after \in Stop(docs)
    PROVE  Stopped(after.registry, Joined(after.joined), docs)
<1>1. PICK slow \in SUBSET docs :
        /\ after.registry = Retired(Reaped(registry), docs, slow)
        /\ after.joined = {registry.open[d] : d \in docs \ slow}
  BY DEF Stop
<1>2. docs \subseteq Documents /\ \A d \in docs : registry.open[d] \in Threads
  BY DEF Opened, TypeOK, Registries
<1>3. /\ Reaped(registry).open = registry.open
      /\ Reaped(registry).warm = registry.warm
      /\ \A d \in Documents : Reaped(registry).retiring[d] =
            IF registry.retiring[d] # None /\ serves[registry.retiring[d]] = None
            THEN None ELSE registry.retiring[d]
      /\ Reaped(registry) \in Registries
  BY DEF Reaped, TypeOK, Registries
<1>4. /\ \A d \in Documents : after.registry.open[d] =
            IF d \in docs THEN None ELSE registry.open[d]
      /\ \A d \in Documents : after.registry.retiring[d] =
            IF d \in slow THEN registry.open[d] ELSE Reaped(registry).retiring[d]
      /\ after.registry \in Registries
  BY <1>1, <1>2, <1>3 DEF Retired, Registries
<1>5. /\ Joined(after.joined) \in [Threads -> Documents \cup {None}]
      /\ \A t \in Threads : Joined(after.joined)[t] =
            IF \E d \in docs \ slow : registry.open[d] = t THEN None ELSE serves[t]
  BY <1>1 DEF Joined, TypeOK
<1>6. \A d \in docs : registry.retiring[d] = None
  BY <1>2, RegistryAssumption DEF Sound, Opened
<1>7. QED
  BY <1>1, <1>2, <1>3, <1>4, <1>5, <1>6 DEF Stopped

\* No sweep stops a document that is held or breaks what holds between steps.
LEMMA StopSound ==
    ASSUME TypeOK, Sound(registry, serves), \A h \in Handlers : TaskOK(h),
           NEW docs, docs \subseteq SolelyHeld, NEW after \in Stop(docs)
    PROVE  Sound(after.registry, Joined(after.joined))
<1> DEFINE r == after.registry
           s == Joined(after.joined)
<1>1. docs \subseteq Opened(registry) /\ docs \subseteq Documents
  BY DEF SolelyHeld, Opened
<1>2. Stopped(r, s, docs)
  BY <1>1, StopEffect
<1> HIDE DEF r, s
<1>3. /\ registry.open \in [Documents -> Threads \cup {None}]
      /\ registry.retiring \in [Documents -> Threads \cup {None}]
      /\ serves \in [Threads -> Documents \cup {None}]
      /\ None \notin Documents \cup Threads
  BY RegistryAssumption DEF TypeOK, Registries
<1>4. \A d \in Documents : r.open[d] # None =>
            s[r.open[d]] = d /\ r.retiring[d] = None /\ d \in known
  <2> SUFFICES ASSUME NEW d \in Documents, r.open[d] # None
               PROVE  s[r.open[d]] = d /\ r.retiring[d] = None /\ d \in known
    OBVIOUS
  <2>1. d \notin docs /\ r.open[d] = registry.open[d] /\ registry.open[d] \in Threads
    BY <1>2, <1>3 DEF Stopped
  <2>2. serves[registry.open[d]] = d /\ registry.retiring[d] = None /\ d \in known
    BY <2>1, <1>3 DEF Sound
  <2>3. r.retiring[d] = None
    BY <1>2, <2>1, <2>2 DEF Stopped
  <2>4. ASSUME NEW e \in docs, registry.open[e] = registry.open[d] PROVE FALSE
    BY <2>1, <2>2, <2>4, <1>1, <1>3 DEF Sound
  <2>5. QED
    BY <2>1, <2>2, <2>3, <2>4, <1>2 DEF Stopped
<1>5. \A d \in Documents : r.retiring[d] # None =>
            s[r.retiring[d]] \in {d, None} /\ d \in known
  <2> SUFFICES ASSUME NEW d \in Documents, r.retiring[d] # None
               PROVE  s[r.retiring[d]] \in {d, None} /\ d \in known
    OBVIOUS
  <2>1. CASE r.retiring[d] = registry.retiring[d]
    <3>1. /\ r.retiring[d] \in Threads
          /\ serves[r.retiring[d]] \in {d, None}
          /\ d \in known
      BY <2>1, <1>3 DEF Sound
    <3>2. QED
      BY <3>1, <1>2 DEF Stopped
  <2>2. CASE d \in docs /\ r.retiring[d] = registry.open[d]
    <3>1. /\ r.retiring[d] \in Threads
          /\ serves[r.retiring[d]] = d
          /\ d \in known
      BY <2>2, <1>3 DEF Sound
    <3>2. QED
      BY <3>1, <1>2 DEF Stopped
  <2>3. QED
    BY <2>1, <2>2, <1>2 DEF Stopped
<1>6. \A t \in Threads : s[t] # None =>
            r.open[s[t]] = t \/ r.retiring[s[t]] = t \/ s[t] \notin known
  <2> SUFFICES ASSUME NEW t \in Threads, s[t] # None, s[t] \in known
               PROVE  r.open[s[t]] = t \/ r.retiring[s[t]] = t
    OBVIOUS
  <2>1. s[t] = serves[t] /\ s[t] \in Documents
    BY <1>2, <1>3 DEF Stopped
  <2>2. registry.open[s[t]] = t \/ registry.retiring[s[t]] = t
    BY <2>1 DEF Sound
  <2>3. CASE registry.open[s[t]] = t
    <3>1. s[t] \in docs => r.retiring[s[t]] = t
      BY <1>2, <2>3 DEF Stopped
    <3>2. s[t] \notin docs => r.open[s[t]] = t
      BY <1>2, <2>1, <2>3 DEF Stopped
    <3>3. QED
      BY <3>1, <3>2
  <2>4. CASE registry.retiring[s[t]] = t
    <3>1. registry.open[s[t]] = None
      BY <2>4, <2>1, <1>3 DEF Sound
    <3>2. s[t] \notin docs
      BY <3>1, <1>1 DEF Opened
    <3>3. r.retiring[s[t]] # None
      BY <3>2, <2>1, <2>4, <1>2, <1>3 DEF Stopped
    <3>4. QED
      BY <3>2, <3>3, <2>1, <2>4, <1>2 DEF Stopped
  <2>5. QED
    BY <2>2, <2>3, <2>4
<1>7. \A t, u \in Threads : s[t] = s[u] /\ s[t] # None => t = u
  BY <1>2, <1>3 DEF Sound, Stopped
<1>8. ASSUME NEW h \in Handlers, task[h].phase = "holding"
      PROVE  r.open[task[h].document] = task[h].thread
  <2>1. /\ task[h].document \in known
        /\ known \subseteq Documents
        /\ registry.open[task[h].document] = task[h].thread
    BY <1>8 DEF TaskOK, Sound, TypeOK
  <2>2. task[h].document \notin docs
    BY <2>1 DEF SolelyHeld, Held
  <2>3. QED
    BY <2>1, <2>2, <1>2 DEF Stopped
<1>9. QED
  BY <1>2, <1>4, <1>5, <1>6, <1>7, <1>8 DEF Sound, r, s, Stopped

\* The same for every sweep a lookup or a creation makes before it goes on.
LEMMA ReclaimSound ==
    ASSUME TypeOK, Sound(registry, serves), \A h \in Handlers : TaskOK(h),
           NEW taking, NEW after \in ReclaimBeforeAdmitting(taking)
    PROVE  /\ Sound(after.registry, Joined(after.joined))
           /\ \A d \in taking \cap Documents :
                after.registry.open[d] = registry.open[d]
           /\ \A d \in Documents : registry.open[d] = None =>
                after.registry.open[d] = None
           /\ \A t \in Threads :
                \/ Joined(after.joined)[t] = serves[t]
                \/ Joined(after.joined)[t] = None /\ serves[t] \in known
<1>1. CASE after \in Reclaim(taking)
  <2>1. after \in Stop(Reclaimable(taking))
    BY <1>1 DEF Reclaim
  <2>2. /\ Reclaimable(taking) \subseteq SolelyHeld
        /\ Reclaimable(taking) \subseteq Opened(registry)
        /\ Reclaimable(taking) \cap taking = {}
    BY DEF Reclaimable, SolelyHeld
  <2>3. Sound(after.registry, Joined(after.joined))
    BY <2>1, <2>2, StopSound
  <2>4. Stopped(after.registry, Joined(after.joined), Reclaimable(taking))
    BY <2>1, <2>2, StopEffect
  <2>5. \A d \in Reclaimable(taking) : serves[registry.open[d]] \in known
    BY <2>2 DEF Opened, Sound
  <2>6. QED
    BY <2>2, <2>3, <2>4, <2>5 DEF Stopped
<1>2. CASE after = [registry |-> registry, joined |-> {}]
  <2>1. after.registry = registry /\ Joined(after.joined) = serves
    BY <1>2 DEF Joined, TypeOK
  <2>2. QED
    BY <2>1
<1>3. QED
  BY <1>1, <1>2 DEF ReclaimBeforeAdmitting

\* Looking once more at a retiring uuid forgets only threads that have exited.
LEMMA LookAgainSound ==
    ASSUME TypeOK, NEW r, NEW s, Sound(r, s), NEW d,
           \A t \in Threads : s[t] = serves[t] \/ s[t] = None
    PROVE  /\ Sound(LookAgain(r, d), s)
           /\ LookAgain(r, d).open = r.open
<1>1. CASE r.retiring[d] = None
  BY <1>1 DEF LookAgain
<1>2. CASE r.retiring[d] # None
  <2>1. LookAgain(r, d) = Reaped(r)
    BY <1>2 DEF LookAgain
  <2>2. r \in Registries
    BY DEF Sound
  <2>3. /\ Reaped(r) \in Registries
        /\ Reaped(r).open = r.open
        /\ \A e \in Documents : Reaped(r).retiring[e] =
                IF r.retiring[e] # None /\ serves[r.retiring[e]] = None
                THEN None ELSE r.retiring[e]
    BY <2>2 DEF Reaped, Registries
  <2>4. \A e \in Documents : r.retiring[e] # None => r.retiring[e] \in Threads
    BY <2>2 DEF Registries
  <2>5. \A t \in Threads : s[t] # None => serves[t] = s[t] /\ s[t] \in Documents
    BY DEF Sound
  <2>6. Sound(Reaped(r), s)
    BY <2>3, <2>4, <2>5 DEF Sound
  <2>7. QED
    BY <2>1, <2>3, <2>6
<1>3. QED
  BY <1>1, <1>2

----------------------------------------------------------------------------
(***************************************************************************)
(* Every action keeps the invariant                                        *)
(***************************************************************************)

\* A service that has just started satisfies the invariant.
LEMMA InitInv == Init => IInv
<1> SUFFICES ASSUME Init PROVE IInv
  OBVIOUS
<1>1. TypeOK
  BY RegistryAssumption
     DEF Init, TypeOK, Registries, Empty, Tasks, Phases, Idle
<1>2. Sound(registry, serves)
  BY <1>1, RegistryAssumption DEF Init, Sound, TypeOK, Empty, Idle
<1>3. QED
  BY <1>1, <1>2, RegistryAssumption
     DEF Init, IInv, KnownIsOwned, TaskOK, Minting, Apart, ServedExist, Idle

\* How a handler's request changes when it is given a handle, goes on to its
\* next phase, or ends.
LEMMA HoldTask ==
    ASSUME TypeOK, NEW h \in Handlers, NEW t \in Threads, Hold(h, t)
    PROVE  /\ task' \in [Handlers -> Tasks]
           /\ task'[h].phase = "holding"
           /\ task'[h].document = task[h].document
           /\ task'[h].thread = t
           /\ \A g \in Handlers : g # h => task'[g] = task[g]
<1>1. task[h] \in Tasks
  BY DEF TypeOK
<1>2. task' = [task EXCEPT ![h] = [task[h] EXCEPT !.phase = "holding", !.thread = t]]
  BY <1>1 DEF Hold, TypeOK, Tasks
<1>3. [task[h] EXCEPT !.phase = "holding", !.thread = t] \in Tasks
  BY <1>1 DEF Tasks, Phases
<1>4. QED
  BY <1>1, <1>2, <1>3 DEF TypeOK, Tasks

\* Going on to the next phase keeps everything else of the request.
LEMMA ContinueTask ==
    ASSUME TypeOK, NEW h \in Handlers, NEW phase \in Phases, Continue(h, phase)
    PROVE  /\ task' \in [Handlers -> Tasks]
           /\ task'[h].phase = phase
           /\ task'[h].document = task[h].document
           /\ task'[h].subject = task[h].subject
           /\ task'[h].thread = task[h].thread
           /\ \A g \in Handlers : g # h => task'[g] = task[g]
  BY DEF TypeOK, Tasks, Continue

\* A request that ends leaves nothing behind in its handler.
LEMMA AbandonTask ==
    ASSUME TypeOK, NEW h \in Handlers, Abandon(h)
    PROVE  /\ task' \in [Handlers -> Tasks]
           /\ task'[h] = Idle
           /\ \A g \in Handlers : g # h => task'[g] = task[g]
  BY DEF TypeOK, Tasks, Abandon, Idle, Phases

\* A request that holds no handle and has no document of its own yet.
Settled(x) ==
    /\ x.thread = None
    /\ x.phase \in {"idle", "wanting", "refused", "charging", "genesis"}
    /\ x.phase \in {"wanting", "refused"} => x.document \in known
    /\ x.phase \in {"charging", "genesis"} => x.subject \in Subjects

\* A step that keeps the registry sound, may end threads that no creation is
\* about to register, and leaves every request as it was or settled.
LEMMA SettledStep ==
    ASSUME IInv, Sound(registry', serves'),
           \A t \in Threads :
                \/ serves'[t] = serves[t]
                \/ /\ serves'[t] = None
                   /\ \A g \in Handlers :
                        task[g].phase = "registering" => task[g].thread # t,
           UNCHANGED <<creator, owned, known>>,
           charged' \in [Subjects -> 0..MaxCreated], faults' \in 0..MaxFaults,
           task' \in [Handlers -> Tasks],
           \A g \in Handlers : task'[g] = task[g] \/ Settled(task'[g])
    PROVE  IInv'
<1> USE RegistryAssumption DEF IInv
<1>1. TypeOK' /\ KnownIsOwned' /\ ServedExist'
  BY DEF TypeOK, KnownIsOwned, ServedExist, Sound
<1>2. Sound(registry, serves)'
  BY DEF Sound, Settled
<1>3. ASSUME NEW g \in Handlers PROVE TaskOK(g)'
  <2>1. CASE task'[g] = task[g]
    <3>1. task[g].phase = "registering" =>
            task[g].thread \in Threads /\ task[g].document \in Documents
      BY DEF TaskOK, TypeOK, Tasks, Minting
    <3>2. task[g].phase \in {"seeding", "spawning"} =>
            task[g].document # None
      BY DEF TaskOK, Minting
    <3>3. QED
      BY <2>1, <3>1, <3>2 DEF TaskOK, Minting
  <2>2. CASE Settled(task'[g])
    BY <2>2 DEF TaskOK, Minting, Settled
  <2>3. QED
    BY <2>1, <2>2
<1>4. Apart'
  BY DEF Apart, Minting, Settled
<1>5. QED
  BY <1>1, <1>2, <1>3, <1>4

\* A sweep ends no thread that a creation is about to register.
LEMMA SweepSpares ==
    ASSUME IInv, NEW s,
           \A t \in Threads :
                s[t] = serves[t] \/ (s[t] = None /\ serves[t] \in known)
    PROVE  \A t \in Threads :
                \/ s[t] = serves[t]
                \/ /\ s[t] = None
                   /\ \A g \in Handlers :
                        task[g].phase = "registering" => task[g].thread # t
  BY DEF IInv, TaskOK, Minting

\* Asking, asking again, giving up and dropping a handle touch no document.
LEMMA AskSteps ==
    ASSUME IInv, NEW h \in Handlers,
           \/ \E d \in Documents : Want(h, d)
           \/ AskAgain(h) \/ GiveUp(h) \/ Release(h)
    PROVE  IInv'
<1>1. /\ UNCHANGED <<registry, serves, creator, owned, charged, known, faults>>
      /\ task' \in [Handlers -> Tasks]
      /\ \A g \in Handlers : task'[g] = task[g] \/ Settled(task'[g])
  BY RegistryAssumption
     DEF Want, AskAgain, GiveUp, Release, IInv, TypeOK, Tasks, Phases, Idle,
         TaskOK, Settled, durable
<1>2. QED
  BY <1>1, SettledStep DEF IInv, TypeOK

\* A refused lookup leaves what its sweep left.
LEMMA RefuseStep ==
    ASSUME IInv, NEW h \in Handlers, Refuse(h)
    PROVE  IInv'
<1> DEFINE d == task[h].document
<1>1. PICK after \in ReclaimBeforeAdmitting({}) :
        /\ registry' = LookAgain(after.registry, d)
        /\ serves' = Joined(after.joined)
  BY DEF Refuse
<1>2. /\ task[h].phase = "wanting"
      /\ Continue(h, "refused")
      /\ faults' = faults \/ Fault
      /\ UNCHANGED <<creator, owned, charged, known>>
  BY DEF Refuse, durable, Continue
<1>3. /\ Sound(after.registry, serves')
      /\ \A t \in Threads :
            serves'[t] = serves[t] \/ (serves'[t] = None /\ serves[t] \in known)
  BY <1>1, ReclaimSound DEF IInv
<1>4. Sound(registry', serves')
  BY <1>1, <1>3, LookAgainSound DEF IInv
<1>5. /\ task' \in [Handlers -> Tasks]
      /\ \A g \in Handlers : task'[g] = task[g] \/ Settled(task'[g])
  BY <1>2, ContinueTask DEF IInv, TaskOK, Settled, Phases
<1>6. faults' \in 0..MaxFaults
  BY <1>2, RegistryAssumption DEF IInv, TypeOK, Fault
<1>7. QED
  BY <1>2, <1>3, <1>4, <1>5, <1>6, SweepSpares, SettledStep DEF IInv, TypeOK

\* The document whose handle is taken is spared by the lookup's own sweep.
LEMMA HandOutStep ==
    ASSUME IInv, NEW h \in Handlers, HandOut(h)
    PROVE  IInv'
<1> USE RegistryAssumption DEF IInv
<1> DEFINE d == task[h].document
<1>1. PICK after \in ReclaimBeforeAdmitting({d}) :
        /\ registry' = [after.registry EXCEPT !.warm = @ \cup {d}]
        /\ serves' = Joined(after.joined)
  BY DEF HandOut
<1>2. /\ task[h].phase = "wanting"
      /\ registry.open[d] # None
      /\ Hold(h, registry.open[d])
      /\ UNCHANGED <<creator, owned, charged, known, faults>>
  BY DEF HandOut, durable
<1>3. d \in known /\ d \in Documents /\ registry.open[d] \in Threads
  BY <1>2 DEF TaskOK, TypeOK, Registries
<1>4. /\ Sound(after.registry, serves')
      /\ after.registry.open[d] = registry.open[d]
      /\ \A t \in Threads : serves'[t] = serves[t] \/ (serves'[t] = None /\ serves[t] \in known)
  BY <1>1, <1>3, ReclaimSound
<1>5. /\ registry' \in Registries
      /\ registry'.open = after.registry.open
      /\ registry'.retiring = after.registry.retiring
  <2>1. after.registry \in Registries
    BY <1>4 DEF Sound
  <2>2. QED
    BY <1>1, <1>3, <2>1 DEF Registries
<1>6. /\ task' \in [Handlers -> Tasks]
      /\ task'[h].phase = "holding"
      /\ task'[h].document = d
      /\ task'[h].thread = registry.open[d]
      /\ \A g \in Handlers : g # h => task'[g] = task[g]
  BY <1>2, <1>3, HoldTask
<1>7. TypeOK' /\ KnownIsOwned'
  <2>1. serves' \in [Threads -> Documents \cup {None}]
    BY <1>4 DEF Sound
  <2>2. QED
    BY <1>2, <1>5, <1>6, <2>1 DEF TypeOK, KnownIsOwned
<1>8. Sound(registry, serves)'
  BY <1>2, <1>3, <1>4, <1>5, <1>6 DEF Sound
<1>9. \A g \in Handlers : TaskOK(g)'
  <2>1. ASSUME NEW g \in Handlers, g # h PROVE TaskOK(g)'
    <3>1. task[g].phase \in {"seeding", "spawning"} =>
            \A t \in Threads : serves'[t] # task[g].document
      BY <1>4 DEF TaskOK, Minting
    <3>2. task[g].phase = "registering" =>
            serves'[task[g].thread] = task[g].document
      BY <1>4 DEF TaskOK, Minting, TypeOK, Tasks
    <3>3. QED
      BY <1>2, <1>6, <2>1, <3>1, <3>2 DEF TaskOK, Minting
  <2>2. TaskOK(h)'
    BY <1>2, <1>3, <1>6 DEF TaskOK, Minting
  <2>3. QED
    BY <2>1, <2>2
<1>10. Apart' /\ ServedExist'
  BY <1>2, <1>4, <1>6 DEF Apart, Minting, ServedExist
<1>11. QED
  BY <1>7, <1>8, <1>9, <1>10

\* A thread is started for a document that is neither open nor retiring, so
\* no other thread is in its loop.
LEMMA StartStep ==
    ASSUME IInv, NEW h \in Handlers, Start(h)
    PROVE  IInv'
<1> USE RegistryAssumption DEF IInv
<1> DEFINE d == task[h].document
<1>1. PICK after \in ReclaimBeforeAdmitting({}) :
        LET r == LookAgain(after.registry, d)
            s == Joined(after.joined)
            t == Spawned(r, s)
        IN  /\ MayStart(r, d)
            /\ Free(r, s) # {}
            /\ registry' = Registered(r, d, t)
            /\ serves' = [s EXCEPT ![t] = d]
            /\ Hold(h, t)
  BY DEF Start
<1> DEFINE r == LookAgain(after.registry, d)
           s == Joined(after.joined)
           t == Spawned(r, s)
<1>2. /\ task[h].phase = "wanting"
      /\ registry.open[d] = None
      /\ UNCHANGED <<creator, owned, charged, known, faults>>
  BY DEF Start, durable
<1>3. d \in known /\ d \in Documents
  BY <1>2 DEF TaskOK, TypeOK
<1>4. /\ Sound(after.registry, s)
      /\ after.registry.open[d] = None
      /\ \A u \in Threads : s[u] = serves[u] \/ (s[u] = None /\ serves[u] \in known)
  BY <1>2, <1>3, ReclaimSound
<1>5. /\ Sound(r, s)
      /\ r.open[d] = None
  BY <1>3, <1>4, LookAgainSound
<1>6. r.retiring[d] = None
  BY <1>1 DEF MayStart
<1>7. /\ t \in Threads
      /\ s[t] = None
      /\ \A e \in Documents : r.retiring[e] # t
  BY <1>1 DEF Spawned, Free
<1> HIDE DEF r, s, t
<1>8. /\ registry' = Registered(r, d, t)
      /\ serves' = [s EXCEPT ![t] = d]
      /\ Hold(h, t)
  BY <1>1 DEF r, s, t
<1>9. /\ registry' \in Registries
      /\ registry'.open = [r.open EXCEPT ![d] = t]
      /\ registry'.retiring = r.retiring
  <2>1. r \in Registries
    BY <1>5 DEF Sound
  <2>2. QED
    BY <1>3, <1>7, <1>8, <2>1 DEF Registered, Registries
<1>10. /\ serves' \in [Threads -> Documents \cup {None}]
       /\ serves'[t] = d
       /\ \A u \in Threads : u # t => serves'[u] = s[u]
       /\ r.open \in [Documents -> Threads \cup {None}]
       /\ r.retiring \in [Documents -> Threads \cup {None}]
  BY <1>3, <1>5, <1>7, <1>8 DEF Sound, Registries
<1>11. /\ task' \in [Handlers -> Tasks]
       /\ task'[h].phase = "holding"
       /\ task'[h].document = d
       /\ task'[h].thread = t
       /\ \A g \in Handlers : g # h => task'[g] = task[g]
  BY <1>7, <1>8, HoldTask
<1>12. \A u \in Threads : s[u] # d
  BY <1>3, <1>5, <1>6 DEF Sound
<1>13. TypeOK' /\ KnownIsOwned'
  BY <1>2, <1>9, <1>10, <1>11 DEF TypeOK, KnownIsOwned
<1>14. Sound(registry, serves)'
  <2>1. \A e \in Documents : registry'.open[e] # None =>
            /\ serves'[registry'.open[e]] = e
            /\ registry'.retiring[e] = None
            /\ e \in known
    BY <1>3, <1>5, <1>6, <1>7, <1>9, <1>10 DEF Sound
  <2>2. \A e \in Documents : registry'.retiring[e] # None =>
            serves'[registry'.retiring[e]] \in {e, None} /\ e \in known
    BY <1>5, <1>7, <1>9, <1>10 DEF Sound
  <2>3. \A u \in Threads : serves'[u] # None =>
            \/ registry'.open[serves'[u]] = u
            \/ registry'.retiring[serves'[u]] = u
            \/ serves'[u] \notin known
    BY <1>3, <1>5, <1>7, <1>9, <1>10, <1>12 DEF Sound
  <2>4. \A u, v \in Threads : serves'[u] = serves'[v] /\ serves'[u] # None => u = v
    BY <1>5, <1>10, <1>12 DEF Sound
  <2>5. \A g \in Handlers : task'[g].phase = "holding" =>
            registry'.open[task'[g].document] = task'[g].thread
    <3>1. ASSUME NEW g \in Handlers, g # h, task[g].phase = "holding"
          PROVE  registry'.open[task[g].document] = task[g].thread
      <4>1. /\ r.open[task[g].document] = task[g].thread
            /\ task[g].thread # None
        BY <1>5, <3>1 DEF Sound, TaskOK
      <4>2. task[g].document # d
        BY <1>5, <4>1
      <4>3. QED
        BY <1>9, <4>1, <4>2
    <3>2. registry'.open[d] = t
      BY <1>3, <1>9, <1>10
    <3>3. QED
      BY <1>11, <3>1, <3>2
  <2>6. QED
    BY <1>2, <1>9, <1>10, <2>1, <2>2, <2>3, <2>4, <2>5 DEF Sound
<1>15. \A g \in Handlers : TaskOK(g)'
  <2>1. ASSUME NEW g \in Handlers, g # h
        PROVE  TaskOK(g)'
    <3>1. /\ task[g].phase \in {"seeding", "spawning"} =>
                \A u \in Threads : serves'[u] # task[g].document
          /\ task[g].phase = "registering" =>
                serves'[task[g].thread] = task[g].document
      <4>1. Minting(g) => task[g].document \notin known
        BY DEF TaskOK
      <4>2. task[g].phase = "registering" =>
                /\ task[g].thread \in Threads
                /\ serves[task[g].thread] = task[g].document
                /\ task[g].document \in Documents
        BY DEF TaskOK, TypeOK, Tasks, Minting
      <4>3. task[g].phase \in {"seeding", "spawning"} =>
                \A u \in Threads : s[u] # task[g].document
        BY <1>4 DEF TaskOK, Minting
      <4>4. QED
        BY <1>3, <1>4, <1>7, <1>10, <4>1, <4>2, <4>3 DEF Minting
    <3>2. QED
      BY <1>2, <1>11, <2>1, <3>1 DEF TaskOK, Minting
  <2>2. TaskOK(h)'
    BY <1>2, <1>3, <1>7, <1>11 DEF TaskOK, Minting
  <2>3. QED
    BY <2>1, <2>2
<1>16. Apart'
  BY <1>11 DEF Apart, Minting
<1>17. ServedExist'
  <2>1. creator[d] # None
    BY <1>3 DEF KnownIsOwned
  <2>2. QED
    BY <1>2, <1>4, <1>10, <2>1 DEF ServedExist
<1>18. QED
  BY <1>13, <1>14, <1>15, <1>16, <1>17

\* The first check of a creation does no more than its sweep.
LEMMA AdmitStep ==
    ASSUME IInv, NEW h \in Handlers, NEW subject \in Subjects, Admit(h, subject)
    PROVE  IInv'
<1>1. PICK after \in ReclaimBeforeAdmitting({}) :
        registry' = after.registry /\ serves' = Joined(after.joined)
  BY DEF Admit
<1>2. /\ Sound(registry', serves')
      /\ \A t \in Threads :
            serves'[t] = serves[t] \/ (serves'[t] = None /\ serves[t] \in known)
  BY <1>1, ReclaimSound DEF IInv
<1>3. /\ task' \in [Handlers -> Tasks]
      /\ \A g \in Handlers : task'[g] = task[g] \/ Settled(task'[g])
  BY RegistryAssumption
     DEF Admit, IInv, TypeOK, Tasks, Phases, TaskOK, Settled
<1>4. UNCHANGED <<creator, owned, charged, known, faults>>
  BY DEF Admit, durable
<1>5. QED
  BY <1>2, <1>3, <1>4, SweepSpares, SettledStep DEF IInv, TypeOK

\* A timed or an operator's sweep stops documents only the registry holds.
LEMMA SweepStep ==
    ASSUME IInv, Sweep
    PROVE  IInv'
<1>1. PICK after \in Reclaim({}) \cup Stop(SolelyHeld) :
        registry' = after.registry /\ serves' = Joined(after.joined)
  BY DEF Sweep
<1>2. PICK docs \in SUBSET SolelyHeld : after \in Stop(docs)
  BY <1>1 DEF Reclaim, Reclaimable
<1>3. docs \subseteq Opened(registry)
  BY DEF SolelyHeld
<1>4. Sound(registry', serves')
  BY <1>1, <1>2, StopSound DEF IInv
<1>5. Stopped(registry', serves', docs)
  BY <1>1, <1>2, <1>3, StopEffect DEF IInv
<1>6. \A t \in Threads :
            serves'[t] = serves[t] \/ (serves'[t] = None /\ serves[t] \in known)
  BY <1>3, <1>5 DEF Stopped, Opened, IInv, Sound
<1>7. UNCHANGED <<task, creator, owned, charged, known, faults>>
  BY DEF Sweep, durable
<1>8. QED
  BY <1>4, <1>6, <1>7, SweepSpares, SettledStep DEF IInv, TypeOK

\* Time passing, a thread leaving its loop, and a creation being charged or
\* failing.
LEMMA QuietSteps ==
    ASSUME IInv,
           \/ \E d \in Documents : Cool(d)
           \/ \E t \in Threads : Exit(t)
           \/ \E h \in Handlers : Charge(h) \/ CreateFails(h)
    PROVE  IInv'
<1> USE RegistryAssumption DEF IInv
<1>1. ASSUME NEW d \in Documents, Cool(d) PROVE IInv'
  <2>1. UNCHANGED <<serves, task, creator, owned, charged, known, faults>>
    BY <1>1 DEF Cool, durable
  <2>2. /\ registry' \in Registries
        /\ registry'.open = registry.open
        /\ registry'.retiring = registry.retiring
    BY <1>1 DEF Cool, TypeOK, Registries
  <2>3. Sound(registry', serves')
    BY <2>1, <2>2 DEF Sound
  <2>4. QED
    BY <2>1, <2>3, SettledStep DEF TypeOK
<1>2. ASSUME NEW t \in Threads, Exit(t) PROVE IInv'
  <2>1. /\ UNCHANGED <<registry, task, creator, owned, charged, known, faults>>
        /\ serves' = [serves EXCEPT ![t] = None]
        /\ \A g \in Handlers : task[g].thread # t
        /\ \A d \in Documents : registry.open[d] # t
    BY <1>2 DEF Exit, durable, Held
  <2>2. Sound(registry', serves')
    BY <2>1 DEF Sound, Registries
  <2>3. \A u \in Threads : serves'[u] = serves[u] \/ (serves'[u] = None /\ u = t)
    BY <2>1 DEF TypeOK
  <2>4. QED
    BY <2>1, <2>2, <2>3, SettledStep DEF TypeOK
<1>3. ASSUME NEW h \in Handlers, Charge(h) PROVE IInv'
  <2>1. /\ UNCHANGED <<registry, serves, creator, owned, known, faults>>
        /\ task[h].phase = "charging"
        /\ task[h].subject \in Subjects
        /\ task[h].thread = None
    BY <1>3 DEF Charge, TaskOK
  <2>2. /\ charged' \in [Subjects -> 0..MaxCreated]
        /\ Abandon(h) \/ Continue(h, "genesis")
    BY <1>3, <2>1 DEF Charge, TypeOK
  <2>3. /\ task' \in [Handlers -> Tasks]
        /\ \A g \in Handlers : task'[g] = task[g] \/ Settled(task'[g])
    BY <2>1, <2>2, ContinueTask, AbandonTask DEF Settled, Phases, Idle
  <2>4. QED
    BY <2>1, <2>2, <2>3, SettledStep DEF TypeOK
<1>4. ASSUME NEW h \in Handlers, CreateFails(h) PROVE IInv'
  <2>1. /\ UNCHANGED <<registry, serves, creator, owned, charged, known>>
        /\ faults' \in 0..MaxFaults
        /\ Abandon(h)
    BY <1>4 DEF CreateFails, Fault, TypeOK, durable
  <2>2. /\ task' \in [Handlers -> Tasks]
        /\ \A g \in Handlers : task'[g] = task[g] \/ Settled(task'[g])
    BY <2>1, AbandonTask DEF Settled, Idle
  <2>3. QED
    BY <2>1, <2>2, SettledStep DEF TypeOK
<1>5. QED
  BY <1>1, <1>2, <1>3, <1>4

\* A restart forgets everything that is not durable.
LEMMA RestartStep ==
    ASSUME IInv, Restart
    PROVE  IInv'
<1>1. /\ registry' = Empty /\ serves' = [t \in Threads |-> None]
      /\ task' = [h \in Handlers |-> Idle]
      /\ UNCHANGED <<creator, owned, charged, known>>
      /\ faults' \in 0..MaxFaults
  BY RegistryAssumption DEF Restart, durable, Fault, IInv, TypeOK
<1>2. TypeOK'
  BY <1>1 DEF IInv, TypeOK, Registries, Empty, Tasks, Phases, Idle
<1>3. Sound(registry, serves)'
  BY <1>1, <1>2, RegistryAssumption DEF Sound, TypeOK, Empty, Idle
<1>4. QED
  BY <1>1, <1>2, <1>3, RegistryAssumption
     DEF IInv, KnownIsOwned, TaskOK, Minting, Apart, ServedExist, Idle

\* The document a creation makes is one nobody has and no thread serves.
LEMMA GenesisStep ==
    ASSUME IInv, NEW h \in Handlers, Genesis(h)
    PROVE  IInv'
<1> USE RegistryAssumption DEF IInv
<1> DEFINE n == NewUuid
<1>1. n \in Documents /\ creator[n] = None
  BY DEF Genesis, NewUuid
<1>2. /\ task[h].phase = "genesis"
      /\ creator' = [creator EXCEPT ![n] = task[h].subject]
      /\ task' = [task EXCEPT ![h].phase = "seeding", ![h].document = n]
      /\ UNCHANGED <<registry, serves, owned, charged, known, faults>>
  BY DEF Genesis
<1> HIDE DEF n
<1>3. task[h].subject \in Subjects /\ task[h].thread = None /\ task[h] \in Tasks
  BY <1>2 DEF TaskOK, TypeOK
<1>4. n \notin owned /\ n \notin known
  BY <1>1 DEF KnownIsOwned
<1>5. \A t \in Threads : serves[t] # n
  BY <1>1 DEF ServedExist
<1>6. /\ task' \in [Handlers -> Tasks]
      /\ task'[h].phase = "seeding"
      /\ task'[h].document = n
      /\ task'[h].thread = None
      /\ \A g \in Handlers : g # h => task'[g] = task[g]
  <2>1. task' = [task EXCEPT ![h] = [task[h] EXCEPT !.phase = "seeding", !.document = n]]
    BY <1>2, <1>3 DEF TypeOK, Tasks
  <2>2. [task[h] EXCEPT !.phase = "seeding", !.document = n] \in Tasks
    BY <1>1, <1>3 DEF Tasks, Phases
  <2>3. QED
    BY <1>3, <2>1, <2>2 DEF TypeOK, Tasks
<1>7. /\ creator' \in [Documents -> Subjects \cup {None}]
      /\ creator'[n] # None
      /\ \A d \in Documents : creator[d] # None => creator'[d] = creator[d]
  BY <1>1, <1>2, <1>3 DEF TypeOK
<1>8. TypeOK' /\ KnownIsOwned'
  BY <1>2, <1>6, <1>7 DEF TypeOK, KnownIsOwned
<1>9. Sound(registry, serves)'
  BY <1>2, <1>6 DEF Sound
<1>10. \A g \in Handlers : TaskOK(g)'
  <2>1. ASSUME NEW g \in Handlers, g # h PROVE TaskOK(g)'
    BY <1>2, <1>6, <1>7, <2>1 DEF TaskOK, Minting
  <2>2. TaskOK(h)'
    BY <1>1, <1>2, <1>4, <1>5, <1>6, <1>7 DEF TaskOK, Minting
  <2>3. QED
    BY <2>1, <2>2
<1>11. Apart'
  BY <1>1, <1>6 DEF Apart, Minting, TaskOK
<1>12. ServedExist'
  BY <1>2, <1>7 DEF ServedExist, TypeOK
<1>13. QED
  BY <1>8, <1>9, <1>10, <1>11, <1>12

\* The owner is granted a document that exists already.
LEMMA SeedOwnerStep ==
    ASSUME IInv, NEW h \in Handlers, SeedOwner(h)
    PROVE  IInv'
<1> USE RegistryAssumption DEF IInv
<1>1. /\ task[h].phase = "seeding"
      /\ owned' = owned \cup {task[h].document}
      /\ Continue(h, "spawning")
      /\ UNCHANGED <<registry, serves, creator, charged, known, faults>>
  BY DEF SeedOwner
<1>2. /\ task[h].document \in Documents
      /\ creator[task[h].document] # None
      /\ task[h].thread = None
  BY <1>1 DEF TaskOK, Minting
<1>3. /\ task' \in [Handlers -> Tasks]
      /\ task'[h].phase = "spawning"
      /\ task'[h].document = task[h].document
      /\ task'[h].thread = None
      /\ \A g \in Handlers : g # h => task'[g] = task[g]
  BY <1>1, <1>2, ContinueTask DEF Phases
<1>4. TypeOK' /\ KnownIsOwned'
  BY <1>1, <1>2, <1>3 DEF TypeOK, KnownIsOwned
<1>5. Sound(registry, serves)'
  BY <1>1, <1>3 DEF Sound
<1>6. \A g \in Handlers : TaskOK(g)'
  <2>1. ASSUME NEW g \in Handlers, g # h PROVE TaskOK(g)'
    BY <1>1, <1>3, <2>1 DEF TaskOK, Minting
  <2>2. TaskOK(h)'
    BY <1>1, <1>3 DEF TaskOK, Minting
  <2>3. QED
    BY <2>1, <2>2
<1>7. Apart' /\ ServedExist'
  BY <1>1, <1>3 DEF Apart, Minting, ServedExist
<1>8. QED
  BY <1>4, <1>5, <1>6, <1>7

\* The thread of a created document is the only one in that document's loop.
LEMMA SpawnStep ==
    ASSUME IInv, NEW h \in Handlers, Spawn(h)
    PROVE  IInv'
<1> USE RegistryAssumption DEF IInv
<1> DEFINE n == task[h].document
           t == Spawned(registry, serves)
<1>1. /\ task[h].phase = "spawning"
      /\ UNCHANGED <<registry, creator, owned, charged, known, faults>>
  BY DEF Spawn, durable
<1>2. /\ n \in Documents \ known
      /\ n \in owned
      /\ creator[n] # None
      /\ \A u \in Threads : serves[u] # n
      /\ task[h] \in Tasks
  BY <1>1 DEF TaskOK, Minting, TypeOK
<1>3. CASE Free(registry, serves) = {}
  <2>1. Abandon(h) /\ UNCHANGED serves
    BY <1>3 DEF Spawn
  <2>2. /\ task' \in [Handlers -> Tasks]
        /\ \A g \in Handlers : task'[g] = task[g] \/ Settled(task'[g])
    BY <2>1, AbandonTask DEF Settled, Idle
  <2>3. QED
    BY <1>1, <2>1, <2>2, SettledStep DEF TypeOK
<1>4. CASE Free(registry, serves) # {}
  <2>1. /\ t \in Threads
        /\ serves[t] = None
        /\ \A d \in Documents : registry.retiring[d] # t
    BY <1>4 DEF Spawned, Free
  <2>2. /\ serves' = [serves EXCEPT ![t] = n]
        /\ task' = [task EXCEPT ![h].phase = "registering", ![h].thread = t]
    BY <1>4 DEF Spawn
  <2> HIDE DEF t
  <2>3. /\ serves' \in [Threads -> Documents \cup {None}]
        /\ serves'[t] = n
        /\ \A u \in Threads : u # t => serves'[u] = serves[u]
    BY <1>2, <2>1, <2>2 DEF TypeOK
  <2>4. /\ task' \in [Handlers -> Tasks]
        /\ task'[h].phase = "registering"
        /\ task'[h].document = n
        /\ task'[h].thread = t
        /\ \A g \in Handlers : g # h => task'[g] = task[g]
    <3>1. task' = [task EXCEPT ![h] = [task[h] EXCEPT !.phase = "registering", !.thread = t]]
      BY <1>2, <2>2 DEF TypeOK, Tasks
    <3>2. [task[h] EXCEPT !.phase = "registering", !.thread = t] \in Tasks
      BY <1>2, <2>1 DEF Tasks, Phases
    <3>3. QED
      BY <1>2, <3>1, <3>2 DEF TypeOK, Tasks
  <2>5. TypeOK' /\ KnownIsOwned'
    BY <1>1, <2>3, <2>4 DEF TypeOK, KnownIsOwned
  <2>6. Sound(registry, serves)'
    <3>1. \A d \in Documents : registry.open[d] # t
      BY <1>2, <2>1 DEF Sound
    <3>2. \A d \in Documents :
            /\ registry.open[d] \in Threads \cup {None}
            /\ registry.retiring[d] \in Threads \cup {None}
      BY DEF TypeOK, Registries
    <3>3. QED
      BY <1>1, <1>2, <2>1, <2>3, <2>4, <3>1, <3>2 DEF Sound
  <2>7. \A g \in Handlers : TaskOK(g)'
    <3>1. ASSUME NEW g \in Handlers, g # h PROVE TaskOK(g)'
      <4>1. Minting(g) => task[g].document # n
        BY <1>1, <3>1 DEF Apart, Minting
      <4>2. task[g].phase = "registering" =>
                /\ task[g].thread \in Threads
                /\ serves[task[g].thread] = task[g].document
                /\ task[g].document \in Documents
        BY DEF TaskOK, TypeOK, Tasks, Minting
      <4>3. QED
        BY <1>1, <2>1, <2>3, <2>4, <3>1, <4>1, <4>2 DEF TaskOK, Minting
    <3>2. TaskOK(h)'
      BY <1>1, <1>2, <2>1, <2>3, <2>4 DEF TaskOK, Minting
    <3>3. QED
      BY <3>1, <3>2
  <2>8. Apart' /\ ServedExist'
    BY <1>1, <1>2, <2>3, <2>4 DEF Apart, Minting, ServedExist
  <2>9. QED
    BY <2>5, <2>6, <2>7, <2>8
<1>5. QED
  BY <1>3, <1>4

\* A registered document has one thread, and is the first anybody knows of it.
LEMMA RegisterStep ==
    ASSUME IInv, NEW h \in Handlers, Register(h)
    PROVE  IInv'
<1> USE RegistryAssumption DEF IInv
<1> DEFINE n == task[h].document
           t == task[h].thread
<1>1. PICK after \in ReclaimBeforeAdmitting({}) :
        /\ serves' = Joined(after.joined)
        /\ IF Full(after.registry)
           THEN registry' = after.registry /\ UNCHANGED known
           ELSE /\ registry' = Registered(after.registry, n, t)
                /\ known' = known \cup {n}
  BY DEF Register
<1>2. /\ task[h].phase = "registering"
      /\ Abandon(h)
      /\ UNCHANGED <<creator, owned, charged, faults>>
  BY DEF Register
<1>3. /\ n \in Documents \ known
      /\ n \in owned
      /\ creator[n] # None
      /\ t \in Threads
      /\ serves[t] = n
  BY <1>2 DEF TaskOK, Minting, TypeOK, Tasks
<1> DEFINE r == after.registry
<1>4. /\ Sound(r, serves')
      /\ \A u \in Threads :
            serves'[u] = serves[u] \/ (serves'[u] = None /\ serves[u] \in known)
  BY <1>1, ReclaimSound
<1>5. /\ task' \in [Handlers -> Tasks]
      /\ task'[h] = Idle
      /\ \A g \in Handlers : g # h => task'[g] = task[g]
  BY <1>2, AbandonTask
<1>6. CASE Full(r)
  <2>1. registry' = r /\ UNCHANGED known
    BY <1>1, <1>6
  <2>2. \A g \in Handlers : task'[g] = task[g] \/ Settled(task'[g])
    BY <1>5 DEF Settled, Idle
  <2>3. QED
    BY <1>2, <1>4, <1>5, <2>1, <2>2, SweepSpares, SettledStep DEF TypeOK
<1>7. CASE ~Full(r)
  <2>1. registry' = Registered(r, n, t) /\ known' = known \cup {n}
    BY <1>1, <1>7
  <2> HIDE DEF r, n, t
  <2>2. /\ registry' \in Registries
        /\ registry'.open = [r.open EXCEPT ![n] = t]
        /\ registry'.retiring = r.retiring
    <3>1. r \in Registries
      BY <1>4 DEF Sound
    <3>2. QED
      BY <1>3, <2>1, <3>1 DEF Registered, Registries
  <2>3. /\ serves' \in [Threads -> Documents \cup {None}]
        /\ serves'[t] = n
        /\ \A u \in Threads : serves'[u] = n => u = t
        /\ r.open \in [Documents -> Threads \cup {None}]
        /\ r.retiring \in [Documents -> Threads \cup {None}]
    BY <1>3, <1>4 DEF Sound, Registries
  <2>4. TypeOK' /\ KnownIsOwned'
    BY <1>2, <1>3, <1>5, <2>1, <2>2, <2>3 DEF TypeOK, KnownIsOwned
  <2>5. Sound(registry, serves)'
    <3>1. r.open[n] = None /\ r.retiring[n] = None
      BY <1>3, <1>4 DEF Sound
    <3>2. \A d \in Documents : registry'.open[d] # None =>
            /\ serves'[registry'.open[d]] = d
            /\ registry'.retiring[d] = None
            /\ d \in known'
      BY <1>3, <1>4, <2>1, <2>2, <2>3, <3>1 DEF Sound
    <3>3. \A d \in Documents : registry'.retiring[d] # None =>
            serves'[registry'.retiring[d]] \in {d, None} /\ d \in known'
      BY <1>4, <2>1, <2>2 DEF Sound
    <3>4. \A u \in Threads : serves'[u] # None =>
            \/ registry'.open[serves'[u]] = u
            \/ registry'.retiring[serves'[u]] = u
            \/ serves'[u] \notin known'
      BY <1>3, <1>4, <2>1, <2>2, <2>3 DEF Sound
    <3>5. \A u, v \in Threads :
            serves'[u] = serves'[v] /\ serves'[u] # None => u = v
      BY <1>4 DEF Sound
    <3>6. \A g \in Handlers : task'[g].phase = "holding" =>
            registry'.open[task'[g].document] = task'[g].thread
      <4>1. ASSUME NEW g \in Handlers, g # h, task[g].phase = "holding"
            PROVE  registry'.open[task[g].document] = task[g].thread
        <5>1. /\ r.open[task[g].document] = task[g].thread
              /\ task[g].document # n
          BY <1>3, <1>4, <4>1 DEF Sound, TaskOK
        <5>2. QED
          BY <2>2, <5>1
      <4>2. QED
        BY <1>5, <4>1 DEF Idle
    <3>7. QED
      BY <2>2, <2>3, <3>2, <3>3, <3>4, <3>5, <3>6 DEF Sound
  <2>6. \A g \in Handlers : TaskOK(g)'
    <3>1. ASSUME NEW g \in Handlers, g # h PROVE TaskOK(g)'
      <4>1. Minting(g) => task[g].document # n
        BY <1>2, <3>1 DEF Apart, Minting, n
      <4>2. task[g].phase \in {"seeding", "spawning"} =>
                \A u \in Threads : serves'[u] # task[g].document
        BY <1>4 DEF TaskOK, Minting
      <4>3. task[g].phase = "registering" =>
                serves'[task[g].thread] = task[g].document
        BY <1>4 DEF TaskOK, Minting, TypeOK, Tasks
      <4>4. QED
        BY <1>2, <1>5, <2>1, <3>1, <4>1, <4>2, <4>3 DEF TaskOK, Minting
    <3>2. TaskOK(h)'
      BY <1>5 DEF TaskOK, Minting, Idle
    <3>3. QED
      BY <3>1, <3>2
  <2>7. Apart' /\ ServedExist'
    BY <1>2, <1>4, <1>5 DEF Apart, Minting, ServedExist, Idle
  <2>8. QED
    BY <2>4, <2>5, <2>6, <2>7
<1>8. QED
  BY <1>6, <1>7

\* Every step keeps the invariant.
LEMMA StepInv == IInv /\ [Next]_vars => IInv'
<1> SUFFICES ASSUME IInv, [Next]_vars PROVE IInv'
  OBVIOUS
<1>1. CASE UNCHANGED vars
  BY <1>1 DEF vars, IInv, TypeOK, KnownIsOwned, Sound, TaskOK, Minting, Apart,
              ServedExist
<1>2. ASSUME NEW h \in Handlers,
             \/ \E d \in Documents : Want(h, d)
             \/ AskAgain(h) \/ GiveUp(h) \/ Release(h)
      PROVE  IInv'
  BY <1>2, AskSteps
<1>3. ASSUME NEW h \in Handlers, HandOut(h) PROVE IInv'
  BY <1>3, HandOutStep
<1>4. ASSUME NEW h \in Handlers, Start(h) PROVE IInv'
  BY <1>4, StartStep
<1>5. ASSUME NEW h \in Handlers, Refuse(h) PROVE IInv'
  BY <1>5, RefuseStep
<1>6. ASSUME NEW h \in Handlers, NEW s \in Subjects, Admit(h, s) PROVE IInv'
  BY <1>6, AdmitStep
<1>7. ASSUME NEW h \in Handlers, Genesis(h) PROVE IInv'
  BY <1>7, GenesisStep
<1>8. ASSUME NEW h \in Handlers, SeedOwner(h) PROVE IInv'
  BY <1>8, SeedOwnerStep
<1>9. ASSUME NEW h \in Handlers, Spawn(h) PROVE IInv'
  BY <1>9, SpawnStep
<1>10. ASSUME NEW h \in Handlers, Register(h) PROVE IInv'
  BY <1>10, RegisterStep
<1>11. ASSUME NEW h \in Handlers, Charge(h) \/ CreateFails(h) PROVE IInv'
  BY <1>11, QuietSteps
<1>12. ASSUME \/ \E t \in Threads : Exit(t)
              \/ \E d \in Documents : Cool(d)
       PROVE  IInv'
  BY <1>12, QuietSteps
<1>13. ASSUME Sweep PROVE IInv'
  BY <1>13, SweepStep
<1>14. ASSUME Restart PROVE IInv'
  BY <1>14, RestartStep
<1>15. QED
  BY <1>1, <1>2, <1>3, <1>4, <1>5, <1>6, <1>7, <1>8, <1>9, <1>10, <1>11,
     <1>12, <1>13, <1>14 DEF Next

\* The invariant holds in every reachable state.
LEMMA InvAlways == Spec => []IInv
<1>1. QED
  BY InitInv, StepInv, PTL DEF Spec

----------------------------------------------------------------------------
(***************************************************************************)
(* The theorems                                                            *)
(***************************************************************************)

\* Every reachable state is well typed.
THEOREM TypeCorrect == Spec => []TypeOK
<1>1. IInv => TypeOK
  BY DEF IInv
<1>2. QED
  BY <1>1, InvAlways, PTL

\* No document ever has two threads in their loops, however many documents are
\* opened, created and swept at once, and whether or not stopped threads exit
\* before the deadline (service.rs retire_all, document; document.rs
\* spawn_with_log).
THEOREM OneThreadAlways == Spec => []OneThreadPerDocument
<1>1. IInv => OneThreadPerDocument
  BY DEF IInv, Sound, OneThreadPerDocument
<1>2. QED
  BY <1>1, InvAlways, PTL

\* A handle held by a socket is always to the registered, running thread of its
\* document (service.rs is_reclaimable, document).
THEOREM HeldAlwaysCurrent == Spec => []HeldIsCurrent
<1>1. ASSUME IInv, NEW h \in Handlers, task[h].phase = "holding"
      PROVE  /\ registry.open[task[h].document] = task[h].thread
             /\ serves[task[h].thread] = task[h].document
  <2>1. /\ registry.open[task[h].document] = task[h].thread
        /\ task[h].thread # None
        /\ task[h].document \in Documents
    BY <1>1 DEF IInv, TypeOK, Sound, TaskOK
  <2>2. QED
    BY <1>1, <2>1 DEF IInv, Sound
<1>2. IInv => HeldIsCurrent
  BY <1>1 DEF HeldIsCurrent
<1>3. QED
  BY <1>2, InvAlways, PTL

\* A document anybody was told of exists and has an owner, wherever creating it
\* or another one stops (service.rs create_document, permission.rs seed_owner).
THEOREM KnownAlwaysOwned == Spec => []KnownIsOwned
<1>1. IInv => KnownIsOwned
  BY DEF IInv
<1>2. QED
  BY <1>1, InvAlways, PTL

----------------------------------------------------------------------------
(***************************************************************************)
(* The limit                                                               *)
(***************************************************************************)

\* What is open or retiring can be counted.
LEMMA Countable ==
    ASSUME NEW r
    PROVE  /\ IsFiniteSet(Opened(r)) /\ Cardinality(Opened(r)) \in Nat
           /\ IsFiniteSet(Retiring(r)) /\ Cardinality(Retiring(r)) \in Nat
           /\ Length(r) \in Nat
<1>1. Opened(r) \in SUBSET Documents /\ Retiring(r) \in SUBSET Documents
  BY DEF Opened, Retiring
<1>2. IsFiniteSet(Opened(r)) /\ IsFiniteSet(Retiring(r))
  BY <1>1, FS_Subset, FiniteAssumption
<1>3. Cardinality(Opened(r)) \in Nat /\ Cardinality(Retiring(r)) \in Nat
  BY <1>2, FS_CardinalityType
<1>4. QED
  BY <1>2, <1>3 DEF Length

\* A registry with no more open and retiring documents is no longer.
LEMMA Shorter ==
    ASSUME NEW r, NEW q, Opened(q) \subseteq Opened(r),
           Retiring(q) \subseteq Retiring(r)
    PROVE  Length(q) <= Length(r)
<1>1. Cardinality(Opened(q)) <= Cardinality(Opened(r))
  BY Countable, FS_Subset
<1>2. Cardinality(Retiring(q)) <= Cardinality(Retiring(r))
  BY Countable, FS_Subset
<1>3. QED
  BY <1>1, <1>2, Countable DEF Length

\* Stopping documents moves some of them from open to retiring and frees the
\* places of the others.
LEMMA StopLength ==
    ASSUME TypeOK, Sound(registry, serves),
           NEW docs, docs \subseteq Opened(registry), NEW after \in Stop(docs)
    PROVE  Length(after.registry) <= Length(registry)
<1> DEFINE r == after.registry
<1>1. Stopped(r, Joined(after.joined), docs)
  BY StopEffect
<1> HIDE DEF r
<1>2. docs \subseteq Documents
  BY DEF Opened
<1>3. Opened(r) = Opened(registry) \ docs
  BY <1>1, <1>2 DEF Stopped, Opened
<1>4. Retiring(r) \subseteq Retiring(registry) \cup docs
  BY <1>1 DEF Stopped, Retiring
<1>5. /\ IsFiniteSet(docs)
      /\ Cardinality(docs) \in Nat
      /\ Opened(registry) \cap docs = docs
  <2>1. docs \in SUBSET Opened(registry)
    OBVIOUS
  <2>2. IsFiniteSet(docs)
    BY <2>1, Countable, FS_Subset
  <2>3. QED
    BY <2>1, <2>2, FS_CardinalityType
<1>6. Cardinality(Opened(r)) = Cardinality(Opened(registry)) - Cardinality(docs)
  BY <1>3, <1>5, Countable, FS_Difference
<1>7. /\ IsFiniteSet(Retiring(registry) \cup docs)
      /\ Cardinality(Retiring(registry) \cup docs) <=
            Cardinality(Retiring(registry)) + Cardinality(docs)
  <2>1. /\ IsFiniteSet(Retiring(registry) \cup docs)
        /\ Cardinality(Retiring(registry) \cup docs) =
              Cardinality(Retiring(registry)) + Cardinality(docs)
                  - Cardinality(Retiring(registry) \cap docs)
    BY <1>5, Countable, FS_Union
  <2>2. Cardinality(Retiring(registry) \cap docs) \in Nat
    <3>1. Retiring(registry) \cap docs \in SUBSET docs
      OBVIOUS
    <3>2. QED
      BY <3>1, <1>5, FS_Subset, FS_CardinalityType
  <2>3. QED
    BY <2>1, <2>2, <1>5, Countable
<1>8. /\ Cardinality(Retiring(r)) <= Cardinality(Retiring(registry) \cup docs)
      /\ Cardinality(Retiring(registry) \cup docs) \in Nat
  BY <1>4, <1>7, FS_Subset, FS_CardinalityType
<1>9. Length(r) <= Length(registry)
  BY <1>5, <1>6, <1>7, <1>8, Countable DEF Length
<1>10. QED
  BY <1>9 DEF r

\* No sweep of a lookup or a creation makes the registry longer.
LEMMA ReclaimLength ==
    ASSUME TypeOK, Sound(registry, serves),
           NEW taking, NEW after \in ReclaimBeforeAdmitting(taking)
    PROVE  Length(after.registry) <= Length(registry)
<1>1. CASE after \in Reclaim(taking)
  <2>1. Reclaimable(taking) \subseteq Opened(registry)
    BY DEF Reclaimable, SolelyHeld
  <2>2. QED
    BY <1>1, <2>1, StopLength DEF Reclaim
<1>2. CASE after = [registry |-> registry, joined |-> {}]
  BY <1>2, Countable
<1>3. QED
  BY <1>1, <1>2 DEF ReclaimBeforeAdmitting

\* Looking once more at a retiring uuid makes the registry no longer.
LEMMA LookAgainLength ==
    ASSUME NEW r \in Registries, NEW d
    PROVE  Length(LookAgain(r, d)) <= Length(r)
<1>1. Opened(LookAgain(r, d)) \subseteq Opened(r)
  BY DEF LookAgain, Reaped, Opened, Registries
<1>2. Retiring(LookAgain(r, d)) \subseteq Retiring(r)
  BY DEF LookAgain, Reaped, Retiring, Registries
<1>3. QED
  BY <1>1, <1>2, Shorter

\* Registering a document takes one place.
LEMMA RegisteredLength ==
    ASSUME NEW r \in Registries, NEW d \in Documents, NEW t \in Threads, ~Full(r)
    PROVE  Length(Registered(r, d, t)) <= MaxOpen
<1>1. /\ Registered(r, d, t).open = [r.open EXCEPT ![d] = t]
      /\ Registered(r, d, t).retiring = r.retiring
  BY DEF Registered, Registries
<1>2. Opened(Registered(r, d, t)) = Opened(r) \cup {d}
  BY <1>1, RegistryAssumption DEF Opened, Registries
<1>3. Retiring(Registered(r, d, t)) = Retiring(r)
  BY <1>1 DEF Retiring
<1>4. Cardinality(Opened(r) \cup {d}) <= Cardinality(Opened(r)) + 1
  <2>1. IsFiniteSet(Opened(r)) /\ Cardinality(Opened(r)) \in Nat
    BY Countable
  <2>2. Cardinality(Opened(r) \cup {d}) =
            IF d \in Opened(r) THEN Cardinality(Opened(r))
                               ELSE Cardinality(Opened(r)) + 1
    BY <2>1, FS_AddElement
  <2>3. QED
    BY <2>1, <2>2
<1>5. /\ Length(r) \in Nat
      /\ Cardinality(Opened(r)) \in Nat
      /\ Cardinality(Retiring(r)) \in Nat
      /\ Cardinality(Opened(r) \cup {d}) \in Nat
  BY Countable, FS_AddElement, FS_CardinalityType
<1>6. Length(r) < MaxOpen
  BY <1>5, RegistryAssumption DEF Full
<1>7. Length(Registered(r, d, t)) =
          Cardinality(Opened(r) \cup {d}) + Cardinality(Retiring(r))
  BY <1>2, <1>3 DEF Length
<1>8. Length(Registered(r, d, t)) <= Length(r) + 1
  BY <1>4, <1>5, <1>7 DEF Length
<1>9. QED
  BY <1>5, <1>6, <1>7, <1>8, RegistryAssumption

\* No step goes past the limit.
LEMMA LimitStep == IInv /\ WithinLimit /\ [Next]_vars => WithinLimit'
<1> SUFFICES ASSUME IInv, WithinLimit, [Next]_vars PROVE WithinLimit'
  OBVIOUS
<1> USE DEF WithinLimit
<1>1. CASE UNCHANGED registry
  BY <1>1
<1>2. ASSUME Length(registry') <= Length(registry) PROVE WithinLimit'
  BY <1>2, Countable, RegistryAssumption
<1>3. ASSUME NEW taking, NEW after \in ReclaimBeforeAdmitting(taking)
      PROVE  /\ Length(after.registry) <= Length(registry)
             /\ after.registry \in Registries
  <2>1. Length(after.registry) <= Length(registry)
    BY <1>3, ReclaimLength DEF IInv
  <2>2. Sound(after.registry, Joined(after.joined))
    BY <1>3, ReclaimSound DEF IInv
  <2>3. QED
    BY <2>1, <2>2 DEF Sound
<1>4. ASSUME NEW h \in Handlers, HandOut(h) PROVE WithinLimit'
  <2>1. PICK after \in ReclaimBeforeAdmitting({task[h].document}) :
            registry' = [after.registry EXCEPT !.warm = @ \cup {task[h].document}]
    BY <1>4 DEF HandOut
  <2>2. Length(after.registry) <= Length(registry) /\ after.registry \in Registries
    BY <1>3
  <2>3. Length(registry') = Length(after.registry)
    BY <2>1, <2>2 DEF Length, Opened, Retiring, Registries
  <2>4. QED
    BY <1>2, <2>2, <2>3
<1>5. ASSUME NEW h \in Handlers, Start(h) PROVE WithinLimit'
  <2> DEFINE d == task[h].document
  <2>1. PICK after \in ReclaimBeforeAdmitting({}) :
            LET r == LookAgain(after.registry, d)
                s == Joined(after.joined)
            IN  /\ MayStart(r, d)
                /\ Free(r, s) # {}
                /\ registry' = Registered(r, d, Spawned(r, s))
    BY <1>5 DEF Start
  <2> DEFINE r == LookAgain(after.registry, d)
             s == Joined(after.joined)
  <2>2. ~Full(r) /\ Spawned(r, s) \in Threads
    BY <2>1 DEF MayStart, Spawned, Free
  <2>3. d \in Documents
    BY <1>5 DEF Start, IInv, TaskOK, TypeOK
  <2>4. r \in Registries
    <3>1. after.registry \in Registries
      BY <1>3
    <3>2. QED
      BY <3>1 DEF LookAgain, Reaped, Registries
  <2>5. registry' = Registered(r, d, Spawned(r, s))
    BY <2>1
  <2> HIDE DEF r, s, d
  <2>6. QED
    BY <2>2, <2>3, <2>4, <2>5, RegisteredLength
<1>6. ASSUME NEW h \in Handlers, Refuse(h) PROVE WithinLimit'
  <2>1. PICK after \in ReclaimBeforeAdmitting({}) :
            registry' = LookAgain(after.registry, task[h].document)
    BY <1>6 DEF Refuse
  <2>2. Length(after.registry) <= Length(registry) /\ after.registry \in Registries
    BY <1>3
  <2>3. Length(registry') <= Length(after.registry)
    BY <2>1, <2>2, LookAgainLength
  <2>4. QED
    BY <1>2, <2>2, <2>3, Countable
<1>7. ASSUME NEW h \in Handlers, NEW subject \in Subjects, Admit(h, subject)
      PROVE  WithinLimit'
  <2>1. PICK after \in ReclaimBeforeAdmitting({}) : registry' = after.registry
    BY <1>7 DEF Admit
  <2>2. QED
    BY <1>2, <1>3, <2>1
<1>8. ASSUME NEW h \in Handlers, Register(h) PROVE WithinLimit'
  <2>1. PICK after \in ReclaimBeforeAdmitting({}) :
            IF Full(after.registry)
            THEN registry' = after.registry
            ELSE registry' = Registered(after.registry, task[h].document,
                                        task[h].thread)
    BY <1>8 DEF Register
  <2>2. Length(after.registry) <= Length(registry) /\ after.registry \in Registries
    BY <1>3
  <2>3. task[h].document \in Documents /\ task[h].thread \in Threads
    BY <1>8 DEF Register, IInv, TaskOK, Minting, TypeOK, Tasks
  <2>4. QED
    BY <1>2, <2>1, <2>2, <2>3, RegisteredLength
<1>9. ASSUME Sweep PROVE WithinLimit'
  <2>1. PICK after \in Reclaim({}) \cup Stop(SolelyHeld) :
            registry' = after.registry
    BY <1>9 DEF Sweep
  <2>2. /\ Reclaimable({}) \subseteq Opened(registry)
        /\ SolelyHeld \subseteq Opened(registry)
    BY DEF Reclaimable, SolelyHeld
  <2>3. QED
    BY <1>2, <2>1, <2>2, StopLength DEF Reclaim, IInv
<1>10. ASSUME Restart PROVE WithinLimit'
  <2>1. Opened(registry') = {} /\ Retiring(registry') = {}
    BY <1>10 DEF Restart, Empty, Opened, Retiring
  <2>2. QED
    BY <1>2, <2>1, Shorter
<1>11. ASSUME NEW d \in Documents, Cool(d) PROVE WithinLimit'
  <2>1. registry'.open = registry.open /\ registry'.retiring = registry.retiring
    BY <1>11 DEF Cool, IInv, TypeOK, Registries
  <2>2. QED
    BY <1>2, <2>1, Shorter DEF Opened, Retiring
<1>12. QED
  BY <1>1, <1>4, <1>5, <1>6, <1>7, <1>8, <1>9, <1>10, <1>11
     DEF Next, vars, Want, AskAgain, GiveUp, Release, Charge, Genesis, SeedOwner,
         Spawn, CreateFails, Exit

\* Running and lingering threads together never exceed the limit, whatever
\* lookups and creations race for the last place (service.rs refuse_when_full,
\* Registry::len).
THEOREM LimitAlwaysKept == Spec => []WithinLimit
<1>1. Init => WithinLimit
  <2> SUFFICES ASSUME Init PROVE WithinLimit
    OBVIOUS
  <2>1. Opened(registry) = {} /\ Retiring(registry) = {}
    BY DEF Init, Empty, Opened, Retiring
  <2>2. QED
    BY <2>1, FS_EmptySet, RegistryAssumption DEF WithinLimit, Length
<1>2. QED
  BY <1>1, LimitStep, InvAlways, PTL DEF Spec

----------------------------------------------------------------------------
(***************************************************************************)
(* The quota                                                               *)
(***************************************************************************)

Made(s) == {d \in Documents : creator[d] = s}

\* Creations that were charged and have not made their genesis commit.
Paid(s) == {h \in Handlers : task[h].phase = "genesis" /\ task[h].subject = s}

\* Whatever was made or is about to be was charged for: the strengthening of
\* QuotaIsKept that a step of a creation keeps.
ChargedFirst ==
    \A s \in Subjects : Cardinality(Made(s)) + Cardinality(Paid(s)) <= charged[s]

\* What was made and what is paid for can be counted, before and after a step.
LEMMA PaidCountable ==
    ASSUME NEW s
    PROVE  /\ IsFiniteSet(Made(s)) /\ Cardinality(Made(s)) \in Nat
           /\ IsFiniteSet(Paid(s)) /\ Cardinality(Paid(s)) \in Nat
           /\ IsFiniteSet(Made(s)') /\ Cardinality(Made(s)') \in Nat
           /\ IsFiniteSet(Paid(s)') /\ Cardinality(Paid(s)') \in Nat
<1>1. /\ Made(s) \in SUBSET Documents /\ Paid(s) \in SUBSET Handlers
      /\ Made(s)' \in SUBSET Documents /\ Paid(s)' \in SUBSET Handlers
  BY DEF Made, Paid
<1>2. /\ IsFiniteSet(Made(s)) /\ IsFiniteSet(Paid(s))
      /\ IsFiniteSet(Made(s)') /\ IsFiniteSet(Paid(s)')
  BY <1>1, FS_Subset, FiniteAssumption
<1>3. QED
  BY <1>2, FS_CardinalityType

\* A step that charges nobody, makes nothing and has no handler paid for anew.
LEMMA UnpaidStep ==
    ASSUME TypeOK, ChargedFirst, UNCHANGED <<creator, charged>>,
           \A g \in Handlers : task'[g] = task[g] \/ task'[g].phase # "genesis"
    PROVE  ChargedFirst'
<1> SUFFICES ASSUME NEW s \in Subjects
             PROVE  (Cardinality(Made(s)) + Cardinality(Paid(s)) <= charged[s])'
  BY DEF ChargedFirst
<1>1. Made(s)' = Made(s)
  BY DEF Made
<1>2. Paid(s)' \in SUBSET Paid(s)
  BY DEF Paid
<1>3. Cardinality(Paid(s)') <= Cardinality(Paid(s))
  BY <1>2, PaidCountable, FS_Subset
<1>4. Cardinality(Made(s)) + Cardinality(Paid(s)) <= charged[s]
  BY DEF ChargedFirst
<1>5. charged[s] \in Nat
  BY RegistryAssumption DEF TypeOK
<1>6. /\ Cardinality(Made(s)) \in Nat
      /\ Cardinality(Paid(s)) \in Nat
      /\ Cardinality(Paid(s)') \in Nat
  BY PaidCountable
<1>7. QED
  BY <1>1, <1>3, <1>4, <1>5, <1>6

\* A charge pays for one creation.
LEMMA ChargeKeeps ==
    ASSUME IInv, ChargedFirst, NEW h \in Handlers, Charge(h)
    PROVE  ChargedFirst'
<1> DEFINE subject == task[h].subject
<1>1. task[h].phase = "charging" /\ subject \in Subjects /\ UNCHANGED creator
  BY DEF Charge, IInv, TaskOK
<1>2. CASE Abandon(h) /\ UNCHANGED charged
  <2>1. \A g \in Handlers : task'[g] = task[g] \/ task'[g].phase # "genesis"
    BY <1>2, AbandonTask DEF IInv, Idle
  <2>2. QED
    BY <1>1, <1>2, <2>1, UnpaidStep DEF IInv
<1>3. CASE /\ charged' = [charged EXCEPT ![subject] = @ + 1]
           /\ Continue(h, "genesis")
  <2> SUFFICES ASSUME NEW s \in Subjects
               PROVE  (Cardinality(Made(s)) + Cardinality(Paid(s)) <= charged[s])'
    BY DEF ChargedFirst
  <2>1. /\ task'[h].subject = subject
        /\ \A g \in Handlers : g # h => task'[g] = task[g]
    BY <1>3, ContinueTask DEF IInv, Phases
  <2>2. Made(s)' = Made(s)
    BY <1>1 DEF Made
  <2>3. /\ charged[s] \in Nat
        /\ charged'[s] = IF s = subject THEN charged[s] + 1 ELSE charged[s]
    BY <1>3, RegistryAssumption DEF IInv, TypeOK
  <2>4. Cardinality(Made(s)) + Cardinality(Paid(s)) <= charged[s]
    BY DEF ChargedFirst
  <2>5. /\ Cardinality(Made(s)) \in Nat
        /\ Cardinality(Paid(s)) \in Nat /\ IsFiniteSet(Paid(s))
        /\ Cardinality(Paid(s)') \in Nat
    BY PaidCountable
  <2>6. CASE s = subject
    <3>1. Paid(s)' \in SUBSET (Paid(s) \cup {h})
      BY <2>1 DEF Paid
    <3>2. /\ IsFiniteSet(Paid(s) \cup {h})
          /\ Cardinality(Paid(s) \cup {h}) =
                IF h \in Paid(s) THEN Cardinality(Paid(s))
                                 ELSE Cardinality(Paid(s)) + 1
      BY <2>5, FS_AddElement
    <3>3. Cardinality(Paid(s)') <= Cardinality(Paid(s) \cup {h})
      BY <3>1, <3>2, FS_Subset
    <3>4. QED
      BY <2>2, <2>3, <2>4, <2>5, <2>6, <3>2, <3>3
  <2>7. CASE s # subject
    <3>1. Paid(s)' \in SUBSET Paid(s)
      BY <2>1, <2>7 DEF Paid
    <3>2. Cardinality(Paid(s)') <= Cardinality(Paid(s))
      BY <2>5, <3>1, FS_Subset
    <3>3. QED
      BY <2>2, <2>3, <2>4, <2>5, <2>7, <3>2
  <2>8. QED
    BY <2>6, <2>7
<1>4. QED
  BY <1>2, <1>3 DEF Charge

\* A genesis commit makes what its creation was charged for.
LEMMA GenesisKeeps ==
    ASSUME IInv, ChargedFirst, NEW h \in Handlers, Genesis(h)
    PROVE  ChargedFirst'
<1> DEFINE n == NewUuid
           subject == task[h].subject
<1>1. n \in Documents /\ creator[n] = None
  BY DEF Genesis, NewUuid
<1>2. /\ task[h].phase = "genesis"
      /\ creator' = [creator EXCEPT ![n] = subject]
      /\ task' = [task EXCEPT ![h].phase = "seeding", ![h].document = n]
      /\ UNCHANGED charged
  BY DEF Genesis
<1> HIDE DEF n
<1>3. /\ task'[h].phase = "seeding"
      /\ \A g \in Handlers : g # h => task'[g] = task[g]
  BY <1>2 DEF IInv, TypeOK, Tasks
<1> SUFFICES ASSUME NEW s \in Subjects
             PROVE  (Cardinality(Made(s)) + Cardinality(Paid(s)) <= charged[s])'
  BY DEF ChargedFirst
<1>4. Paid(s)' = Paid(s) \ {h}
  BY <1>3 DEF Paid
<1>5. /\ Cardinality(Made(s)) \in Nat /\ IsFiniteSet(Made(s))
      /\ Cardinality(Paid(s)) \in Nat /\ IsFiniteSet(Paid(s))
  BY PaidCountable
<1>6. Cardinality(Made(s)) + Cardinality(Paid(s)) <= charged[s]
  BY DEF ChargedFirst
<1>7. charged[s] \in Nat /\ charged'[s] = charged[s]
  BY <1>2, RegistryAssumption DEF IInv, TypeOK
<1>8. Cardinality(Paid(s)') =
          IF h \in Paid(s) THEN Cardinality(Paid(s)) - 1 ELSE Cardinality(Paid(s))
  BY <1>4, <1>5, FS_RemoveElement
<1>9. creator \in [Documents -> Subjects \cup {None}]
  BY DEF IInv, TypeOK
<1>10. CASE s = subject
  <2>1. h \in Paid(s)
    BY <1>2, <1>10 DEF Paid
  <2>2. Made(s)' = Made(s) \cup {n}
    BY <1>1, <1>2, <1>9, <1>10 DEF Made
  <2>3. Cardinality(Made(s) \cup {n}) =
            IF n \in Made(s) THEN Cardinality(Made(s)) ELSE Cardinality(Made(s)) + 1
    BY <1>5, FS_AddElement
  <2>4. QED
    BY <1>5, <1>6, <1>7, <1>8, <2>1, <2>2, <2>3
<1>11. CASE s # subject
  <2>1. Made(s)' = Made(s)
    BY <1>1, <1>2, <1>9, <1>11, RegistryAssumption DEF Made
  <2>2. QED
    BY <1>5, <1>6, <1>7, <1>8, <2>1
<1>12. QED
  BY <1>10, <1>11

\* Every step keeps it that what is made was charged for.
LEMMA ChargedFirstStep == IInv /\ ChargedFirst /\ [Next]_vars => ChargedFirst'
<1> SUFFICES ASSUME IInv, ChargedFirst, [Next]_vars PROVE ChargedFirst'
  OBVIOUS
<1>1. ASSUME UNCHANGED <<task, creator, charged>> PROVE ChargedFirst'
  BY <1>1, UnpaidStep DEF IInv
<1>2. ASSUME UNCHANGED <<creator, charged>>, NEW h \in Handlers,
             NEW phase \in Phases \ {"genesis"}, Continue(h, phase)
      PROVE  ChargedFirst'
  BY <1>2, ContinueTask, UnpaidStep DEF IInv
<1>3. ASSUME UNCHANGED <<creator, charged>>, NEW h \in Handlers, Abandon(h)
      PROVE  ChargedFirst'
  BY <1>3, AbandonTask, UnpaidStep DEF IInv, Idle
<1>4. ASSUME NEW h \in Handlers,
             \/ \E d \in Documents : Want(h, d)
             \/ AskAgain(h) \/ GiveUp(h) \/ Release(h)
      PROVE  ChargedFirst'
  <2>1. /\ UNCHANGED <<creator, charged>>
        /\ \A g \in Handlers : task'[g] = task[g] \/ task'[g].phase # "genesis"
    BY <1>4 DEF Want, AskAgain, GiveUp, Release, durable, IInv, TypeOK, Tasks, Idle
  <2>2. QED
    BY <2>1, UnpaidStep DEF IInv
<1>5. ASSUME NEW h \in Handlers, Document(h)
      PROVE  ChargedFirst'
  <2>1. /\ UNCHANGED <<creator, charged>>
        /\ task[h].phase = "wanting"
    BY <1>5 DEF Document, HandOut, Start, Refuse, durable
  <2>2. \A g \in Handlers : task'[g] = task[g] \/ task'[g].phase # "genesis"
    <3>1. ASSUME NEW t, Hold(h, t)
          PROVE  /\ task'[h].phase = "holding"
                 /\ \A g \in Handlers : g # h => task'[g] = task[g]
      BY <3>1 DEF Hold, IInv, TypeOK, Tasks
    <3>2. CASE HandOut(h)
      BY <3>1, <3>2 DEF HandOut
    <3>3. CASE Start(h)
      <4>1. \E t : Hold(h, t)
        BY <3>3 DEF Start
      <4>2. QED
        BY <3>1, <4>1
    <3>4. CASE Refuse(h)
      BY <3>4 DEF Refuse, IInv, TypeOK, Tasks
    <3>5. QED
      BY <1>5, <3>2, <3>3, <3>4 DEF Document
  <2>3. QED
    BY <2>1, <2>2, UnpaidStep DEF IInv
<1>6. ASSUME NEW h \in Handlers, NEW subject \in Subjects, Admit(h, subject)
      PROVE  ChargedFirst'
  <2>1. /\ UNCHANGED <<creator, charged>>
        /\ \A g \in Handlers : task'[g] = task[g] \/ task'[g].phase # "genesis"
    BY <1>6 DEF Admit, durable, IInv, TypeOK, Tasks
  <2>2. QED
    BY <2>1, UnpaidStep DEF IInv
<1>7. ASSUME NEW h \in Handlers, Spawn(h) PROVE ChargedFirst'
  <2>1. UNCHANGED <<creator, charged>>
    BY <1>7 DEF Spawn, durable
  <2>2. CASE Abandon(h)
    BY <1>3, <2>1, <2>2
  <2>3. CASE ~Abandon(h)
    <3>1. task' = [task EXCEPT ![h].phase = "registering",
                               ![h].thread = Spawned(registry, serves)]
      BY <1>7, <2>3 DEF Spawn
    <3>2. \A g \in Handlers : task'[g] = task[g] \/ task'[g].phase # "genesis"
      BY <3>1 DEF IInv, TypeOK, Tasks
    <3>3. QED
      BY <2>1, <3>2, UnpaidStep DEF IInv
  <2>4. QED
    BY <2>2, <2>3
<1>8. ASSUME NEW h \in Handlers, SeedOwner(h) \/ Register(h) \/ CreateFails(h)
      PROVE  ChargedFirst'
  BY <1>2, <1>3, <1>8 DEF SeedOwner, Register, CreateFails, durable, Phases
<1>9. ASSUME Restart PROVE ChargedFirst'
  <2>1. /\ UNCHANGED <<creator, charged>>
        /\ \A g \in Handlers : task'[g].phase # "genesis"
    BY <1>9 DEF Restart, durable, Idle
  <2>2. QED
    BY <2>1, UnpaidStep DEF IInv
<1>10. QED
  BY <1>1, <1>4, <1>5, <1>6, <1>7, <1>8, <1>9, ChargeKeeps, GenesisKeeps
     DEF Next, vars, Document, Exit, Cool, Sweep, durable

\* Nobody ever has more documents than they were charged for or than the quota
\* allows, wherever creations stop and however they race (service.rs
\* charge_document_quota).
THEOREM QuotaAlwaysKept == Spec => []QuotaIsKept
<1>1. Init => ChargedFirst
  <2> SUFFICES ASSUME Init, NEW s \in Subjects
               PROVE  Cardinality(Made(s)) + Cardinality(Paid(s)) <= charged[s]
    BY DEF ChargedFirst
  <2>1. Made(s) = {} /\ Paid(s) = {} /\ charged[s] = 0
    BY RegistryAssumption DEF Init, Made, Paid, Idle
  <2>2. QED
    BY <2>1, FS_EmptySet
<1>2. IInv /\ ChargedFirst => QuotaIsKept
  <2> SUFFICES ASSUME IInv, ChargedFirst, NEW s \in Subjects
               PROVE  /\ Cardinality(Made(s)) <= charged[s]
                      /\ charged[s] <= MaxCreated
    BY DEF QuotaIsKept, Made
  <2>1. /\ Cardinality(Made(s)) \in Nat /\ Cardinality(Paid(s)) \in Nat
        /\ Cardinality(Made(s)) + Cardinality(Paid(s)) <= charged[s]
    BY PaidCountable DEF ChargedFirst
  <2>2. charged[s] \in 0..MaxCreated
    BY DEF IInv, TypeOK
  <2>3. QED
    BY <2>1, <2>2, RegistryAssumption
<1>3. QED
  BY <1>1, <1>2, ChargedFirstStep, InvAlways, PTL DEF Spec
=============================================================================
