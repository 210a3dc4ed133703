------------------------------- MODULE Grants -------------------------------
(***************************************************************************)
(* Who may do what to one document, while that is being changed:           *)
(* crates/opendoc-service/src/permission.rs (PermissionService), the calls *)
(* service.rs makes into it (open_document, set_grant) from concurrent     *)
(* request handlers, and the document thread that authorizes every join    *)
(* and submit and closes what a changed grant no longer allows             *)
(* (document.rs join, submit, enforce_grants).                             *)
(*                                                                         *)
(* The grant table is durable; each process reads it through a cache whose *)
(* lock is not held across the read that fills it.  Every access to the    *)
(* cache and to the store is a step of its own.                            *)
(*                                                                         *)
(* Data.  A role is its rank, 0 for no grant.  An action is the rank it    *)
(* needs.  A table is a function from subjects to roles; its audit trail,  *)
(* part of the same record, is left out, and so is the identity service's  *)
(* session table.  One connection per subject stands for all of them.      *)
(***************************************************************************)
EXTENDS Naturals, Sequences

CONSTANTS Subjects,     \* who may be granted a role
          Creator,      \* the subject create_document made the owner
          Handlers,     \* concurrent request handlers of one process
          Document,     \* the document thread
          GrantRoles,   \* the roles set_grant is called with
          Needs,        \* what a submitted batch can need
          Cold,         \* no table in the cache
          MaxSets,      \* bound: set_grant calls
          MaxRestarts,  \* bound: restarts of the process
          MaxFaults,    \* bound: failed writes of the table
          MaxMailbox    \* bound: requests queued for the document thread

Viewer == 1
Commenter == 2
Editor == 3
Owner == 4

Roles == 0..Owner

Tables == [Subjects -> Roles]

Threads == Handlers \cup {Document}

ASSUME GrantsAssumption ==
    /\ Creator \in Subjects
    /\ Document \notin Handlers
    /\ GrantRoles \subseteq Roles
    /\ Needs \subseteq {Commenter, Editor}
    /\ Cold \notin Tables
    /\ {MaxSets, MaxRestarts, MaxFaults, MaxMailbox} \subseteq Nat

VARIABLES stored,     \* the durable table
          cache,      \* the process's copy of it
          call,       \* per thread: what it is in the middle of
          mailbox,    \* requests queued for the document thread
          conns,      \* subjects joined to the document
          effect,     \* per subject: the role last made durable (history)
          straddled,  \* a read of the table was overtaken by a write (history)
          count       \* calls, restarts and faults so far

vars == <<stored, cache, call, mailbox, conns, effect, straddled, count>>

table == <<stored, cache, effect, straddled>>

Requests == [kind : {"join", "submit", "enforce"}, subject : Subjects,
             need : Roles]

Calls == [op : {"open", "set", "join", "submit", "enforce"},
          phase : {"idle", "probe", "fetch", "fill", "decide", "load", "put",
                   "publish", "notify", "connect", "append"},
          subject : Subjects,  \* who is being authorized
          need : Roles,        \* for what
          target : Subjects,   \* whose role set_grant changes
          role : Roles,        \* to what
          seen : Tables,       \* the table this call works from
          late : BOOLEAN]      \* begun when that was no longer allowed (history)

NoGrants == [s \in Subjects |-> 0]

Idle == [op |-> "open", phase |-> "idle", subject |-> Creator, need |-> 0,
         target |-> Creator, role |-> 0, seen |-> NoGrants, late |-> FALSE]

At(x, op, phase) == call[x].op = op /\ call[x].phase = phase

Step(x, phase) == call' = [call EXCEPT ![x].phase = phase]

Done(x) == call' = [call EXCEPT ![x] = Idle]

Enforce == [kind |-> "enforce", subject |-> Creator, need |-> 0]

\* A handler holds the write lock from set_role's first line to its last.
Writing(h) ==
    /\ call[h].op = "set"
    /\ call[h].phase \notin {"idle", "notify"}

\* A changed role is durable and set_role has not returned yet.
Publishing(s) == \E h \in Handlers : At(h, "set", "publish") /\ call[h].target = s

HasOwner(t) == \E s \in Subjects : t[s] = Owner

----------------------------------------------------------------------------
(***************************************************************************)
(* grants(): the read-through cache, for whichever thread is authorizing   *)
(***************************************************************************)

\* Mutant of Probe: whatever the cache holds is taken for the table.
ProbeAlwaysHits(x) ==
    /\ call[x].phase = "probe"
    /\ call' = [call EXCEPT ![x].seen = cache, ![x].phase = "decide"]
    /\ UNCHANGED <<table, mailbox, conns, count>>

Probe(x) ==
    /\ call[x].phase = "probe"
    /\ call' = [call EXCEPT
                  ![x].seen = IF cache = Cold THEN @ ELSE cache,
                  ![x].phase = IF cache = Cold THEN "fetch" ELSE "decide"]
    /\ UNCHANGED <<table, mailbox, conns, count>>

Fetch(x) ==
    /\ call[x].phase = "fetch"
    /\ call' = [call EXCEPT ![x].seen = stored, ![x].phase = "fill"]
    /\ UNCHANGED <<table, mailbox, conns, count>>

Fill(x) ==
    /\ call[x].phase = "fill"
    /\ cache' = call[x].seen
    /\ straddled' = (straddled \/ call[x].seen # stored)
    /\ Step(x, "decide")
    /\ UNCHANGED <<stored, effect, mailbox, conns, count>>

Allowed(x) == call[x].seen[call[x].subject] >= call[x].need

----------------------------------------------------------------------------
(***************************************************************************)
(* Request handlers                                                        *)
(***************************************************************************)

\* open_document for a socket: Action::Read, then the socket joins.
BeginOpen(h, s) ==
    /\ call[h].phase = "idle"
    /\ s \notin conns
    /\ call' = [call EXCEPT ![h] = [Idle EXCEPT !.op = "open", !.phase = "probe",
                                                !.subject = s, !.need = Viewer]]
    /\ UNCHANGED <<table, mailbox, conns, count>>

DecideOpen(h) ==
    /\ At(h, "open", "decide")
    /\ Allowed(h) => Len(mailbox) < MaxMailbox
    /\ mailbox' = IF Allowed(h)
                  THEN Append(mailbox, [kind |-> "join", subject |-> call[h].subject,
                                        need |-> Viewer])
                  ELSE mailbox
    /\ Done(h)
    /\ UNCHANGED <<table, conns, count>>

\* Mutant of BeginSet: no write lock.
BeginSetUnlocked(h, s, target, role) ==
    /\ call[h].phase = "idle"
    /\ count.sets < MaxSets
    /\ count' = [count EXCEPT !.sets = @ + 1]
    /\ call' = [call EXCEPT ![h] = [Idle EXCEPT !.op = "set", !.phase = "probe",
                                                !.subject = s, !.need = Owner,
                                                !.target = target, !.role = role]]
    /\ UNCHANGED <<table, mailbox, conns>>

\* set_grant, which takes the write lock before it authorizes Action::Share.
BeginSet(h, s, target, role) ==
    /\ call[h].phase = "idle"
    /\ \A g \in Handlers : ~Writing(g)
    /\ count.sets < MaxSets
    /\ count' = [count EXCEPT !.sets = @ + 1]
    /\ call' = [call EXCEPT ![h] = [Idle EXCEPT !.op = "set", !.phase = "probe",
                                                !.subject = s, !.need = Owner,
                                                !.target = target, !.role = role]]
    /\ UNCHANGED <<table, mailbox, conns>>

DecideSet(h) ==
    /\ At(h, "set", "decide")
    /\ IF Allowed(h) THEN Step(h, "load") ELSE Done(h)
    /\ UNCHANGED <<table, mailbox, conns, count>>

\* Mutant of Load: the last owner may go.
LoadUnchecked(h) ==
    /\ At(h, "set", "load")
    /\ call' = [call EXCEPT ![h].seen = [cache EXCEPT ![call[h].target] = call[h].role],
                            ![h].phase = "put"]
    /\ UNCHANGED <<table, mailbox, conns, count>>

\* The second grants() finds the cache the first one filled.  A change that
\* would leave no owner is refused.
Load(h) ==
    /\ At(h, "set", "load")
    /\ LET changed == [cache EXCEPT ![call[h].target] = call[h].role]
       IN  IF HasOwner(changed)
           THEN call' = [call EXCEPT ![h].seen = changed, ![h].phase = "put"]
           ELSE Done(h)
    /\ UNCHANGED <<table, mailbox, conns, count>>

\* persist: durable first ...
Put(h) ==
    /\ At(h, "set", "put")
    /\ stored' = call[h].seen
    /\ effect' = [effect EXCEPT ![call[h].target] = call[h].role]
    /\ call' = [call EXCEPT
                  ![h].phase = "publish",
                  ![Document].late = @ /\ ~(/\ call[Document].subject = call[h].target
                                            /\ call[h].role >= call[Document].need)]
    /\ UNCHANGED <<cache, straddled, mailbox, conns, count>>

PutFails(h) ==
    /\ At(h, "set", "put")
    /\ count.faults < MaxFaults
    /\ count' = [count EXCEPT !.faults = @ + 1]
    /\ Done(h)
    /\ UNCHANGED <<table, mailbox, conns>>

\* ... cache second, and set_role returns.
Publish(h) ==
    /\ At(h, "set", "publish")
    /\ cache' = call[h].seen
    /\ Step(h, "notify")
    /\ UNCHANGED <<stored, effect, straddled, mailbox, conns, count>>

\* The document thread is told, and set_grant returns.
Notify(h) ==
    /\ At(h, "set", "notify")
    /\ Len(mailbox) < MaxMailbox
    /\ mailbox' = Append(mailbox, Enforce)
    /\ Done(h)
    /\ UNCHANGED <<table, conns, count>>

----------------------------------------------------------------------------
(***************************************************************************)
(* The document thread                                                     *)
(***************************************************************************)

\* A connected socket submits; it waits for the answer before the next.
SendSubmit(s, need) ==
    /\ s \in conns
    /\ Len(mailbox) < MaxMailbox
    /\ \A i \in 1..Len(mailbox) : ~(mailbox[i].kind = "submit" /\ mailbox[i].subject = s)
    /\ ~(call[Document].op = "submit" /\ call[Document].subject = s
            /\ call[Document].phase # "idle")
    /\ mailbox' = Append(mailbox, [kind |-> "submit", subject |-> s, need |-> need])
    /\ UNCHANGED <<table, call, conns, count>>

\* The thread takes its next request and begins to authorize it.
Take ==
    /\ call[Document].phase = "idle"
    /\ mailbox # <<>>
    /\ LET request == Head(mailbox)
       IN  call' = [call EXCEPT ![Document] =
               [Idle EXCEPT !.op = request.kind, !.phase = "probe",
                            !.subject = request.subject, !.need = request.need,
                            !.late = /\ effect[request.subject] < request.need
                                     /\ ~Publishing(request.subject)]]
    /\ mailbox' = Tail(mailbox)
    /\ UNCHANGED <<table, conns, count>>

DecideJoin ==
    /\ At(Document, "join", "decide")
    /\ IF Allowed(Document) THEN Step(Document, "connect") ELSE Done(Document)
    /\ UNCHANGED <<table, mailbox, conns, count>>

Connect ==
    /\ At(Document, "join", "connect")
    /\ conns' = conns \cup {call[Document].subject}
    /\ Done(Document)
    /\ UNCHANGED <<table, mailbox, count>>

\* A batch from a connection that is gone is unauthenticated.
DecideSubmit ==
    /\ At(Document, "submit", "decide")
    /\ IF call[Document].subject \in conns /\ Allowed(Document)
       THEN Step(Document, "append")
       ELSE Done(Document)
    /\ UNCHANGED <<table, mailbox, conns, count>>

AppendBatch ==
    /\ At(Document, "submit", "append")
    /\ Done(Document)
    /\ UNCHANGED <<table, mailbox, conns, count>>

\* enforce_grants closes whoever may no longer read.
DecideEnforce ==
    /\ At(Document, "enforce", "decide")
    /\ conns' = {s \in conns : call[Document].seen[s] >= Viewer}
    /\ Done(Document)
    /\ UNCHANGED <<table, mailbox, count>>

\* The process stops and starts again with an empty cache.
Restart ==
    /\ count.restarts < MaxRestarts
    /\ count' = [count EXCEPT !.restarts = @ + 1]
    /\ cache' = Cold
    /\ call' = [x \in Threads |-> Idle]
    /\ mailbox' = <<>>
    /\ conns' = {}
    /\ UNCHANGED <<stored, effect, straddled>>

----------------------------------------------------------------------------

\* The document has just been created by this process: seed_owner persisted
\* its creator as owner.
Init ==
    /\ stored = [NoGrants EXCEPT ![Creator] = Owner]
    /\ cache = stored
    /\ call = [x \in Threads |-> Idle]
    /\ mailbox = <<>>
    /\ conns = {}
    /\ effect = stored
    /\ straddled = FALSE
    /\ count = [sets |-> 0, restarts |-> 0, faults |-> 0]

Next ==
    \/ \E x \in Threads : Probe(x) \/ Fetch(x) \/ Fill(x)
    \/ \E h \in Handlers :
        \/ \E s \in Subjects : BeginOpen(h, s)
        \/ \E s, target \in Subjects, role \in GrantRoles : BeginSet(h, s, target, role)
        \/ DecideOpen(h) \/ DecideSet(h)
        \/ Load(h) \/ Put(h) \/ PutFails(h) \/ Publish(h) \/ Notify(h)
    \/ \E s \in Subjects, need \in Needs : SendSubmit(s, need)
    \/ Take \/ DecideJoin \/ Connect \/ DecideSubmit \/ AppendBatch \/ DecideEnforce
    \/ Restart

Spec == Init /\ [][Next]_vars

----------------------------------------------------------------------------
(***************************************************************************)
(* Properties                                                              *)
(***************************************************************************)

\* Every variable has its type.
TypeOK ==
    /\ stored \in Tables
    /\ cache \in Tables \cup {Cold}
    /\ call \in [Threads -> Calls]
    /\ mailbox \in Seq(Requests)
    /\ conns \subseteq Subjects
    /\ effect \in Tables
    /\ straddled \in BOOLEAN
    /\ count \in [sets : 0..MaxSets, restarts : 0..MaxRestarts,
                  faults : 0..MaxFaults]

\* A document is never left without an owner, whoever demotes whom at once and
\* however stale the table a change was computed from (permission.rs set_role).
OwnerRemains == HasOwner(stored)

\* A batch is logged only if its subject's role allowed it at some moment since
\* the document thread took it up: once set_role has returned, the next
\* keystroke of a revoked editor is refused (document.rs "Permission, per
\* submit, from storage").
RevokedNeverWrites == At(Document, "submit", "append") => ~call[Document].late

\* No change of a grant undoes another: the durable table is what the calls
\* that succeeded made it, in the order they did (permission.rs `writes`: "one
\* grant silently lost").
NoGrantLost == stored = effect

\* Whoever is connected may read, or the thread has yet to be told that this
\* changed: a join that was authorized before the change cannot slip in after
\* the enforcement (service.rs set_grant, document.rs enforce_grants).
ConnectedMayRead ==
    \A s \in conns :
        \/ stored[s] >= Viewer
        \/ \E h \in Handlers :
            call[h].op = "set" /\ call[h].phase \in {"publish", "notify"}
        \/ Enforce \in {mailbox[i] : i \in 1..Len(mailbox)}
        \/ call[Document].op = "enforce" /\ call[Document].phase # "idle"

\* The three, as long as no read of the table was overtaken by a write of it
\* between its fetch and the moment it filled the cache: that fill is the only
\* way any of them fails, through every other interleaving of handlers,
\* document thread, failed writes and restarts.
SafeUnlessStraddled ==
    ~straddled => RevokedNeverWrites /\ NoGrantLost /\ ConnectedMayRead
=============================================================================
