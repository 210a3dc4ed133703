---------------------------- MODULE GrantsProofs ----------------------------
(***************************************************************************)
(* Proofs about Grants: type correctness, that a document always has an    *)
(* owner, and that its three promises hold as long as no read of the table *)
(* is overtaken by a write, for any subjects, handlers, roles and bounds.  *)
(***************************************************************************)
EXTENDS Grants, TLAPS

----------------------------------------------------------------------------
(***************************************************************************)
(* The inductive invariant                                                 *)
(***************************************************************************)

\* The write lock.
OneWriter == \A g, h \in Handlers : Writing(g) /\ Writing(h) => g = h

\* Whoever has a table of its own has filled the cache, and only a restart,
\* which ends every call, empties it.
Warm == \A x \in Threads : call[x].phase \in {"decide", "load"} => cache # Cold

\* Every table anywhere that is to be written has an owner.
Owned ==
    /\ HasOwner(stored)
    /\ cache # Cold => HasOwner(cache)
    /\ \A x \in Threads :
           call[x].phase \in {"fill", "put", "publish"} => HasOwner(call[x].seen)

\* What set_role publishes is what it has made durable.
PublishesStored ==
    \A h \in Handlers : At(h, "set", "publish") => call[h].seen = stored

\* A request to join needs Action::Read.
JoinsAsked ==
    \A i \in 1..Len(mailbox) : mailbox[i].kind = "join" => mailbox[i].need = Viewer

JoinsRead ==
    /\ JoinsAsked
    /\ call[Document].op = "join" => call[Document].need = Viewer

IInv == TypeOK /\ OneWriter /\ Warm /\ Owned /\ PublishesStored /\ JoinsRead

\* A subject's role in the cache is stale only until set_role publishes it.
Fresh ==
    cache # Cold => \A s \in Subjects : cache[s] = stored[s] \/ Publishing(s)

\* What set_role is about to write is what is durable, but for its change.
PutsOneChange ==
    \A h \in Handlers : At(h, "set", "put") =>
        call[h].seen = [stored EXCEPT ![call[h].target] = call[h].role]

\* The document thread has been told of every change, or will be.
Telling == \E h \in Handlers :
               call[h].op = "set" /\ call[h].phase \in {"publish", "notify"}
Told == \E i \in 1..Len(mailbox) : mailbox[i] = Enforce
Pending == Telling \/ Told

\* What it has decided by, and what it is about to do, is right unless a
\* change of grants is still on its way to it.
DocumentKnows ==
    /\ call[Document].phase = "decide" => call[Document].seen = stored \/ Pending
    /\ At(Document, "join", "connect") =>
           stored[call[Document].subject] >= Viewer \/ Pending

\* What it took up when it was not allowed is not allowed yet.
LateIsRefused ==
    call[Document].late =>
        /\ stored[call[Document].subject] < call[Document].need
        /\ cache # Cold => cache[call[Document].subject] < call[Document].need
        /\ call[Document].phase = "decide" =>
               call[Document].seen[call[Document].subject] < call[Document].need
        /\ call[Document].phase # "append"

Enforcing == call[Document].op = "enforce" /\ call[Document].phase # "idle"

\* ConnectedMayRead, by these names
Reading == \A s \in conns : stored[s] >= Viewer \/ Pending \/ Enforcing

Safe == /\ NoGrantLost /\ Fresh /\ PutsOneChange
        /\ DocumentKnows /\ LateIsRefused /\ Reading

SInv == ~straddled => Safe

----------------------------------------------------------------------------
(***************************************************************************)
(* One thread's step                                                       *)
(***************************************************************************)

Phases == {"idle", "probe", "fetch", "fill", "decide", "load", "put",
           "publish", "notify", "connect", "append"}

\* Whose call it is and for what.
SameCall(i, j) ==
    /\ j.op = i.op /\ j.subject = i.subject /\ j.need = i.need
    /\ j.target = i.target /\ j.role = i.role /\ j.late = i.late

\* Only x moves.
Only(x) ==
    /\ call' \in [Threads -> Calls]
    /\ \A y \in Threads : y # x => call'[y] = call[y]

\* A thread that is in the middle of nothing.
LEMMA IdleCall ==
  /\ Idle \in Calls
  /\ Idle.phase = "idle" /\ Idle.late = FALSE /\ Idle.op = "open"
BY GrantsAssumption DEF Idle, Calls, NoGrants, Tables, Roles, Owner

\* A call goes on to its next step.
LEMMA Stepped ==
  ASSUME TypeOK, NEW x \in Threads, NEW p \in Phases, Step(x, p)
  PROVE  /\ Only(x) /\ SameCall(call[x], call'[x])
         /\ call'[x].phase = p /\ call'[x].seen = call[x].seen
<1>1. call[x] \in Calls
  BY DEF TypeOK
<1>2. [call[x] EXCEPT !.phase = p] \in Calls
  BY <1>1 DEF Calls, Phases
<1>3. call'[x] = [call[x] EXCEPT !.phase = p]
  BY DEF TypeOK, Step
<1>4. Only(x)
  BY <1>2 DEF Only, Step, TypeOK
<1>5. QED
  BY <1>1, <1>3, <1>4 DEF SameCall, Calls

\* A call goes on to its next step with a table.
LEMMA Saw ==
  ASSUME TypeOK, NEW x \in Threads, NEW p \in Phases, NEW t \in Tables,
         call' = [call EXCEPT ![x].seen = t, ![x].phase = p]
  PROVE  /\ Only(x) /\ SameCall(call[x], call'[x])
         /\ call'[x].phase = p /\ call'[x].seen = t
<1>1. call[x] \in Calls
  BY DEF TypeOK
<1> DEFINE j == [call[x] EXCEPT !.seen = t, !.phase = p]
<1>2. j \in Calls
  BY <1>1 DEF Calls, Phases
<1>3. call' = [call EXCEPT ![x] = j]
  BY DEF TypeOK
<1>4. SameCall(call[x], j) /\ j.phase = p /\ j.seen = t
  BY <1>1 DEF SameCall, Calls
<1> HIDE DEF j
<1>5. QED
  BY <1>2, <1>3, <1>4 DEF Only, TypeOK

\* A call ends.
LEMMA Ended ==
  ASSUME TypeOK, NEW x \in Threads, Done(x)
  PROVE  Only(x) /\ call'[x] = Idle
BY IdleCall DEF Only, Done, TypeOK

\* The roles there are.
LEMMA Ranks ==
  /\ Viewer \in Roles /\ Owner \in Roles /\ Needs \subseteq Roles
  /\ \A r \in Roles : r \in Nat
  /\ Viewer = 1
BY GrantsAssumption DEF Roles, Viewer, Commenter, Editor, Owner

\* A request handler begins to authorize a socket.
LEMMA OpenBegun ==
  ASSUME TypeOK, NEW h \in Handlers, NEW s \in Subjects, BeginOpen(h, s)
  PROVE  /\ Only(h) /\ call[h].phase = "idle"
         /\ call'[h].op = "open" /\ call'[h].phase = "probe"
<1> DEFINE j == [Idle EXCEPT !.op = "open", !.phase = "probe",
                             !.subject = s, !.need = Viewer]
<1>1. Idle \in Calls /\ h \in Threads /\ Viewer \in Roles
  BY IdleCall, Ranks DEF Threads
<1>2. j \in Calls /\ j.op = "open" /\ j.phase = "probe"
  BY <1>1 DEF Calls
<1>3. call' = [call EXCEPT ![h] = j] /\ call[h].phase = "idle"
  BY DEF BeginOpen
<1> HIDE DEF j
<1>4. QED
  BY <1>1, <1>2, <1>3 DEF Only, TypeOK

\* A request handler begins to change a role.
LEMMA SetBegun ==
  ASSUME TypeOK, NEW h \in Handlers, NEW s \in Subjects, NEW target \in Subjects,
         NEW role \in GrantRoles, BeginSet(h, s, target, role)
  PROVE  /\ Only(h) /\ call[h].phase = "idle"
         /\ call'[h].op = "set" /\ call'[h].phase = "probe"
         /\ \A g \in Handlers : ~Writing(g)
<1> DEFINE j == [Idle EXCEPT !.op = "set", !.phase = "probe", !.subject = s,
                             !.need = Owner, !.target = target, !.role = role]
<1>1. Idle \in Calls /\ h \in Threads /\ role \in Roles /\ Owner \in Roles
  BY IdleCall, Ranks, GrantsAssumption DEF Threads
<1>2. j \in Calls /\ j.op = "set" /\ j.phase = "probe"
  BY <1>1 DEF Calls
<1>3. /\ call' = [call EXCEPT ![h] = j] /\ call[h].phase = "idle"
      /\ \A g \in Handlers : ~Writing(g)
  BY DEF BeginSet
<1> HIDE DEF j
<1>4. QED
  BY <1>1, <1>2, <1>3 DEF Only, TypeOK

\* The document thread takes a request up.
LEMMA Taken ==
  ASSUME TypeOK, Take
  PROVE  /\ Only(Document) /\ call[Document].phase = "idle"
         /\ mailbox # <<>> /\ Head(mailbox) \in Requests
         /\ call'[Document].op = Head(mailbox).kind
         /\ call'[Document].phase = "probe"
         /\ call'[Document].subject = Head(mailbox).subject
         /\ call'[Document].need = Head(mailbox).need
         /\ call'[Document].late <=>
                /\ effect[Head(mailbox).subject] < Head(mailbox).need
                /\ ~Publishing(Head(mailbox).subject)
<1> DEFINE request == Head(mailbox)
           l == effect[request.subject] < request.need /\ ~Publishing(request.subject)
           j == [Idle EXCEPT !.op = request.kind, !.phase = "probe",
                             !.subject = request.subject, !.need = request.need,
                             !.late = l]
<1>1. Idle \in Calls /\ Document \in Threads
  BY IdleCall DEF Threads
<1>2. mailbox # <<>> /\ request \in Requests /\ call[Document].phase = "idle"
  BY DEF Take, TypeOK
<1>3. l \in BOOLEAN
  OBVIOUS
<1>4. call' = [call EXCEPT ![Document] = j]
  BY DEF Take
<1> HIDE DEF l, request
<1>5. /\ j \in Calls /\ j.op = request.kind /\ j.phase = "probe"
      /\ j.subject = request.subject /\ j.need = request.need /\ j.late = l
  BY <1>1, <1>2, <1>3 DEF Calls, Requests
<1> HIDE DEF j
<1>6. /\ Only(Document) /\ call'[Document] = j
  BY <1>1, <1>4, <1>5 DEF Only, TypeOK
<1>7. QED
  BY <1>2, <1>5, <1>6 DEF request, l

\* A role is made durable: what the document thread took up may be allowed now.
LEMMA PutDone ==
  ASSUME TypeOK, NEW h \in Handlers, Put(h)
  PROVE  /\ call' \in [Threads -> Calls]
         /\ SameCall(call[h], call'[h]) /\ call'[h].seen = call[h].seen
         /\ call'[h].phase = "publish"
         /\ \A x \in Threads : x \notin {h, Document} => call'[x] = call[x]
         /\ call'[Document].op = call[Document].op
         /\ call'[Document].phase = call[Document].phase
         /\ call'[Document].subject = call[Document].subject
         /\ call'[Document].need = call[Document].need
         /\ call'[Document].seen = call[Document].seen
         /\ call'[Document].late =>
                /\ call[Document].late
                /\ ~(/\ call[Document].subject = call[h].target
                     /\ call[h].role >= call[Document].need)
<1> DEFINE c == [call EXCEPT ![h].phase = "publish"]
           i == [call[h] EXCEPT !.phase = "publish"]
           l == call[Document].late /\ ~(/\ call[Document].subject = call[h].target
                                         /\ call[h].role >= call[Document].need)
           d == [call[Document] EXCEPT !.late = l]
<1>1. h \in Threads /\ Document \in Threads /\ h # Document
  BY GrantsAssumption DEF Threads
<1>2. call[h] \in Calls /\ call[Document] \in Calls
  BY <1>1 DEF TypeOK
<1>3. /\ i \in Calls /\ SameCall(call[h], i) /\ i.seen = call[h].seen
      /\ i.phase = "publish"
  BY <1>2 DEF Calls, SameCall
<1>4. l \in BOOLEAN
  BY <1>2 DEF Calls
<1>5. call' = [[call EXCEPT ![h] = i] EXCEPT ![Document] = d]
  BY <1>1 DEF Put, TypeOK
<1>6. l => /\ call[Document].late
           /\ ~(/\ call[Document].subject = call[h].target
                /\ call[h].role >= call[Document].need)
  OBVIOUS
<1> HIDE DEF l, i
<1>7. /\ d \in Calls /\ d.op = call[Document].op /\ d.phase = call[Document].phase
      /\ d.subject = call[Document].subject /\ d.need = call[Document].need
      /\ d.seen = call[Document].seen /\ d.late = l
  BY <1>2, <1>4 DEF Calls
<1> HIDE DEF d
<1>8. /\ call' \in [Threads -> Calls] /\ call'[h] = i /\ call'[Document] = d
      /\ \A x \in Threads : x \notin {h, Document} => call'[x] = call[x]
  BY <1>1, <1>3, <1>5, <1>7 DEF TypeOK
<1>9. QED
  BY <1>3, <1>6, <1>7, <1>8

----------------------------------------------------------------------------
(***************************************************************************)
(* The mailbox                                                             *)
(***************************************************************************)

\* What is queued is behind everything that was.
LEMMA Queued ==
  ASSUME TypeOK, NEW r \in Requests, mailbox' = Append(mailbox, r)
  PROVE  /\ mailbox' \in Seq(Requests) /\ Len(mailbox') = Len(mailbox) + 1
         /\ \A i \in 1..Len(mailbox) : mailbox'[i] = mailbox[i]
         /\ mailbox'[Len(mailbox) + 1] = r
BY DEF TypeOK

\* What is taken was in front of everything else.
LEMMA Dequeued ==
  ASSUME TypeOK, mailbox # <<>>, mailbox' = Tail(mailbox)
  PROVE  /\ mailbox' \in Seq(Requests) /\ Len(mailbox') = Len(mailbox) - 1
         /\ \A i \in 1..Len(mailbox') : mailbox'[i] = mailbox[i + 1]
         /\ Head(mailbox) = mailbox[1] /\ 1 \in 1..Len(mailbox)
         /\ \A i \in 1..Len(mailbox') : i + 1 \in 1..Len(mailbox)
BY DEF TypeOK

\* A request that asks for no more than to read, if it is one to join, may be queued.
LEMMA JoinsQueued ==
  ASSUME TypeOK, JoinsAsked, NEW r \in Requests, r.kind = "join" => r.need = Viewer,
         mailbox' = Append(mailbox, r)
  PROVE  mailbox' \in Seq(Requests) /\ JoinsAsked'
<1>1. /\ mailbox' \in Seq(Requests) /\ Len(mailbox') = Len(mailbox) + 1
      /\ \A i \in 1..Len(mailbox) : mailbox'[i] = mailbox[i]
      /\ mailbox'[Len(mailbox) + 1] = r
  BY Queued
<1>2. \A i \in 1..Len(mailbox') : i \in 1..Len(mailbox) \/ i = Len(mailbox) + 1
  BY <1>1 DEF TypeOK
<1>3. QED
  BY <1>1, <1>2 DEF JoinsAsked

----------------------------------------------------------------------------
(***************************************************************************)
(* Types, and an owner in every table                                      *)
(***************************************************************************)

\* A step of one thread's, that leaves the durable table alone, is sound if
\* what that thread then holds is.
LEMMA StepKeeps ==
  ASSUME IInv, NEW x \in Threads, Only(x), stored' = stored,
         cache # Cold => cache' # Cold, cache' # Cold => HasOwner(cache'),
         JoinsAsked',
         x \in Handlers /\ Writing(x)' => Writing(x) \/ \A g \in Handlers : ~Writing(g),
         call'[x].phase \in {"decide", "load"} => cache' # Cold,
         call'[x].phase \in {"fill", "put", "publish"} => HasOwner(call'[x].seen),
         x \in Handlers /\ call'[x].op = "set" /\ call'[x].phase = "publish"
             => call'[x].seen = stored,
         x = Document /\ call'[x].op = "join" => call'[x].need = Viewer
  PROVE  OneWriter' /\ Warm' /\ Owned' /\ PublishesStored' /\ JoinsRead'
<1>1. Handlers \subseteq Threads /\ Document \in Threads
  BY DEF Threads
<1>2. \A y \in Threads : y # x => call'[y] = call[y]
  BY DEF Only
<1>3. OneWriter'
  BY <1>1, <1>2 DEF IInv, OneWriter, Writing
<1>4. Warm'
  BY <1>2 DEF IInv, Warm
<1>5. Owned'
  BY <1>2 DEF IInv, Owned, HasOwner
<1>6. PublishesStored'
  BY <1>1, <1>2 DEF IInv, PublishesStored, At
<1>7. JoinsRead'
  BY <1>1, <1>2 DEF IInv, JoinsRead
<1>8. QED
  BY <1>3, <1>4, <1>5, <1>6, <1>7

\* The same, where nothing but the thread's call changes.
LEMMA CallKeeps ==
  ASSUME IInv, NEW x \in Threads, Only(x), UNCHANGED <<table, conns, count>>,
         mailbox' \in Seq(Requests), JoinsAsked',
         x \in Handlers /\ Writing(x)' => Writing(x) \/ \A g \in Handlers : ~Writing(g),
         call'[x].phase \in {"decide", "load"} => cache # Cold,
         call'[x].phase \in {"fill", "put", "publish"} => HasOwner(call'[x].seen),
         x \in Handlers /\ call'[x].op = "set" /\ call'[x].phase = "publish"
             => call'[x].seen = stored,
         x = Document /\ call'[x].op = "join" => call'[x].need = Viewer
  PROVE  IInv'
<1>1. TypeOK'
  BY DEF IInv, TypeOK, Only, table
<1>2. stored' = stored /\ cache' = cache
  BY DEF table
<1>3. cache # Cold => HasOwner(cache)
  BY DEF IInv, Owned
<1>4. OneWriter' /\ Warm' /\ Owned' /\ PublishesStored' /\ JoinsRead'
  BY <1>2, <1>3, StepKeeps
<1>5. QED
  BY <1>1, <1>4 DEF IInv

\* The cache is looked at.
LEMMA ProbeInv == ASSUME IInv, NEW x \in Threads, Probe(x) PROVE IInv'
<1>1. TypeOK /\ JoinsRead /\ JoinsAsked' /\ mailbox' \in Seq(Requests)
  BY DEF IInv, Probe, TypeOK, JoinsRead, JoinsAsked
<1> DEFINE t == IF cache = Cold THEN call[x].seen ELSE cache
           p == IF cache = Cold THEN "fetch" ELSE "decide"
<1>2. call[x] \in Calls
  BY <1>1 DEF TypeOK
<1>3. t \in Tables /\ p \in Phases
  BY <1>1, <1>2 DEF TypeOK, Calls, Phases
<1>4. call' = [call EXCEPT ![x].seen = t, ![x].phase = p]
  BY <1>1 DEF Probe, TypeOK
<1>5. (p = "decide" /\ cache # Cold) \/ p = "fetch"
  OBVIOUS
<1> HIDE DEF t, p
<1>6. /\ Only(x) /\ SameCall(call[x], call'[x])
      /\ call'[x].phase = p /\ call'[x].seen = t
  BY <1>1, <1>3, <1>4, Saw
<1>7. call[x].phase = "probe" /\ UNCHANGED <<table, conns, count>>
  BY DEF Probe
<1>8. Writing(x)' => Writing(x)
  BY <1>6, <1>7 DEF Writing, SameCall
<1>9. x = Document /\ call'[x].op = "join" => call'[x].need = Viewer
  BY <1>1, <1>6 DEF SameCall, JoinsRead
<1>10. QED
  BY <1>1, <1>5, <1>6, <1>7, <1>8, <1>9, CallKeeps

\* The durable table is read.
LEMMA FetchInv == ASSUME IInv, NEW x \in Threads, Fetch(x) PROVE IInv'
<1>1. TypeOK /\ JoinsRead /\ JoinsAsked' /\ mailbox' \in Seq(Requests)
  BY DEF IInv, Fetch, TypeOK, JoinsRead, JoinsAsked
<1>2. stored \in Tables /\ HasOwner(stored)
  BY DEF IInv, TypeOK, Owned
<1>3. /\ Only(x) /\ SameCall(call[x], call'[x])
      /\ call'[x].phase = "fill" /\ call'[x].seen = stored
  BY <1>1, <1>2, Saw DEF Fetch, Phases
<1>4. call[x].phase = "fetch" /\ UNCHANGED <<table, conns, count>>
  BY DEF Fetch
<1>5. Writing(x)' => Writing(x)
  BY <1>3, <1>4 DEF Writing, SameCall
<1>6. x = Document /\ call'[x].op = "join" => call'[x].need = Viewer
  BY <1>1, <1>3 DEF SameCall, JoinsRead
<1>7. QED
  BY <1>1, <1>2, <1>3, <1>4, <1>5, <1>6, CallKeeps

\* The cache is filled.
LEMMA FillInv == ASSUME IInv, NEW x \in Threads, Fill(x) PROVE IInv'
<1>1. TypeOK /\ JoinsRead /\ JoinsAsked'
  BY DEF IInv, Fill, JoinsRead, JoinsAsked
<1>2. /\ Only(x) /\ SameCall(call[x], call'[x])
      /\ call'[x].phase = "decide" /\ call'[x].seen = call[x].seen
  BY <1>1, Stepped DEF Fill, Phases
<1>3. call[x] \in Calls /\ call[x].seen \in Tables /\ call[x].phase = "fill"
  BY <1>1 DEF TypeOK, Calls, Fill
<1>4. cache' = call[x].seen /\ cache' # Cold /\ HasOwner(cache')
  BY <1>3, GrantsAssumption DEF IInv, Owned, Fill, Tables
<1>5. TypeOK'
  BY <1>1, <1>2, <1>3 DEF TypeOK, Fill, Only
<1>6. stored' = stored
  BY DEF Fill
<1>7. Writing(x)' => Writing(x)
  BY <1>2, <1>3 DEF Writing, SameCall
<1>8. x = Document /\ call'[x].op = "join" => call'[x].need = Viewer
  BY <1>1, <1>2 DEF SameCall, JoinsRead
<1>9. QED
  BY <1>1, <1>2, <1>4, <1>5, <1>6, <1>7, <1>8, StepKeeps DEF IInv

\* A call ends, leaving the tables as they are.
LEMMA DoneInv ==
  ASSUME IInv, NEW x \in Threads, Done(x), UNCHANGED <<table, conns, count>>,
         mailbox' \in Seq(Requests), JoinsAsked'
  PROVE  IInv'
<1>1. Only(x) /\ call'[x] = Idle
  BY Ended DEF IInv
<1>2. Idle.phase = "idle" /\ Idle.op = "open"
  BY IdleCall
<1>3. ~Writing(x)'
  BY <1>1, <1>2 DEF Writing
<1>4. QED
  BY <1>1, <1>2, <1>3, CallKeeps

\* A call goes on to its next step, leaving the tables as they are.
LEMMA StepInv ==
  ASSUME IInv, NEW x \in Threads, NEW p \in Phases, Step(x, p),
         UNCHANGED <<table, mailbox, conns, count>>,
         call[x].phase # "idle", p \notin {"fill", "put", "publish"},
         call[x].op = "set" => call[x].phase # "notify",
         p \in {"decide", "load"} => cache # Cold
  PROVE  IInv'
<1>1. TypeOK /\ JoinsRead /\ JoinsAsked' /\ mailbox' \in Seq(Requests)
  BY DEF IInv, TypeOK, JoinsRead, JoinsAsked
<1>2. /\ Only(x) /\ SameCall(call[x], call'[x])
      /\ call'[x].phase = p /\ call'[x].seen = call[x].seen
  BY <1>1, Stepped
<1>3. Writing(x)' => Writing(x)
  BY <1>2 DEF Writing, SameCall
<1>4. x = Document /\ call'[x].op = "join" => call'[x].need = Viewer
  BY <1>1, <1>2 DEF SameCall, JoinsRead
<1>5. QED
  BY <1>1, <1>2, <1>3, <1>4, CallKeeps

\* A socket's request begins.
LEMMA BeginOpenInv ==
  ASSUME IInv, NEW h \in Handlers, NEW s \in Subjects, BeginOpen(h, s) PROVE IInv'
<1>1. TypeOK /\ JoinsAsked' /\ mailbox' \in Seq(Requests) /\ h \in Threads /\ h # Document
  BY GrantsAssumption DEF IInv, BeginOpen, TypeOK, JoinsRead, JoinsAsked, Threads
<1>2. Only(h) /\ call'[h].op = "open" /\ call'[h].phase = "probe"
  BY <1>1, OpenBegun
<1>3. ~Writing(h)'
  BY <1>2 DEF Writing
<1>4. UNCHANGED <<table, conns, count>>
  BY DEF BeginOpen
<1>5. QED
  BY <1>1, <1>2, <1>3, <1>4, CallKeeps

\* A change of grants begins, alone.
LEMMA BeginSetInv ==
  ASSUME IInv, NEW h \in Handlers, NEW s \in Subjects, NEW target \in Subjects,
         NEW role \in GrantRoles, BeginSet(h, s, target, role)
  PROVE  IInv'
<1>1. TypeOK /\ JoinsAsked' /\ h \in Threads /\ h # Document
  BY GrantsAssumption DEF IInv, BeginSet, JoinsRead, JoinsAsked, Threads
<1>2. /\ Only(h) /\ call'[h].op = "set" /\ call'[h].phase = "probe"
      /\ \A g \in Handlers : ~Writing(g)
  BY <1>1, SetBegun
<1>3. stored' = stored /\ cache' = cache
  BY DEF BeginSet, table
<1>4. TypeOK'
  <2>1. count.sets + 1 \in 0..MaxSets
    BY <1>1, GrantsAssumption DEF BeginSet, TypeOK
  <2>2. count' \in [sets : 0..MaxSets, restarts : 0..MaxRestarts, faults : 0..MaxFaults]
    BY <1>1, <2>1 DEF BeginSet, TypeOK
  <2>3. QED
    BY <1>1, <1>2, <2>2 DEF TypeOK, Only, BeginSet, table
<1>5. cache # Cold => HasOwner(cache)
  BY DEF IInv, Owned
<1>6. OneWriter' /\ Warm' /\ Owned' /\ PublishesStored' /\ JoinsRead'
  BY <1>1, <1>2, <1>3, <1>5, StepKeeps
<1>7. QED
  BY <1>4, <1>6 DEF IInv

\* A socket is let in to the mailbox, or not.
LEMMA DecideOpenInv == ASSUME IInv, NEW h \in Handlers, DecideOpen(h) PROVE IInv'
<1>1. TypeOK /\ JoinsAsked /\ h \in Threads /\ Done(h) /\ UNCHANGED <<table, conns, count>>
  BY DEF IInv, DecideOpen, JoinsRead, Threads
<1> DEFINE r == [kind |-> "join", subject |-> call[h].subject, need |-> Viewer]
<1>2. r \in Requests /\ r.need = Viewer
  BY <1>1, Ranks DEF TypeOK, Calls, Requests
<1>3. mailbox' = mailbox \/ mailbox' = Append(mailbox, r)
  BY DEF DecideOpen
<1> HIDE DEF r
<1>4. mailbox' \in Seq(Requests) /\ JoinsAsked'
  <2>1. CASE mailbox' = mailbox
    BY <1>1, <2>1 DEF TypeOK, JoinsAsked
  <2>2. CASE mailbox' = Append(mailbox, r)
    BY <1>1, <1>2, <2>2, JoinsQueued
  <2>3. QED
    BY <1>3, <2>1, <2>2
<1>5. QED
  BY <1>1, <1>4, DoneInv

\* A change of grants is allowed, or not.
LEMMA DecideSetInv == ASSUME IInv, NEW h \in Handlers, DecideSet(h) PROVE IInv'
<1>1. /\ h \in Threads /\ UNCHANGED <<table, mailbox, conns, count>>
      /\ call[h].phase = "decide" /\ cache # Cold
      /\ mailbox' \in Seq(Requests) /\ JoinsAsked'
  BY DEF IInv, DecideSet, At, Warm, Threads, TypeOK, JoinsRead, JoinsAsked
<1>2. CASE Step(h, "load")
  BY <1>1, <1>2, StepInv DEF Phases
<1>3. CASE Done(h)
  BY <1>1, <1>3, DoneInv
<1>4. QED
  BY <1>2, <1>3 DEF DecideSet

\* The table to be written is computed, and has an owner.
LEMMA LoadInv == ASSUME IInv, NEW h \in Handlers, Load(h) PROVE IInv'
<1> DEFINE changed == [cache EXCEPT ![call[h].target] = call[h].role]
<1>1. /\ TypeOK /\ h \in Threads /\ h # Document
      /\ UNCHANGED <<table, mailbox, conns, count>>
      /\ call[h].phase = "load" /\ call[h].op = "set" /\ cache # Cold
      /\ mailbox' \in Seq(Requests) /\ JoinsAsked'
  BY GrantsAssumption DEF IInv, Load, At, Warm, Threads, TypeOK, JoinsRead, JoinsAsked
<1>2. CASE Done(h)
  BY <1>1, <1>2, DoneInv
<1>3. CASE HasOwner(changed)
           /\ call' = [call EXCEPT ![h].seen = changed, ![h].phase = "put"]
  <2>1. cache \in Tables /\ call[h] \in Calls
    BY <1>1 DEF TypeOK
  <2>2. call[h].target \in Subjects /\ call[h].role \in Roles
    BY <2>1 DEF Calls
  <2>3. changed \in Tables
    BY <2>1, <2>2 DEF Tables
  <2>4. call' = [call EXCEPT ![h].seen = changed, ![h].phase = "put"] /\ HasOwner(changed)
    BY <1>3
  <2> HIDE DEF changed
  <2>5. /\ Only(h) /\ SameCall(call[h], call'[h])
        /\ call'[h].phase = "put" /\ call'[h].seen = changed
    BY <1>1, <2>3, <2>4, Saw DEF Phases
  <2>6. Writing(h)' => Writing(h)
    BY <1>1, <2>5 DEF Writing
  <2>7. QED
    BY <1>1, <2>4, <2>5, <2>6, CallKeeps
<1>4. QED
  BY <1>2, <1>3 DEF Load

\* The table is durable: no one else is publishing one.
LEMMA PutInv == ASSUME IInv, NEW h \in Handlers, Put(h) PROVE IInv'
<1>1. /\ TypeOK /\ h \in Threads /\ Document \in Threads /\ h # Document
      /\ Handlers \subseteq Threads
      /\ call[h].phase = "put" /\ call[h].op = "set"
      /\ stored' = call[h].seen /\ UNCHANGED <<cache, straddled, mailbox, conns, count>>
  BY GrantsAssumption DEF IInv, Put, At, Threads
<1>2. /\ call' \in [Threads -> Calls]
      /\ SameCall(call[h], call'[h]) /\ call'[h].seen = call[h].seen
      /\ call'[h].phase = "publish"
      /\ \A x \in Threads : x \notin {h, Document} => call'[x] = call[x]
      /\ call'[Document].op = call[Document].op
      /\ call'[Document].phase = call[Document].phase
      /\ call'[Document].need = call[Document].need
      /\ call'[Document].seen = call[Document].seen
  BY <1>1, PutDone
<1>3. call[h].seen \in Tables /\ call[h].target \in Subjects /\ call[h].role \in Roles
  BY <1>1 DEF TypeOK, Calls
<1>4. TypeOK'
  <2>1. effect' \in Tables
    BY <1>1, <1>3 DEF Put, TypeOK, Tables
  <2>2. QED
    BY <1>1, <1>2, <1>3, <2>1 DEF TypeOK
<1>5. OneWriter'
  BY <1>1, <1>2, GrantsAssumption DEF IInv, OneWriter, Writing, SameCall
<1>6. Warm'
  BY <1>1, <1>2 DEF IInv, Warm
<1>7. Owned'
  <2>1. HasOwner(call[h].seen) /\ (cache # Cold => HasOwner(cache))
    BY <1>1 DEF IInv, Owned
  <2>2. HasOwner(stored)'
    BY <1>1, <2>1 DEF HasOwner
  <2>3. (cache # Cold => HasOwner(cache))'
    BY <1>1, <2>1 DEF HasOwner
  <2>4. ASSUME NEW x \in Threads,
               call'[x].phase \in {"fill", "put", "publish"}
        PROVE  HasOwner(call'[x].seen)
    BY <1>1, <1>2, <2>1, <2>4 DEF IInv, Owned
  <2>5. QED
    BY <2>2, <2>3, <2>4 DEF Owned, HasOwner
<1>8. PublishesStored'
  <2>1. ASSUME NEW g \in Handlers, At(g, "set", "publish")' PROVE call'[g].seen = stored'
    <3>1. CASE g = h
      BY <1>1, <1>2, <3>1
    <3>2. CASE g # h
      BY <1>1, <1>2, <2>1, <3>2, GrantsAssumption DEF IInv, OneWriter, Writing, At
    <3>3. QED
      BY <3>1, <3>2
  <2>2. QED
    BY <2>1 DEF PublishesStored
<1>9. JoinsRead'
  BY <1>1, <1>2 DEF IInv, JoinsRead, JoinsAsked
<1>10. QED
  BY <1>4, <1>5, <1>6, <1>7, <1>8, <1>9 DEF IInv

\* The table is not written.
LEMMA PutFailsInv == ASSUME IInv, NEW h \in Handlers, PutFails(h) PROVE IInv'
<1>1. TypeOK /\ h \in Threads /\ h # Document /\ JoinsAsked'
  BY GrantsAssumption DEF IInv, Threads, PutFails, JoinsRead, JoinsAsked
<1>2. /\ Only(h) /\ call'[h] = Idle /\ Idle.phase = "idle" /\ Idle.op = "open"
  BY <1>1, Ended, IdleCall DEF PutFails
<1>3. stored' = stored /\ cache' = cache
  BY DEF PutFails, table
<1>4. TypeOK'
  <2>1. count.faults + 1 \in 0..MaxFaults
    BY <1>1, GrantsAssumption DEF PutFails, TypeOK
  <2>2. count' \in [sets : 0..MaxSets, restarts : 0..MaxRestarts, faults : 0..MaxFaults]
    BY <1>1, <2>1 DEF PutFails, TypeOK
  <2>3. QED
    BY <1>1, <1>2, <2>2 DEF TypeOK, Only, PutFails, table
<1>5. cache # Cold => HasOwner(cache)
  BY DEF IInv, Owned
<1>6. ~Writing(h)'
  BY <1>2 DEF Writing
<1>7. OneWriter' /\ Warm' /\ Owned' /\ PublishesStored' /\ JoinsRead'
  BY <1>1, <1>2, <1>3, <1>5, <1>6, StepKeeps
<1>8. QED
  BY <1>4, <1>7 DEF IInv

\* The cache becomes what is durable.
LEMMA PublishInv == ASSUME IInv, NEW h \in Handlers, Publish(h) PROVE IInv'
<1>1. TypeOK /\ JoinsAsked' /\ h \in Threads /\ h # Document
  BY GrantsAssumption DEF IInv, Publish, JoinsRead, JoinsAsked, Threads
<1>2. /\ Only(h) /\ SameCall(call[h], call'[h])
      /\ call'[h].phase = "notify" /\ call'[h].seen = call[h].seen
  BY <1>1, Stepped DEF Publish, Phases
<1>3. call[h].seen \in Tables /\ At(h, "set", "publish")
  BY <1>1 DEF TypeOK, Calls, Publish
<1>4. cache' = call[h].seen /\ cache' # Cold /\ HasOwner(cache')
  BY <1>1, <1>3, GrantsAssumption DEF IInv, Owned, Publish, Tables, At
<1>5. TypeOK'
  BY <1>1, <1>2, <1>3 DEF TypeOK, Publish, Only
<1>6. stored' = stored
  BY DEF Publish
<1>7. ~Writing(h)'
  BY <1>2 DEF Writing
<1>8. QED
  BY <1>1, <1>2, <1>4, <1>5, <1>6, <1>7, StepKeeps DEF IInv

\* What tells the document thread of a changed grant.
LEMMA EnforceRequest == Enforce \in Requests /\ Enforce.kind = "enforce"
<1>1. 0 \in Roles
  BY DEF Roles, Owner
<1>2. QED
  BY <1>1, GrantsAssumption DEF Enforce, Requests

\* The document thread will be told.
LEMMA NotifyInv == ASSUME IInv, NEW h \in Handlers, Notify(h) PROVE IInv'
<1>1. /\ TypeOK /\ JoinsAsked /\ h \in Threads /\ Done(h)
      /\ UNCHANGED <<table, conns, count>> /\ mailbox' = Append(mailbox, Enforce)
  BY DEF IInv, Notify, JoinsRead, Threads
<1>2. mailbox' \in Seq(Requests) /\ JoinsAsked'
  BY <1>1, EnforceRequest, JoinsQueued
<1>3. QED
  BY <1>1, <1>2, DoneInv

\* A socket submits.
LEMMA SendSubmitInv ==
  ASSUME IInv, NEW s \in Subjects, NEW need \in Needs, SendSubmit(s, need)
  PROVE  IInv'
<1> DEFINE r == [kind |-> "submit", subject |-> s, need |-> need]
<1>1. TypeOK /\ JoinsAsked /\ UNCHANGED <<table, call, conns, count>>
  BY DEF IInv, SendSubmit, JoinsRead
<1>2. r \in Requests /\ r.kind = "submit" /\ mailbox' = Append(mailbox, r)
  BY Ranks DEF Requests, SendSubmit
<1> HIDE DEF r
<1>3. mailbox' \in Seq(Requests) /\ JoinsAsked'
  BY <1>1, <1>2, JoinsQueued
<1>4. TypeOK'
  BY <1>1, <1>3 DEF TypeOK, table
<1>5. OneWriter' /\ Warm' /\ Owned' /\ PublishesStored'
  BY <1>1 DEF IInv, OneWriter, Writing, Warm, Owned, HasOwner, PublishesStored, At, table
<1>6. JoinsRead'
  BY <1>1, <1>3 DEF IInv, JoinsRead
<1>7. QED
  BY <1>4, <1>5, <1>6 DEF IInv

\* The document thread takes a request up.
LEMMA TakeInv == ASSUME IInv, Take PROVE IInv'
<1>1. TypeOK /\ JoinsAsked /\ Document \in Threads /\ Document \notin Handlers
  BY GrantsAssumption DEF IInv, JoinsRead, Threads
<1>2. /\ Only(Document) /\ mailbox # <<>>
      /\ call'[Document].op = Head(mailbox).kind
      /\ call'[Document].phase = "probe"
      /\ call'[Document].need = Head(mailbox).need
  BY <1>1, Taken
<1>3. mailbox' = Tail(mailbox) /\ UNCHANGED <<table, conns, count>>
  BY DEF Take
<1>4. /\ mailbox' \in Seq(Requests)
      /\ \A i \in 1..Len(mailbox') : mailbox'[i] = mailbox[i + 1]
      /\ Head(mailbox) = mailbox[1] /\ 1 \in 1..Len(mailbox)
      /\ \A i \in 1..Len(mailbox') : i + 1 \in 1..Len(mailbox)
  BY <1>1, <1>2, <1>3, Dequeued
<1>5. JoinsAsked'
  BY <1>1, <1>4 DEF JoinsAsked
<1>6. call'[Document].op = "join" => call'[Document].need = Viewer
  BY <1>1, <1>2, <1>4 DEF JoinsAsked
<1>7. QED
  BY <1>1, <1>2, <1>3, <1>4, <1>5, <1>6, CallKeeps

\* The document thread lets a socket join, or not.
LEMMA DecideJoinInv == ASSUME IInv, DecideJoin PROVE IInv'
<1>1. /\ Document \in Threads /\ UNCHANGED <<table, mailbox, conns, count>>
      /\ call[Document].phase = "decide" /\ call[Document].op = "join"
      /\ mailbox' \in Seq(Requests) /\ JoinsAsked'
  BY DEF IInv, DecideJoin, At, Threads, TypeOK, JoinsRead, JoinsAsked
<1>2. CASE Step(Document, "connect")
  BY <1>1, <1>2, StepInv DEF Phases
<1>3. CASE Done(Document)
  BY <1>1, <1>3, DoneInv
<1>4. QED
  BY <1>2, <1>3 DEF DecideJoin

\* The document thread ends what it was doing, having changed who is connected.
LEMMA DoneConnsInv ==
  ASSUME IInv, Done(Document), conns' \subseteq Subjects,
         UNCHANGED <<table, mailbox, count>>
  PROVE  IInv'
<1>1. TypeOK /\ Document \in Threads /\ Document \notin Handlers /\ JoinsAsked'
  BY GrantsAssumption DEF IInv, Threads, JoinsRead, JoinsAsked
<1>2. /\ Only(Document) /\ call'[Document] = Idle
      /\ Idle.phase = "idle" /\ Idle.op = "open"
  BY <1>1, Ended, IdleCall
<1>3. stored' = stored /\ cache' = cache
  BY DEF table
<1>4. TypeOK'
  BY <1>1, <1>2 DEF TypeOK, Only, table
<1>5. cache # Cold => HasOwner(cache)
  BY DEF IInv, Owned
<1>6. OneWriter' /\ Warm' /\ Owned' /\ PublishesStored' /\ JoinsRead'
  BY <1>1, <1>2, <1>3, <1>5, StepKeeps
<1>7. QED
  BY <1>4, <1>6 DEF IInv

\* A socket joins.
LEMMA ConnectInv == ASSUME IInv, Connect PROVE IInv'
<1>1. Document \in Threads
  BY DEF Threads
<1>2. call[Document].subject \in Subjects
  BY <1>1 DEF IInv, TypeOK, Calls
<1>3. conns' \subseteq Subjects
  BY <1>2 DEF IInv, TypeOK, Connect
<1>4. QED
  BY <1>3, DoneConnsInv DEF Connect

\* The document thread will log a batch, or not.
LEMMA DecideSubmitInv == ASSUME IInv, DecideSubmit PROVE IInv'
<1>1. /\ Document \in Threads /\ UNCHANGED <<table, mailbox, conns, count>>
      /\ call[Document].phase = "decide" /\ call[Document].op = "submit"
      /\ mailbox' \in Seq(Requests) /\ JoinsAsked'
  BY DEF IInv, DecideSubmit, At, Threads, TypeOK, JoinsRead, JoinsAsked
<1>2. CASE Step(Document, "append")
  BY <1>1, <1>2, StepInv DEF Phases
<1>3. CASE Done(Document)
  BY <1>1, <1>3, DoneInv
<1>4. QED
  BY <1>2, <1>3 DEF DecideSubmit

\* A batch is logged.
LEMMA AppendBatchInv == ASSUME IInv, AppendBatch PROVE IInv'
<1>1. TypeOK
  BY DEF IInv
<1>2. conns' \subseteq Subjects
  BY <1>1 DEF TypeOK, AppendBatch
<1>3. QED
  BY <1>2, DoneConnsInv DEF AppendBatch

\* Those who may no longer read are closed.
LEMMA DecideEnforceInv == ASSUME IInv, DecideEnforce PROVE IInv'
<1>1. TypeOK
  BY DEF IInv
<1>2. conns' \subseteq Subjects
  BY <1>1 DEF TypeOK, DecideEnforce
<1>3. QED
  BY <1>2, DoneConnsInv DEF DecideEnforce

\* The process starts again.
LEMMA RestartInv == ASSUME IInv, Restart PROVE IInv'
<1>1. TypeOK /\ Document \in Threads /\ Handlers \subseteq Threads
  BY DEF IInv, Threads
<1>2. \A x \in Threads : call'[x] = Idle
  BY DEF Restart
<1>3. Idle \in Calls /\ Idle.phase = "idle" /\ Idle.op = "open"
  BY IdleCall
<1>4. TypeOK'
  <2>1. count.restarts + 1 \in 0..MaxRestarts
    BY <1>1, GrantsAssumption DEF Restart, TypeOK
  <2>2. count' \in [sets : 0..MaxSets, restarts : 0..MaxRestarts, faults : 0..MaxFaults]
    BY <1>1, <2>1 DEF Restart, TypeOK
  <2>3. call' \in [Threads -> Calls]
    BY <1>3 DEF Restart
  <2>4. mailbox' \in Seq(Requests) /\ conns' \subseteq Subjects
    BY DEF Restart
  <2>5. QED
    BY <1>1, <2>2, <2>3, <2>4 DEF TypeOK, Restart
<1>5. OneWriter' /\ Warm' /\ PublishesStored'
  BY <1>1, <1>2, <1>3 DEF OneWriter, Writing, Warm, PublishesStored, At
<1>6. Owned'
  BY <1>2, <1>3 DEF IInv, Owned, HasOwner, Restart
<1>7. JoinsRead'
  <2>1. mailbox' = <<>> /\ Len(<<>>) = 0
    BY DEF Restart
  <2>2. QED
    BY <1>1, <1>2, <1>3, <2>1 DEF JoinsRead, JoinsAsked
<1>8. QED
  BY <1>4, <1>5, <1>6, <1>7 DEF IInv

----------------------------------------------------------------------------

\* The document has just been created by this process.
LEMMA InitInv == Init => IInv
<1> SUFFICES ASSUME Init PROVE IInv
  OBVIOUS
<1>1. /\ stored = [NoGrants EXCEPT ![Creator] = Owner] /\ cache = stored
      /\ mailbox = <<>> /\ Len(<<>>) = 0
      /\ \A x \in Threads : call[x] = Idle
  BY DEF Init
<1>2. Idle \in Calls /\ Idle.phase = "idle" /\ Idle.op = "open"
  BY IdleCall
<1>3. stored \in Tables /\ HasOwner(stored)
  <2>1. NoGrants \in Tables
    BY DEF NoGrants, Tables, Roles, Owner
  <2>2. Creator \in Subjects /\ Owner \in Roles
    BY GrantsAssumption, Ranks
  <2>3. QED
    BY <1>1, <2>1, <2>2 DEF Tables, HasOwner
<1>4. TypeOK
  <2>1. count \in [sets : 0..MaxSets, restarts : 0..MaxRestarts, faults : 0..MaxFaults]
    <3>1. 0 \in 0..MaxSets /\ 0 \in 0..MaxRestarts /\ 0 \in 0..MaxFaults
      BY GrantsAssumption
    <3>2. QED
      BY <3>1 DEF Init
  <2>2. call \in [Threads -> Calls]
    BY <1>2 DEF Init
  <2>3. mailbox \in Seq(Requests)
    BY <1>1
  <2>4. QED
    BY <1>1, <1>3, <2>1, <2>2, <2>3 DEF TypeOK, Init
<1>5. Document \in Threads /\ Handlers \subseteq Threads
  BY DEF Threads
<1>6. OneWriter /\ Warm /\ PublishesStored
  BY <1>1, <1>2, <1>5 DEF OneWriter, Writing, Warm, PublishesStored, At
<1>7. Owned
  BY <1>1, <1>2, <1>3 DEF Owned
<1>8. JoinsRead
  BY <1>1, <1>2, <1>5 DEF JoinsRead, JoinsAsked
<1>9. QED
  BY <1>4, <1>6, <1>7, <1>8 DEF IInv

\* Every step preserves it.
LEMMA NextInv == IInv /\ [Next]_vars => IInv'
<1> SUFFICES ASSUME IInv, [Next]_vars PROVE IInv'
  OBVIOUS
<1>1. ASSUME NEW x \in Threads, Probe(x) \/ Fetch(x) \/ Fill(x) PROVE IInv'
  BY <1>1, ProbeInv, FetchInv, FillInv
<1>2. ASSUME NEW h \in Handlers, NEW s \in Subjects, BeginOpen(h, s) PROVE IInv'
  BY <1>2, BeginOpenInv
<1>3. ASSUME NEW h \in Handlers, NEW s \in Subjects, NEW target \in Subjects,
             NEW role \in GrantRoles, BeginSet(h, s, target, role)
      PROVE  IInv'
  BY <1>3, BeginSetInv
<1>4. ASSUME NEW h \in Handlers, DecideOpen(h) \/ DecideSet(h) \/ Load(h) PROVE IInv'
  BY <1>4, DecideOpenInv, DecideSetInv, LoadInv
<1>5. ASSUME NEW h \in Handlers, Put(h) \/ PutFails(h) \/ Publish(h) \/ Notify(h)
      PROVE  IInv'
  BY <1>5, PutInv, PutFailsInv, PublishInv, NotifyInv
<1>6. ASSUME NEW s \in Subjects, NEW need \in Needs, SendSubmit(s, need) PROVE IInv'
  BY <1>6, SendSubmitInv
<1>7. CASE Take \/ DecideJoin \/ Connect
  BY <1>7, TakeInv, DecideJoinInv, ConnectInv
<1>8. CASE DecideSubmit \/ AppendBatch \/ DecideEnforce \/ Restart
  BY <1>8, DecideSubmitInv, AppendBatchInv, DecideEnforceInv, RestartInv
<1>9. CASE UNCHANGED vars
  BY <1>9 DEF IInv, TypeOK, OneWriter, Writing, Warm, Owned, HasOwner,
              PublishesStored, At, JoinsRead, JoinsAsked, vars
<1>10. QED
  BY <1>1, <1>2, <1>3, <1>4, <1>5, <1>6, <1>7, <1>8, <1>9 DEF Next

\* It always holds.
LEMMA Invariant == Spec => []IInv
BY InitInv, NextInv, PTL DEF Spec

\* Every variable has its type: the tables, the cache, every thread's call, the
\* mailbox and the connections.
THEOREM TypeCorrect == Spec => []TypeOK
<1>1. IInv => TypeOK
  BY DEF IInv
<1>2. QED
  BY <1>1, Invariant, PTL

\* A document is never left without an owner, however many handlers change
\* roles at once, whatever table a change was computed from and wherever the
\* process stops (permission.rs set_role).
THEOREM OwnerAlwaysRemains == Spec => []OwnerRemains
<1>1. IInv => OwnerRemains
  BY DEF IInv, Owned, OwnerRemains
<1>2. QED
  BY <1>1, Invariant, PTL

----------------------------------------------------------------------------
(***************************************************************************)
(* The three promises, while no read of the table is overtaken by a write  *)
(***************************************************************************)

\* Two tables with the same roles are the same.
LEMMA SameTable ==
  ASSUME NEW t \in Tables, NEW u \in Tables, \A s \in Subjects : t[s] = u[s]
  PROVE  t = u
BY DEF Tables

\* When no one is publishing, the cache is what is durable.
LEMMA FreshIsStored ==
  ASSUME TypeOK, Fresh, cache # Cold, \A s \in Subjects : ~Publishing(s)
  PROVE  cache = stored
BY SameTable DEF TypeOK, Fresh

\* A handler that is neither publishing nor telling the document thread moves.
LEMMA HandlerSafe ==
  ASSUME IInv, Safe, NEW h \in Handlers, Only(h), UNCHANGED <<table, conns>>,
         Told => Told',
         call[h].op = "set" => call[h].phase \notin {"publish", "notify"},
         At(h, "set", "put")' =>
             call'[h].seen = [stored EXCEPT ![call'[h].target] = call'[h].role]
  PROVE  Safe'
<1>1. /\ Handlers \subseteq Threads /\ Document \in Threads /\ Document # h
      /\ \A y \in Threads : y # h => call'[y] = call[y]
      /\ stored' = stored /\ cache' = cache /\ effect' = effect
  BY GrantsAssumption DEF Threads, Only, table
<1>2. \A s \in Subjects : Publishing(s) => Publishing(s)'
  BY <1>1 DEF Publishing, At
<1>3. Pending => Pending'
  BY <1>1 DEF Pending, Telling
<1>4. NoGrantLost'
  BY <1>1 DEF Safe, NoGrantLost
<1>5. Fresh'
  BY <1>1, <1>2 DEF Safe, Fresh
<1>6. PutsOneChange'
  <2>1. ASSUME NEW g \in Handlers, At(g, "set", "put")'
        PROVE  call'[g].seen = [stored EXCEPT ![call'[g].target] = call'[g].role]
    <3>1. CASE g = h
      BY <2>1, <3>1
    <3>2. CASE g # h
      BY <1>1, <2>1, <3>2 DEF Safe, PutsOneChange, At
    <3>3. QED
      BY <3>1, <3>2
  <2>2. QED
    BY <1>1, <2>1 DEF PutsOneChange
<1>7. DocumentKnows'
  BY <1>1, <1>3 DEF Safe, DocumentKnows, At
<1>8. LateIsRefused'
  BY <1>1 DEF Safe, LateIsRefused
<1>9. Reading'
  BY <1>1, <1>3 DEF Safe, Reading, Enforcing
<1>10. QED
  BY <1>4, <1>5, <1>6, <1>7, <1>8, <1>9 DEF Safe

\* What the document thread's steps leave alone.
LEMMA DocumentSteps ==
  ASSUME Safe, Only(Document), UNCHANGED table
  PROVE  /\ NoGrantLost' /\ Fresh' /\ PutsOneChange' /\ (Telling => Telling')
         /\ mailbox' = mailbox /\ Pending => Pending'
         /\ stored' = stored /\ cache' = cache
<1>1. /\ \A h \in Handlers : call'[h] = call[h]
      /\ stored' = stored /\ cache' = cache /\ effect' = effect
  BY GrantsAssumption DEF Threads, Only, table
<1>2. NoGrantLost'
  BY <1>1 DEF Safe, NoGrantLost
<1>3. Fresh'
  BY <1>1 DEF Safe, Fresh, Publishing, At
<1>4. PutsOneChange'
  BY <1>1 DEF Safe, PutsOneChange, At
<1>5. Telling => Telling'
  BY <1>1 DEF Telling
<1>6. mailbox' = mailbox /\ Pending => Pending'
  BY <1>5 DEF Pending, Told
<1>7. QED
  BY <1>1, <1>2, <1>3, <1>4, <1>5, <1>6

\* The document thread's call ends.
LEMMA DocumentEnds ==
  ASSUME IInv, Safe, Done(Document), UNCHANGED <<table, mailbox>>,
         \A s \in conns' : stored[s] >= Viewer \/ Pending
  PROVE  Safe'
<1>1. Only(Document) /\ call'[Document] = Idle
  BY Ended DEF IInv, Threads
<1>2. Idle.phase = "idle" /\ Idle.late = FALSE
  BY IdleCall
<1>3. /\ NoGrantLost' /\ Fresh' /\ PutsOneChange' /\ (Pending => Pending')
      /\ stored' = stored
  BY <1>1, DocumentSteps
<1>4. DocumentKnows' /\ LateIsRefused'
  BY <1>1, <1>2 DEF DocumentKnows, LateIsRefused, At
<1>5. Reading'
  BY <1>3 DEF Reading
<1>6. QED
  BY <1>3, <1>4, <1>5 DEF Safe

\* Every subject's role, the one of who is being authorized included, is a number.
LEMMA RoleNumbers ==
  ASSUME TypeOK
  PROVE  /\ \A x \in Threads :
              /\ call[x].subject \in Subjects /\ call[x].target \in Subjects
              /\ call[x].need \in Nat /\ call[x].role \in Nat
              /\ call[x].seen \in Tables
         /\ \A t \in Tables, s \in Subjects : t[s] \in Nat
BY Ranks DEF TypeOK, Calls, Tables

\* The cache is looked at.
LEMMA ProbeSafe == ASSUME IInv, Safe, NEW x \in Threads, Probe(x) PROVE Safe'
<1>1. TypeOK /\ call[x].phase = "probe" /\ UNCHANGED <<table, mailbox, conns, count>>
  BY DEF IInv, Probe
<1> DEFINE t == IF cache = Cold THEN call[x].seen ELSE cache
           p == IF cache = Cold THEN "fetch" ELSE "decide"
<1>2. t \in Tables /\ p \in Phases
  BY <1>1, RoleNumbers DEF TypeOK, Phases
<1>3. call' = [call EXCEPT ![x].seen = t, ![x].phase = p]
  BY <1>1 DEF Probe, TypeOK
<1>4. (cache # Cold /\ p = "decide" /\ t = cache) \/ p = "fetch"
  OBVIOUS
<1> HIDE DEF t, p
<1>5. /\ Only(x) /\ SameCall(call[x], call'[x])
      /\ call'[x].phase = p /\ call'[x].seen = t
  BY <1>1, <1>2, <1>3, Saw
<1>6. CASE x \in Handlers
  <2>1. (Told => Told') /\ ~At(x, "set", "put")'
    BY <1>1, <1>4, <1>5 DEF Told, At
  <2>2. QED
    BY <1>1, <1>5, <1>6, <2>1, HandlerSafe
<1>7. CASE x = Document
  <2>1. /\ NoGrantLost' /\ Fresh' /\ PutsOneChange' /\ (Pending => Pending')
        /\ stored' = stored /\ cache' = cache
    BY <1>1, <1>5, <1>7, DocumentSteps
  <2>2. cache # Cold => cache = stored \/ Pending
    <3>1. (\E s \in Subjects : Publishing(s)) => Pending
      BY DEF Publishing, At, Pending, Telling
    <3>2. QED
      BY <1>1, <3>1, FreshIsStored DEF Safe
  <2>3. DocumentKnows'
    BY <1>4, <1>5, <1>7, <2>1, <2>2 DEF DocumentKnows, At
  <2>4. LateIsRefused'
    BY <1>4, <1>5, <1>7, <2>1 DEF Safe, LateIsRefused, SameCall
  <2>5. Reading'
    BY <1>1, <1>4, <1>5, <1>7, <2>1 DEF Safe, Reading, Enforcing, SameCall
  <2>6. QED
    BY <2>1, <2>3, <2>4, <2>5 DEF Safe
<1>8. QED
  BY <1>6, <1>7 DEF Threads

\* The durable table is read.
LEMMA FetchSafe == ASSUME IInv, Safe, NEW x \in Threads, Fetch(x) PROVE Safe'
<1>1. TypeOK /\ call[x].phase = "fetch" /\ UNCHANGED <<table, mailbox, conns, count>>
  BY DEF IInv, Fetch
<1>2. /\ Only(x) /\ SameCall(call[x], call'[x])
      /\ call'[x].phase = "fill"
  BY <1>1, Saw DEF Fetch, Phases, TypeOK
<1>3. CASE x \in Handlers
  <2>1. (Told => Told') /\ ~At(x, "set", "put")'
    BY <1>1, <1>2 DEF Told, At
  <2>2. QED
    BY <1>1, <1>2, <1>3, <2>1, HandlerSafe
<1>4. CASE x = Document
  <2>1. /\ NoGrantLost' /\ Fresh' /\ PutsOneChange' /\ (Pending => Pending')
        /\ stored' = stored /\ cache' = cache
    BY <1>1, <1>2, <1>4, DocumentSteps
  <2>2. DocumentKnows'
    BY <1>2, <1>4 DEF DocumentKnows, At
  <2>3. LateIsRefused'
    BY <1>2, <1>4, <2>1 DEF Safe, LateIsRefused, SameCall
  <2>4. Reading'
    BY <1>1, <1>2, <1>4, <2>1 DEF Safe, Reading, Enforcing, SameCall
  <2>5. QED
    BY <2>1, <2>2, <2>3, <2>4 DEF Safe
<1>5. QED
  BY <1>3, <1>4 DEF Threads

\* The cache becomes what is durable, as some call goes on that was not about
\* to tell the document thread, or still is.
LEMMA CacheSafe ==
  ASSUME IInv, Safe, NEW x \in Threads, Only(x), SameCall(call[x], call'[x]),
         cache' = stored, UNCHANGED <<stored, effect, mailbox, conns>>,
         call'[x].phase \in {"decide", "notify"}, call[x].phase # "idle",
         call'[x].phase = "decide" => call[x].phase = "fill" /\ call'[x].seen = stored,
         call'[x].phase = "notify" => x \in Handlers /\ call[x].op = "set"
  PROVE  Safe'
<1>1. /\ Handlers \subseteq Threads /\ Document \in Threads
      /\ \A y \in Threads : y # x => call'[y] = call[y]
  BY DEF Threads, Only
<1>2. NoGrantLost' /\ Fresh'
  BY DEF Safe, NoGrantLost, Fresh
<1>3. PutsOneChange'
  <2>1. ASSUME NEW h \in Handlers, At(h, "set", "put")'
        PROVE  call'[h].seen = [stored' EXCEPT ![call'[h].target] = call'[h].role]
    <3>1. h # x /\ call'[h] = call[h] /\ stored' = stored
      BY <1>1, <2>1 DEF At
    <3>2. QED
      BY <2>1, <3>1 DEF Safe, PutsOneChange, At
  <2>2. QED
    BY <2>1 DEF PutsOneChange
<1>4. Pending => Pending'
  BY <1>1 DEF Pending, Telling, Told, SameCall
<1>5. CASE x = Document
  <2>1. call'[x].phase = "decide" /\ call'[x].seen = stored
    BY <1>5, GrantsAssumption
  <2>2. DocumentKnows'
    BY <1>5, <2>1 DEF DocumentKnows, At
  <2>3. LateIsRefused'
    BY <1>5, <2>1 DEF Safe, LateIsRefused, SameCall
  <2>4. Reading'
    BY <1>4, <1>5, <2>1 DEF Safe, Reading, Enforcing, SameCall
  <2>5. QED
    BY <1>2, <1>3, <2>2, <2>3, <2>4 DEF Safe
<1>6. CASE x # Document
  <2>1. call'[Document] = call[Document]
    BY <1>1, <1>6
  <2>2. DocumentKnows'
    BY <1>4, <2>1 DEF Safe, DocumentKnows, At
  <2>3. LateIsRefused'
    BY <2>1 DEF Safe, LateIsRefused
  <2>4. Reading'
    BY <1>4, <2>1 DEF Safe, Reading, Enforcing
  <2>5. QED
    BY <1>2, <1>3, <2>2, <2>3, <2>4 DEF Safe
<1>7. QED
  BY <1>5, <1>6

\* The cache is filled with what is still durable.
LEMMA FillSafe ==
  ASSUME IInv, Safe, NEW x \in Threads, Fill(x), ~straddled' PROVE Safe'
<1>1. /\ TypeOK /\ call[x].phase = "fill" /\ call[x].seen = stored
      /\ cache' = stored /\ UNCHANGED <<stored, effect, mailbox, conns>>
  BY DEF IInv, Fill
<1>2. /\ Only(x) /\ SameCall(call[x], call'[x])
      /\ call'[x].phase = "decide" /\ call'[x].seen = call[x].seen
  BY <1>1, Stepped DEF Fill, Phases
<1>3. QED
  BY <1>1, <1>2, CacheSafe

\* The cache becomes what set_role made durable.
LEMMA PublishSafe == ASSUME IInv, Safe, NEW h \in Handlers, Publish(h) PROVE Safe'
<1>1. /\ TypeOK /\ h \in Threads /\ At(h, "set", "publish")
      /\ UNCHANGED <<stored, effect, mailbox, conns>>
  BY DEF IInv, Publish, Threads
<1>2. cache' = stored
  BY <1>1 DEF IInv, PublishesStored, Publish
<1>3. /\ Only(h) /\ SameCall(call[h], call'[h]) /\ call'[h].phase = "notify"
  BY <1>1, Stepped DEF Publish, Phases
<1>4. QED
  BY <1>1, <1>2, <1>3, CacheSafe DEF At

\* A request handler's call ends before it has made anything durable.
LEMMA HandlerEnds ==
  ASSUME IInv, Safe, NEW h \in Handlers, Done(h), UNCHANGED <<table, conns>>,
         Told => Told',
         call[h].op = "set" => call[h].phase \notin {"publish", "notify"}
  PROVE  Safe'
<1>1. Only(h) /\ call'[h] = Idle
  BY Ended DEF IInv, Threads
<1>2. ~At(h, "set", "put")'
  BY <1>1, IdleCall DEF At
<1>3. QED
  BY <1>1, <1>2, HandlerSafe

\* What was queued still is, behind it something more.
LEMMA StillTold ==
  ASSUME TypeOK, NEW r \in Requests, mailbox' = Append(mailbox, r)
  PROVE  (Told => Told') /\ (r = Enforce => Told')
<1>1. /\ Len(mailbox') = Len(mailbox) + 1 /\ Len(mailbox) \in Nat
      /\ \A i \in 1..Len(mailbox) : mailbox'[i] = mailbox[i]
      /\ mailbox'[Len(mailbox) + 1] = r
  BY Queued DEF TypeOK
<1>2. \A i \in 1..Len(mailbox) : i \in 1..Len(mailbox')
  BY <1>1
<1>3. Len(mailbox) + 1 \in 1..Len(mailbox')
  BY <1>1
<1>4. QED
  BY <1>1, <1>2, <1>3 DEF Told

\* A socket's request begins.
LEMMA BeginOpenSafe ==
  ASSUME IInv, Safe, NEW h \in Handlers, NEW s \in Subjects, BeginOpen(h, s)
  PROVE  Safe'
<1>1. call[h].phase = "idle" /\ UNCHANGED <<table, conns>> /\ (Told => Told')
  BY DEF BeginOpen, Told
<1>2. Only(h) /\ call'[h].phase = "probe"
  BY OpenBegun DEF IInv
<1>3. QED
  BY <1>1, <1>2, HandlerSafe DEF At

\* A change of grants begins.
LEMMA BeginSetSafe ==
  ASSUME IInv, Safe, NEW h \in Handlers, NEW s \in Subjects,
         NEW target \in Subjects, NEW role \in GrantRoles,
         BeginSet(h, s, target, role)
  PROVE  Safe'
<1>1. call[h].phase = "idle" /\ UNCHANGED <<table, conns>> /\ (Told => Told')
  BY DEF BeginSet, Told
<1>2. Only(h) /\ call'[h].phase = "probe"
  BY SetBegun DEF IInv
<1>3. QED
  BY <1>1, <1>2, HandlerSafe DEF At

\* A socket is let in to the mailbox, or not.
LEMMA DecideOpenSafe == ASSUME IInv, Safe, NEW h \in Handlers, DecideOpen(h) PROVE Safe'
<1> DEFINE r == [kind |-> "join", subject |-> call[h].subject, need |-> Viewer]
<1>1. /\ TypeOK /\ Done(h) /\ UNCHANGED <<table, conns>> /\ call[h].op = "open"
      /\ (mailbox' = mailbox \/ mailbox' = Append(mailbox, r))
  BY DEF IInv, DecideOpen, At
<1>2. r \in Requests
  BY <1>1, Ranks, RoleNumbers DEF Requests, Threads
<1> HIDE DEF r
<1>3. Told => Told'
  <2>1. CASE mailbox' = mailbox
    BY <2>1 DEF Told
  <2>2. CASE mailbox' = Append(mailbox, r)
    BY <1>1, <1>2, <2>2, StillTold
  <2>3. QED
    BY <1>1, <2>1, <2>2
<1>4. QED
  BY <1>1, <1>3, HandlerEnds

\* A change of grants is allowed, or not.
LEMMA DecideSetSafe == ASSUME IInv, Safe, NEW h \in Handlers, DecideSet(h) PROVE Safe'
<1>1. /\ TypeOK /\ h \in Threads /\ UNCHANGED <<table, conns>>
      /\ call[h].phase = "decide" /\ (Told => Told')
  BY DEF IInv, DecideSet, At, Threads, Told
<1>2. CASE Step(h, "load")
  <2>1. Only(h) /\ call'[h].phase = "load"
    BY <1>1, <1>2, Stepped DEF Phases
  <2>2. ~At(h, "set", "put")'
    BY <2>1 DEF At
  <2>3. QED
    BY <1>1, <2>1, <2>2, HandlerSafe
<1>3. CASE Done(h)
  BY <1>1, <1>3, HandlerEnds
<1>4. QED
  BY <1>2, <1>3 DEF DecideSet

\* The table to be written is the durable one, but for the change: the lock is
\* held, so no one else's change is on its way to the cache.
LEMMA LoadSafe == ASSUME IInv, Safe, NEW h \in Handlers, Load(h) PROVE Safe'
<1> DEFINE changed == [cache EXCEPT ![call[h].target] = call[h].role]
<1>1. /\ TypeOK /\ h \in Threads /\ UNCHANGED <<table, conns>>
      /\ call[h].phase = "load" /\ call[h].op = "set" /\ (Told => Told')
  BY DEF IInv, Load, At, Threads, Told
<1>2. cache = stored /\ cache \in Tables
  <2>1. cache # Cold
    BY <1>1 DEF IInv, Warm
  <2>2. \A s \in Subjects : ~Publishing(s)
    BY <1>1 DEF IInv, OneWriter, Writing, Publishing, At
  <2>3. QED
    BY <1>1, <2>1, <2>2, FreshIsStored DEF Safe, TypeOK
<1>3. CASE Done(h)
  BY <1>1, <1>3, HandlerEnds
<1>4. CASE call' = [call EXCEPT ![h].seen = changed, ![h].phase = "put"]
  <2>1. call[h].target \in Subjects /\ call[h].role \in Roles
    BY <1>1 DEF TypeOK, Calls
  <2>2. changed \in Tables /\ changed = [stored EXCEPT ![call[h].target] = call[h].role]
    BY <1>2, <2>1 DEF Tables
  <2>3. call' = [call EXCEPT ![h].seen = changed, ![h].phase = "put"]
    BY <1>4
  <2> HIDE DEF changed
  <2>4. Only(h) /\ SameCall(call[h], call'[h]) /\ call'[h].seen = changed
    BY <1>1, <2>2, <2>3, Saw DEF Phases
  <2>5. call'[h].seen = [stored EXCEPT ![call'[h].target] = call'[h].role]
    BY <2>2, <2>4 DEF SameCall
  <2>6. QED
    BY <1>1, <2>4, <2>5, HandlerSafe
<1>5. QED
  BY <1>3, <1>4 DEF Load

\* The table is not written.
LEMMA PutFailsSafe == ASSUME IInv, Safe, NEW h \in Handlers, PutFails(h) PROVE Safe'
<1>1. /\ Done(h) /\ UNCHANGED <<table, conns>> /\ call[h].phase = "put"
      /\ (Told => Told')
  BY DEF PutFails, At, Told
<1>2. QED
  BY <1>1, HandlerEnds

\* The table is durable, and is what it was but for one role.
LEMMA PutSafe == ASSUME IInv, Safe, NEW h \in Handlers, Put(h) PROVE Safe'
<1>1. /\ TypeOK /\ h \in Threads /\ Document \in Threads /\ h # Document
      /\ Handlers \subseteq Threads /\ call[h].phase = "put" /\ call[h].op = "set"
      /\ stored' = call[h].seen /\ UNCHANGED <<cache, straddled, mailbox, conns, count>>
      /\ effect' = [effect EXCEPT ![call[h].target] = call[h].role]
  BY GrantsAssumption DEF IInv, Put, At, Threads
<1>2. /\ SameCall(call[h], call'[h]) /\ call'[h].phase = "publish"
      /\ \A x \in Threads : x \notin {h, Document} => call'[x] = call[x]
      /\ call'[Document].op = call[Document].op
      /\ call'[Document].phase = call[Document].phase
      /\ call'[Document].subject = call[Document].subject
      /\ call'[Document].need = call[Document].need
      /\ call'[Document].seen = call[Document].seen
      /\ call'[Document].late =>
             /\ call[Document].late
             /\ ~(/\ call[Document].subject = call[h].target
                  /\ call[h].role >= call[Document].need)
  BY <1>1, PutDone
<1>3. stored' = [stored EXCEPT ![call[h].target] = call[h].role]
  BY <1>1 DEF Safe, PutsOneChange, At
<1>4. /\ stored \in Tables /\ call[h].target \in Subjects
      /\ call[Document].subject \in Subjects
      /\ call[h].role \in Nat /\ call[Document].need \in Nat
  BY <1>1, RoleNumbers DEF TypeOK
<1>5. /\ stored'[call[h].target] = call[h].role
      /\ \A s \in Subjects : s # call[h].target => stored'[s] = stored[s]
  BY <1>3, <1>4 DEF Tables
<1>6. Telling'
  BY <1>1, <1>2 DEF Telling, SameCall
<1>7. Pending'
  BY <1>6 DEF Pending
<1>8. NoGrantLost'
  BY <1>1, <1>3 DEF Safe, NoGrantLost
<1>9. Fresh'
  <2>1. ASSUME cache # Cold, NEW s \in Subjects, s # call[h].target
        PROVE  cache[s] = stored[s]
    <3>1. \A g \in Handlers : ~At(g, "set", "publish")
      BY <1>1 DEF IInv, OneWriter, Writing, At
    <3>2. ~Publishing(s)
      BY <3>1 DEF Publishing
    <3>3. QED
      BY <2>1, <3>2 DEF Safe, Fresh
  <2>2. ASSUME cache' # Cold, NEW s \in Subjects
        PROVE  cache'[s] = stored'[s] \/ Publishing(s)'
    <3>1. CASE s = call[h].target
      BY <1>1, <1>2, <3>1 DEF Publishing, At, SameCall
    <3>2. CASE s # call[h].target
      BY <1>1, <1>5, <2>1, <2>2, <3>2
    <3>3. QED
      BY <3>1, <3>2
  <2>3. QED
    BY <2>2 DEF Fresh
<1>10. PutsOneChange'
  <2>1. \A g \in Handlers : ~At(g, "set", "put")'
    BY <1>1, <1>2 DEF IInv, OneWriter, Writing, At
  <2>2. QED
    BY <2>1 DEF PutsOneChange
<1>11. DocumentKnows'
  BY <1>7 DEF DocumentKnows
<1>12. LateIsRefused'
  <2> SUFFICES ASSUME call'[Document].late PROVE LateIsRefused'
    BY DEF LateIsRefused
  <2>1. /\ call[Document].late
        /\ ~(/\ call[Document].subject = call[h].target
             /\ call[h].role >= call[Document].need)
    BY <1>2
  <2>2. stored'[call[Document].subject] < call[Document].need
    BY <1>4, <1>5, <2>1 DEF Safe, LateIsRefused
  <2>3. QED
    BY <1>1, <1>2, <2>1, <2>2 DEF Safe, LateIsRefused
<1>13. Reading'
  BY <1>7 DEF Reading
<1>14. QED
  BY <1>8, <1>9, <1>10, <1>11, <1>12, <1>13 DEF Safe

\* The document thread will be told: the change is in its mailbox now.
LEMMA NotifySafe == ASSUME IInv, Safe, NEW h \in Handlers, Notify(h) PROVE Safe'
<1>1. /\ TypeOK /\ h \in Threads /\ Handlers \subseteq Threads /\ Document \in Threads
      /\ h # Document /\ Done(h) /\ call[h].phase = "notify"
      /\ UNCHANGED <<table, conns>> /\ mailbox' = Append(mailbox, Enforce)
      /\ stored' = stored /\ cache' = cache /\ effect' = effect
  BY GrantsAssumption DEF IInv, Notify, At, Threads, table
<1>2. /\ call'[h] = Idle /\ Idle.phase = "idle"
      /\ \A y \in Threads : y # h => call'[y] = call[y]
  BY <1>1, Ended, IdleCall DEF Only
<1>3. Pending'
  BY <1>1, EnforceRequest, StillTold DEF Pending
<1>4. NoGrantLost'
  BY <1>1 DEF Safe, NoGrantLost
<1>5. Fresh'
  <2>1. \A s \in Subjects : Publishing(s) => Publishing(s)'
    BY <1>1, <1>2 DEF Publishing, At
  <2>2. QED
    BY <1>1, <2>1 DEF Safe, Fresh
<1>6. PutsOneChange'
  <2>1. ASSUME NEW g \in Handlers, At(g, "set", "put")'
        PROVE  call'[g].seen = [stored' EXCEPT ![call'[g].target] = call'[g].role]
    <3>1. g # h /\ call'[g] = call[g]
      BY <1>1, <1>2, <2>1 DEF At
    <3>2. QED
      BY <1>1, <2>1, <3>1 DEF Safe, PutsOneChange, At
  <2>2. QED
    BY <2>1 DEF PutsOneChange
<1>7. LateIsRefused'
  BY <1>1, <1>2 DEF Safe, LateIsRefused
<1>8. DocumentKnows' /\ Reading'
  BY <1>3 DEF DocumentKnows, Reading
<1>9. QED
  BY <1>4, <1>5, <1>6, <1>7, <1>8 DEF Safe

\* A socket submits.
LEMMA SendSubmitSafe ==
  ASSUME IInv, Safe, NEW s \in Subjects, NEW need \in Needs, SendSubmit(s, need)
  PROVE  Safe'
<1> DEFINE r == [kind |-> "submit", subject |-> s, need |-> need]
<1>1. TypeOK /\ UNCHANGED <<table, call, conns>>
  BY DEF IInv, SendSubmit
<1>2. r \in Requests /\ mailbox' = Append(mailbox, r)
  BY Ranks DEF Requests, SendSubmit
<1> HIDE DEF r
<1>3. Pending => Pending'
  BY <1>1, <1>2, StillTold DEF Pending, Telling
<1>4. /\ stored' = stored /\ cache' = cache /\ effect' = effect
      /\ call' = call /\ conns' = conns
  BY <1>1 DEF table
<1>5. NoGrantLost' /\ Fresh'
  BY <1>4 DEF Safe, NoGrantLost, Fresh, Publishing, At
<1>6. PutsOneChange'
  BY <1>4 DEF Safe, PutsOneChange, At
<1>7. DocumentKnows' /\ LateIsRefused' /\ Reading'
  BY <1>3, <1>4 DEF Safe, DocumentKnows, LateIsRefused, Reading, Enforcing, At
<1>8. QED
  BY <1>5, <1>6, <1>7 DEF Safe

\* The document thread takes a request up: if it is the word of a change, it
\* acts on it next.
LEMMA TakeSafe == ASSUME IInv, Safe, Take PROVE Safe'
<1>1. /\ TypeOK /\ mailbox' = Tail(mailbox) /\ UNCHANGED <<table, conns>>
      /\ conns' = conns
  BY DEF IInv, Take
<1>2. /\ Only(Document) /\ call[Document].phase = "idle"
      /\ mailbox # <<>> /\ Head(mailbox) \in Requests
      /\ call'[Document].op = Head(mailbox).kind
      /\ call'[Document].phase = "probe"
      /\ call'[Document].subject = Head(mailbox).subject
      /\ call'[Document].need = Head(mailbox).need
      /\ call'[Document].late =>
             /\ effect[Head(mailbox).subject] < Head(mailbox).need
             /\ ~Publishing(Head(mailbox).subject)
  BY <1>1, Taken
<1>3. /\ NoGrantLost' /\ Fresh' /\ PutsOneChange' /\ (Telling => Telling')
      /\ stored' = stored /\ cache' = cache
  BY <1>1, <1>2, DocumentSteps
<1>4. Pending => Pending' \/ Enforcing'
  <2>1. ASSUME NEW i \in 1..Len(mailbox), mailbox[i] = Enforce
        PROVE  Told' \/ Enforcing'
    <3>1. CASE i = 1
      BY <1>1, <1>2, <2>1, <3>1, Dequeued, EnforceRequest DEF Enforcing
    <3>2. CASE i # 1
      <4>1. /\ Len(mailbox') = Len(mailbox) - 1 /\ Len(mailbox) \in Nat
            /\ \A j \in 1..Len(mailbox') : mailbox'[j] = mailbox[j + 1]
        BY <1>1, <1>2, Dequeued DEF TypeOK
      <4>2. i - 1 \in 1..Len(mailbox') /\ (i - 1) + 1 = i
        BY <3>2, <4>1
      <4>3. QED
        BY <2>1, <4>1, <4>2 DEF Told
    <3>3. QED
      BY <3>1, <3>2
  <2>2. Told => Told' \/ Enforcing'
    BY <2>1 DEF Told
  <2>3. QED
    BY <1>3, <2>2 DEF Pending
<1>5. DocumentKnows'
  BY <1>2 DEF DocumentKnows, At
<1>6. LateIsRefused'
  <2>1. Head(mailbox).subject \in Subjects
    BY <1>2 DEF Requests
  <2>2. stored = effect
    BY DEF Safe, NoGrantLost
  <2>3. cache # Cold /\ ~Publishing(Head(mailbox).subject) =>
            cache[Head(mailbox).subject] = stored[Head(mailbox).subject]
    BY <2>1 DEF Safe, Fresh
  <2>4. QED
    BY <1>2, <1>3, <2>2, <2>3 DEF LateIsRefused
<1>7. Reading'
  <2>1. ~Enforcing
    BY <1>2 DEF Enforcing
  <2>2. QED
    BY <1>1, <1>3, <1>4, <2>1 DEF Safe, Reading
<1>8. QED
  BY <1>3, <1>5, <1>6, <1>7 DEF Safe

\* A socket may join as far as the document thread knows.
LEMMA DecideJoinSafe == ASSUME IInv, Safe, DecideJoin PROVE Safe'
<1>1. /\ TypeOK /\ Document \in Threads /\ UNCHANGED <<table, mailbox, conns>>
      /\ call[Document].op = "join" /\ call[Document].phase = "decide"
  BY DEF IInv, DecideJoin, At, Threads
<1>2. \A s \in conns : stored[s] >= Viewer \/ Pending
  BY <1>1 DEF Safe, Reading, Enforcing
<1>3. CASE Done(Document)
  BY <1>1, <1>2, <1>3, DocumentEnds
<1>4. CASE Allowed(Document) /\ Step(Document, "connect")
  <2>1. /\ Only(Document) /\ SameCall(call[Document], call'[Document])
        /\ call'[Document].phase = "connect"
    BY <1>1, <1>4, Stepped DEF Phases
  <2>2. /\ NoGrantLost' /\ Fresh' /\ PutsOneChange' /\ (Pending => Pending')
        /\ stored' = stored /\ cache' = cache /\ conns' = conns
    BY <1>1, <2>1, DocumentSteps
  <2>3. stored[call[Document].subject] >= Viewer \/ Pending
    BY <1>1, <1>4 DEF Safe, DocumentKnows, IInv, JoinsRead, Allowed
  <2>4. DocumentKnows'
    BY <2>1, <2>2, <2>3 DEF DocumentKnows, SameCall
  <2>5. LateIsRefused'
    BY <2>1, <2>2 DEF Safe, LateIsRefused, SameCall
  <2>6. Reading'
    BY <1>2, <2>2 DEF Reading
  <2>7. QED
    BY <2>2, <2>4, <2>5, <2>6 DEF Safe
<1>5. QED
  BY <1>3, <1>4 DEF DecideJoin

\* A socket joins.
LEMMA ConnectSafe == ASSUME IInv, Safe, Connect PROVE Safe'
<1>1. /\ At(Document, "join", "connect") /\ Done(Document)
      /\ UNCHANGED <<table, mailbox>> /\ conns' = conns \cup {call[Document].subject}
  BY DEF Connect
<1>2. stored[call[Document].subject] >= Viewer \/ Pending
  BY <1>1 DEF Safe, DocumentKnows
<1>3. \A s \in conns : stored[s] >= Viewer \/ Pending
  BY <1>1 DEF Safe, Reading, Enforcing, At
<1>4. QED
  BY <1>1, <1>2, <1>3, DocumentEnds

\* A batch that is too late is not let through.
LEMMA DecideSubmitSafe == ASSUME IInv, Safe, DecideSubmit PROVE Safe'
<1>1. /\ TypeOK /\ Document \in Threads /\ UNCHANGED <<table, mailbox, conns>>
      /\ call[Document].op = "submit" /\ call[Document].phase = "decide"
  BY DEF IInv, DecideSubmit, At, Threads
<1>2. \A s \in conns : stored[s] >= Viewer \/ Pending
  BY <1>1 DEF Safe, Reading, Enforcing
<1>3. CASE Done(Document)
  BY <1>1, <1>2, <1>3, DocumentEnds
<1>4. CASE Allowed(Document) /\ Step(Document, "append")
  <2>1. /\ Only(Document) /\ SameCall(call[Document], call'[Document])
        /\ call'[Document].phase = "append"
    BY <1>1, <1>4, Stepped DEF Phases
  <2>2. /\ NoGrantLost' /\ Fresh' /\ PutsOneChange' /\ (Pending => Pending')
        /\ stored' = stored /\ cache' = cache /\ conns' = conns
    BY <1>1, <2>1, DocumentSteps
  <2>3. ~call[Document].late
    <3>1. /\ call[Document].seen[call[Document].subject] \in Nat
          /\ call[Document].need \in Nat
      BY <1>1, RoleNumbers
    <3>2. QED
      BY <1>1, <1>4, <3>1 DEF Safe, LateIsRefused, Allowed
  <2>4. DocumentKnows'
    BY <2>1 DEF DocumentKnows, At
  <2>5. LateIsRefused'
    BY <2>1, <2>3 DEF LateIsRefused, SameCall
  <2>6. Reading'
    BY <1>2, <2>2 DEF Reading
  <2>7. QED
    BY <2>2, <2>4, <2>5, <2>6 DEF Safe
<1>5. QED
  BY <1>3, <1>4 DEF DecideSubmit

\* A batch is logged.
LEMMA AppendBatchSafe == ASSUME IInv, Safe, AppendBatch PROVE Safe'
<1>1. /\ At(Document, "submit", "append") /\ Done(Document)
      /\ UNCHANGED <<table, mailbox, conns>>
  BY DEF AppendBatch
<1>2. \A s \in conns : stored[s] >= Viewer \/ Pending
  BY <1>1 DEF Safe, Reading, Enforcing, At
<1>3. QED
  BY <1>1, <1>2, DocumentEnds

\* Whoever stays connected may read as far as the document thread knows.
LEMMA DecideEnforceSafe == ASSUME IInv, Safe, DecideEnforce PROVE Safe'
<1>1. /\ At(Document, "enforce", "decide") /\ Done(Document)
      /\ UNCHANGED <<table, mailbox>>
      /\ \A s \in conns' : call[Document].seen[s] >= Viewer
  BY DEF DecideEnforce
<1>2. call[Document].seen = stored \/ Pending
  BY <1>1 DEF Safe, DocumentKnows, At
<1>3. QED
  BY <1>1, <1>2, DocumentEnds

\* The process starts again, with no one connected.
LEMMA RestartSafe == ASSUME IInv, Safe, Restart PROVE Safe'
<1>1. /\ \A x \in Threads : call'[x] = Idle
      /\ Document \in Threads /\ Handlers \subseteq Threads
      /\ cache' = Cold /\ conns' = {} /\ stored' = stored /\ effect' = effect
  BY DEF Restart, Threads
<1>2. Idle.phase = "idle" /\ Idle.late = FALSE
  BY IdleCall
<1>3. NoGrantLost' /\ Fresh' /\ Reading'
  BY <1>1 DEF Safe, NoGrantLost, Fresh, Reading
<1>4. PutsOneChange' /\ DocumentKnows' /\ LateIsRefused'
  BY <1>1, <1>2 DEF PutsOneChange, DocumentKnows, LateIsRefused, At
<1>5. QED
  BY <1>3, <1>4 DEF Safe

----------------------------------------------------------------------------

\* It holds when the document has just been created.
LEMMA InitSafe == Init => SInv
<1> SUFFICES ASSUME Init PROVE Safe
  BY DEF SInv
<1>1. /\ cache = stored /\ effect = stored /\ conns = {}
      /\ \A x \in Threads : call[x] = Idle
      /\ Document \in Threads /\ Handlers \subseteq Threads
  BY DEF Init, Threads
<1>2. Idle.phase = "idle" /\ Idle.late = FALSE
  BY IdleCall
<1>3. NoGrantLost /\ Fresh /\ Reading
  BY <1>1 DEF NoGrantLost, Fresh, Reading
<1>4. PutsOneChange /\ DocumentKnows /\ LateIsRefused
  BY <1>1, <1>2 DEF PutsOneChange, DocumentKnows, LateIsRefused, At
<1>5. QED
  BY <1>3, <1>4 DEF Safe

\* Every step preserves it, unless it is the one that overtakes a read.
LEMMA NextSafe == IInv /\ SInv /\ [Next]_vars => SInv'
<1> SUFFICES ASSUME IInv, SInv, [Next]_vars, ~straddled' PROVE Safe'
  BY DEF SInv
<1>1. CASE UNCHANGED vars
  <2>1. Safe
    BY <1>1 DEF SInv, vars
  <2>2. QED
    BY <1>1, <2>1 DEF Safe, NoGrantLost, Fresh, Publishing, PutsOneChange, DocumentKnows,
                 LateIsRefused, Reading, Pending, Telling, Told, Enforcing, At, vars
<1>2. CASE Next
  <2>1. straddled => straddled'
    BY <1>2 DEF Next, Probe, Fetch, Fill, BeginOpen, DecideOpen, BeginSet, DecideSet,
                Load, Put, PutFails, Publish, Notify, SendSubmit, Take, DecideJoin,
                Connect, DecideSubmit, AppendBatch, DecideEnforce, Restart, table
  <2>2. Safe
    BY <2>1 DEF SInv
  <2>3. ASSUME NEW x \in Threads, Probe(x) \/ Fetch(x) \/ Fill(x) PROVE Safe'
    BY <2>2, <2>3, ProbeSafe, FetchSafe, FillSafe
  <2>4. ASSUME NEW h \in Handlers, NEW s \in Subjects, BeginOpen(h, s) PROVE Safe'
    BY <2>2, <2>4, BeginOpenSafe
  <2>5. ASSUME NEW h \in Handlers, NEW s \in Subjects, NEW target \in Subjects,
               NEW role \in GrantRoles, BeginSet(h, s, target, role)
        PROVE  Safe'
    BY <2>2, <2>5, BeginSetSafe
  <2>6. ASSUME NEW h \in Handlers, DecideOpen(h) \/ DecideSet(h) \/ Load(h) PROVE Safe'
    BY <2>2, <2>6, DecideOpenSafe, DecideSetSafe, LoadSafe
  <2>7. ASSUME NEW h \in Handlers, Put(h) \/ PutFails(h) \/ Publish(h) \/ Notify(h)
        PROVE  Safe'
    BY <2>2, <2>7, PutSafe, PutFailsSafe, PublishSafe, NotifySafe
  <2>8. ASSUME NEW s \in Subjects, NEW need \in Needs, SendSubmit(s, need) PROVE Safe'
    BY <2>2, <2>8, SendSubmitSafe
  <2>9. CASE Take \/ DecideJoin \/ Connect
    BY <2>2, <2>9, TakeSafe, DecideJoinSafe, ConnectSafe
  <2>10. CASE DecideSubmit \/ AppendBatch \/ DecideEnforce \/ Restart
    BY <2>2, <2>10, DecideSubmitSafe, AppendBatchSafe, DecideEnforceSafe, RestartSafe
  <2>11. QED
    BY <1>2, <2>3, <2>4, <2>5, <2>6, <2>7, <2>8, <2>9, <2>10 DEF Next
<1>3. QED
  BY <1>1, <1>2

\* As long as no read of the table was overtaken by a write before it filled
\* the cache, no batch is logged that its subject's role never allowed, no
\* change of a grant is lost, and whoever is connected may read or the document
\* thread has yet to be told otherwise (permission.rs, document.rs).
THEOREM SafeAlwaysUnlessStraddled == Spec => []SafeUnlessStraddled
<1>1. Spec => []SInv
  BY InitSafe, NextSafe, Invariant, PTL DEF Spec
<1>2. SInv => SafeUnlessStraddled
  <2> SUFFICES ASSUME Safe
               PROVE  RevokedNeverWrites /\ NoGrantLost /\ ConnectedMayRead
    BY DEF SInv, SafeUnlessStraddled
  <2>1. RevokedNeverWrites
    BY DEF Safe, LateIsRefused, RevokedNeverWrites, At
  <2>2. Told => Enforce \in {mailbox[i] : i \in 1..Len(mailbox)}
    BY DEF Told
  <2>3. ConnectedMayRead
    BY <2>2 DEF Safe, Reading, Pending, Telling, Enforcing, ConnectedMayRead
  <2>4. QED
    BY <2>1, <2>3 DEF Safe
<1>3. QED
  BY <1>1, <1>2, PTL

=============================================================================
