------------------------------- MODULE Collab -------------------------------
(***************************************************************************)
(* One collaborative document: the client drivers that author and resend   *)
(* operations (crates/opendoc-wasm/src/collab.rs CollabDriver over         *)
(* crates/opendoc-app/src/collaboration.rs), the sockets between, and the  *)
(* document thread that validates, logs and fans out                       *)
(* (crates/opendoc-service/src/document.rs, server.rs run_socket).         *)
(*                                                                         *)
(* A tab has one current socket and at most one old one whose frames the   *)
(* service is still reading: a client that reconnects can be welcomed      *)
(* before the service has seen the end of its previous socket.  Sockets    *)
(* are FIFO and lose their contents when they drop.                        *)
(*                                                                         *)
(* Data.  An operation is its id, the vector clock of its causal context   *)
(* and a payload; the payload is the tab that typed it, which is all that  *)
(* "same id, different bytes" needs.  The Lamport timestamp is a function  *)
(* of the clock.  The durable log is one atomic append: DocumentLog.tla    *)
(* shows that.  Presence, roles and the caret are not modelled here.       *)
(***************************************************************************)
EXTENDS FiniteSetsExt, Sequences

CONSTANTS Tabs,                  \* client sessions, one CollabDriver each
          Actors,                \* operation authors
          ActorOf,               \* the actor the service binds a tab to
          SubmitLimit,           \* max_operations_per_submit
          FramesPerTick,         \* MAX_SUBMIT_FRAMES_PER_TICK
          MaxRefusalRecoveries,  \* MAX_REFUSAL_RECOVERIES
          MaxAuthored,           \* bound: operations typed, in all tabs
          MaxDrops,              \* bound: sockets lost and service restarts
          MaxStoreFailures,      \* bound: appends refused by the store
          MaxInFlight            \* bound: frames of one tab on the wire

ASSUME CollabAssumption ==
    /\ ActorOf \in [Tabs -> Actors]
    /\ {SubmitLimit, FramesPerTick, MaxRefusalRecoveries} \subseteq Nat \ {0}
    /\ {MaxAuthored, MaxDrops, MaxStoreFailures, MaxInFlight} \subseteq Nat

VARIABLES commits,   \* the document's log: the batch each commit appended
          conn,      \* service's view of a tab's current socket
          up,        \* submit frames on the current socket, not yet read
          old,       \* submit frames on the previous socket, not yet read
          down,      \* server frames on the current socket, not yet ingested
          driver,    \* per tab: the CollabDriver and its replica
          authored,  \* per tab: every operation the user typed (history)
          faults     \* drops and store failures so far

vars == <<commits, conn, up, old, down, driver, authored, faults>>

wire == <<conn, up, old, down>>

Ops == [actor : Actors, seq : Nat \ {0}, by : Tabs, seen : [Actors -> Nat]]

Frames ==
    [kind : {"welcome", "committed"}, commit : Nat]
    \cup [kind : {"accepted"}, commit : Nat, ids : SUBSET Nat]
    \cup [kind : {"rejected"}, code : {"conflict", "storage"}]

Drivers == [phase : {"idle", "connecting", "live", "reconnecting", "closed"},
            joined : BOOLEAN,
            replica : SUBSET Ops,        \* operations held, its own included
            acknowledged_seq : Nat,
            submitted_through : Nat,
            awaiting : BOOLEAN,          \* awaiting_ack_since.is_some()
            blocked : {"no", "refused", "not-applied", "rewritten", "gap"},
            refusals : Nat,
            reconnect : BOOLEAN,         \* reconnect_requested
            commit_seq : Nat]

NewDriver == [phase |-> "idle", joined |-> FALSE, replica |-> {},
              acknowledged_seq |-> 0, submitted_through |-> 0,
              awaiting |-> FALSE, blocked |-> "no", refusals |-> 0,
              reconnect |-> FALSE, commit_seq |-> 0]

SameId(p, q) == p.actor = q.actor /\ p.seq = q.seq

\* The log as of the n-th commit, and the whole of it.
LoggedAt(n) == UNION {Range(commits[i]) : i \in 1..n}
Logged == LoggedAt(Len(commits))

Of(a, ops) == {op \in ops : op.actor = a}

\* The highest sequence number an actor has among some operations.
Highest(a, ops) == Max({0} \cup {op.seq : op \in Of(a, ops)})

\* CausalContext::observing
Observing(ops) == [a \in Actors |-> Highest(a, ops)]

\* local_operations_after, which the outbox sends only when it is dense.
LocalAfter(t, n) == {op \in Of(ActorOf[t], driver[t].replica) : op.seq > n}

DenseAfter(t, n) ==
    {op.seq : op \in LocalAfter(t, n)} = n + 1 .. n + Cardinality(LocalAfter(t, n))

InOrder(ops) ==
    [i \in 1..Cardinality(ops) |->
        CHOOSE op \in ops : Cardinality({p \in ops : p.seq < op.seq}) = i - 1]

----------------------------------------------------------------------------
(***************************************************************************)
(* The document thread                                                     *)
(***************************************************************************)

\* validate_batch drops exact replays of what the log holds ...
Fresh(batch) ==
    LET kept == {i \in DOMAIN batch : batch[i] \notin Logged}
    IN  [n \in 1..Cardinality(kept) |->
            batch[CHOOSE i \in kept : Cardinality({j \in kept : j < i}) = n - 1]]

\* Mutant of Valid: a batch need not continue its actor's sequence.
ValidUnsequenced(batch) ==
    \A op \in Range(Fresh(batch)), logged \in Logged : ~SameId(op, logged)

\* ... and refuses the batch if an id is logged with other bytes, if what is
\* left does not continue the actor's sequence, or if an operation claims to
\* have observed something that is neither logged nor earlier in the batch.
Valid(batch) ==
    LET fresh == Fresh(batch)
    IN  /\ \A op \in Range(fresh), logged \in Logged : ~SameId(op, logged)
        /\ \A i \in 1..Len(fresh) :
            LET a == fresh[i].actor
            IN  /\ fresh[i].seq = Cardinality(Of(a, Logged)) + i
                /\ \A b \in Actors :
                    fresh[i].seen[b] <= Cardinality(Of(b, Logged))
                                        + (IF a = b THEN i - 1 ELSE 0)

Accepted(ops) == [kind |-> "accepted", commit |-> Len(commits'),
                  ids |-> {op.seq : op \in Range(ops)}]
Committed == [kind |-> "committed", commit |-> Len(commits')]
Rejected(code) == [kind |-> "rejected", code |-> code]

\* send_to the submitting connection: an old one has nobody reading it.
Reply(t, current, frame) ==
    down' = IF current THEN [down EXCEPT ![t] = Append(@, frame)] ELSE down

\* A batch is logged; the submitter is answered, then every connection is told.
Commit(t, current, batch) ==
    LET fresh == Fresh(batch)
        answer(u) == IF u = t /\ current THEN <<Accepted(fresh)>> ELSE <<>>
    IN  /\ Valid(batch)
        /\ fresh # <<>>
        /\ commits' = Append(commits, fresh)
        /\ down' = [u \in Tabs |-> IF conn[u] = "joined"
                                   THEN down[u] \o answer(u) \o <<Committed>>
                                   ELSE down[u]]
        /\ UNCHANGED faults

\* A pure replay: nothing is logged or relayed, and the acknowledgement
\* carries the receipt's operations, of which there are none.
Replay(t, current, batch) ==
    /\ Valid(batch)
    /\ Fresh(batch) = <<>>
    /\ UNCHANGED <<commits, faults>>
    /\ Reply(t, current, Accepted(<<>>))

Refuse(t, current, batch) ==
    /\ ~Valid(batch)
    /\ UNCHANGED <<commits, faults>>
    /\ Reply(t, current, Rejected("conflict"))

\* append fails in the store: the error is sent as a refusal of the batch.
StoreFailure(t, current, batch) ==
    /\ Valid(batch)
    /\ Fresh(batch) # <<>>
    /\ faults.store < MaxStoreFailures
    /\ faults' = [faults EXCEPT !.store = @ + 1]
    /\ UNCHANGED commits
    /\ Reply(t, current, Rejected("storage"))

Serve(t, current, batch) ==
    \/ Commit(t, current, batch)
    \/ Replay(t, current, batch)
    \/ Refuse(t, current, batch)
    \/ StoreFailure(t, current, batch)

\* The next submit frame of a tab's current socket.
Submit(t) ==
    /\ conn[t] = "joined"
    /\ up[t] # <<>>
    /\ Serve(t, TRUE, Head(up[t]))
    /\ up' = [up EXCEPT ![t] = Tail(@)]
    /\ UNCHANGED <<conn, old, driver, authored>>

\* The next submit frame of a tab's previous socket.
SubmitOld(t) ==
    /\ old[t] # <<>>
    /\ Serve(t, FALSE, Head(old[t]))
    /\ old' = [old EXCEPT ![t] = Tail(@)]
    /\ UNCHANGED <<conn, up, driver, authored>>

\* The previous socket ends; frames that did not arrive never will.
Leave(t) ==
    /\ old[t] # <<>>
    /\ old' = [old EXCEPT ![t] = <<>>]
    /\ UNCHANGED <<commits, conn, up, down, driver, authored, faults>>

\* join: the connection is registered and the welcome carries the whole log.
Join(t) ==
    /\ conn[t] = "opening"
    /\ conn' = [conn EXCEPT ![t] = "joined"]
    /\ down' = [down EXCEPT ![t] =
                   <<[kind |-> "welcome", commit |-> Len(commits)]>>]
    /\ UNCHANGED <<commits, up, old, driver, authored, faults>>

\* The service stops and starts again: the log is durable, sockets are not.
Restart ==
    /\ faults.drops < MaxDrops
    /\ \E t \in Tabs : conn[t] = "joined"
    /\ faults' = [faults EXCEPT !.drops = @ + 1]
    /\ conn' = [t \in Tabs |-> IF conn[t] = "joined" THEN "dead" ELSE conn[t]]
    /\ up' = [t \in Tabs |-> <<>>]
    /\ old' = [t \in Tabs |-> <<>>]
    /\ UNCHANGED <<commits, down, driver, authored>>

----------------------------------------------------------------------------
(***************************************************************************)
(* The client driver                                                       *)
(***************************************************************************)

\* The user types, connected or not: the operation is minted past the highest
\* of this actor's that the replica holds, in the context of all it holds.
Author(t) ==
    LET d  == driver[t]
        op == [actor |-> ActorOf[t],
               seq   |-> Highest(ActorOf[t], d.replica) + 1,
               by    |-> t,
               seen  |-> Observing(d.replica)]
    IN  /\ d.joined
        /\ Cardinality(UNION Range(authored)) < MaxAuthored
        /\ driver' = [driver EXCEPT ![t].replica = @ \cup {op}]
        /\ authored' = [authored EXCEPT ![t] = @ \cup {op}]
        /\ UNCHANGED <<commits, wire, faults>>

\* begin: a new socket has been told nothing.
Begin(t) ==
    /\ conn[t] = "none"
    /\ driver[t].phase # "closed"
    /\ conn' = [conn EXCEPT ![t] = "opening"]
    /\ driver' = [driver EXCEPT
                    ![t].phase = IF driver[t].joined THEN "reconnecting"
                                                     ELSE "connecting",
                    ![t].submitted_through = driver[t].acknowledged_seq,
                    ![t].awaiting = FALSE,
                    ![t].reconnect = FALSE]
    /\ UNCHANGED <<commits, up, old, down, authored, faults>>

\* Mutant of Welcome: the unsent tail is not put back.
WelcomeForgets(t, n) ==
    LET acked == Highest(ActorOf[t], LoggedAt(n))
    IN  driver' = [driver EXCEPT
                    ![t] = [@ EXCEPT !.phase = "live",
                                     !.joined = TRUE,
                                     !.replica = LoggedAt(n),
                                     !.acknowledged_seq = acked,
                                     !.submitted_through = acked,
                                     !.awaiting = FALSE,
                                     !.blocked = "no",
                                     !.reconnect = FALSE,
                                     !.commit_seq = n]]

\* welcome: adopt the service's log, read the acknowledged watermark out of
\* it, and put the tail this actor authored beyond it back on top.
Welcome(t, n) ==
    LET d      == driver[t]
        held   == IF d.joined THEN LocalAfter(t, 0) ELSE {}
        acked  == Highest(ActorOf[t], LoggedAt(n))
        unsent == {op \in held : op.seq > acked}
    IN  driver' = [driver EXCEPT
                    ![t] = [d EXCEPT !.phase = "live",
                                     !.joined = TRUE,
                                     !.replica = LoggedAt(n) \cup unsent,
                                     !.acknowledged_seq = acked,
                                     !.submitted_through = acked,
                                     !.awaiting = FALSE,
                                     !.blocked = "no",
                                     !.reconnect = FALSE,
                                     !.commit_seq = n]]

\* Mutant of Acknowledge: any acknowledgement covers everything submitted.
AcknowledgeSubmitted(t, frame) ==
    LET d == driver[t]
    IN  driver' = [driver EXCEPT
                    ![t] = [d EXCEPT !.acknowledged_seq = d.submitted_through,
                                     !.awaiting = FALSE,
                                     !.refusals = 0,
                                     !.commit_seq = Max({@, frame.commit})]]

\* Accepted: only the ids it names move the watermark.
Acknowledge(t, frame) ==
    LET d     == driver[t]
        acked == Max({d.acknowledged_seq} \cup frame.ids)
    IN  driver' = [driver EXCEPT
                    ![t] = [d EXCEPT !.acknowledged_seq = acked,
                                     !.awaiting = @ /\ acked < d.submitted_through,
                                     !.refusals = 0,
                                     !.commit_seq = Max({@, frame.commit})]]

\* Mutant of Refused: every refusal frame counts.
RefusedEachTime(t) ==
    LET d         == driver[t]
        exhausted == d.refusals + 1 >= MaxRefusalRecoveries
    IN  driver' = [driver EXCEPT
                    ![t] = [d EXCEPT !.refusals = @ + 1,
                                     !.blocked = "refused",
                                     !.phase = IF exhausted THEN "closed" ELSE @,
                                     !.reconnect = @ \/ ~exhausted]]

\* Mutant of Refused: nothing asks for a fresh welcome.
RefusedForGood(t) ==
    driver' = [driver EXCEPT ![t].blocked = "refused", ![t].refusals = @ + 1]

\* Rejected: stop submitting and ask for a fresh welcome, a bounded number of
\* times.  A refusal while already blocked is the same failure again.
Refused(t) ==
    LET d         == driver[t]
        refusals  == IF d.blocked = "no" THEN d.refusals + 1 ELSE d.refusals
        exhausted == refusals >= MaxRefusalRecoveries
    IN  driver' = [driver EXCEPT
                    ![t] = [d EXCEPT !.refusals = refusals,
                                     !.blocked = "refused",
                                     !.phase = IF exhausted THEN "closed" ELSE @,
                                     !.reconnect = @ \/ ~exhausted]]

\* Mutant of Apply: a tab that is not submitting does not listen either.
ApplyUnlessBlocked(t, n) ==
    driver' = [driver EXCEPT
                ![t].replica = IF driver[t].blocked = "no"
                               THEN @ \cup Range(commits[n]) ELSE @,
                ![t].commit_seq = Max({@, n})]

\* Committed: apply_remote_operations is all or nothing, and an id held with
\* other bytes fails it.  commit_seq moves only with the operations.
Apply(t, n) ==
    LET d   == driver[t]
        ops == Range(commits[n])
    IN  driver' = [driver EXCEPT
                    ![t] = IF \E op \in ops, held \in d.replica :
                                 SameId(op, held) /\ op # held
                           THEN [d EXCEPT !.blocked = "not-applied",
                                          !.reconnect = TRUE]
                           ELSE [d EXCEPT !.replica = @ \cup ops,
                                          !.commit_seq = Max({@, n})]]

Ingest(t) ==
    /\ conn[t] \in {"joined", "dead"}
    /\ down[t] # <<>>
    /\ LET frame == Head(down[t])
       IN  \/ frame.kind = "welcome"   /\ Welcome(t, frame.commit)
           \/ frame.kind = "accepted"  /\ Acknowledge(t, frame)
           \/ frame.kind = "rejected"  /\ Refused(t)
           \/ frame.kind = "committed" /\ Apply(t, frame.commit)
    /\ down' = [down EXCEPT ![t] = Tail(@)]
    /\ UNCHANGED <<commits, conn, up, old, authored, faults>>

\* Mutant of Expire: rolls back one operation too far.
ExpireTooFar(d) ==
    [d EXCEPT !.awaiting = FALSE, !.submitted_through = d.acknowledged_seq - 1]

\* expire_unacknowledged_submit, when forty ticks have passed.
Expire(d) ==
    [d EXCEPT !.awaiting = FALSE,
              !.submitted_through = IF @ > d.acknowledged_seq
                                    THEN d.acknowledged_seq ELSE @]

\* The frames one tick sends: chunks of at most SubmitLimit operations.
Chunks(ops) ==
    LET sent(i)  == InOrder({op \in ops : \E k \in 1..SubmitLimit :
                        Cardinality({p \in ops : p.seq < op.seq})
                            = (i - 1) * SubmitLimit + k - 1})
        needed   == (Cardinality(ops) + SubmitLimit - 1) \div SubmitLimit
    IN  [i \in 1..Min({needed, FramesPerTick}) |-> sent(i)]

\* One tick of the outbox while nothing forbids sending.
Send(t, d, from) ==
    LET frames == Chunks(LocalAfter(t, from))
        last   == Max({from} \cup
                      {op.seq : op \in UNION {Range(f) : f \in Range(frames)}})
    IN  /\ Len(old[t]) + Len(up[t]) + Len(frames) + Len(down[t]) <= MaxInFlight
        /\ up' = [up EXCEPT ![t] = IF conn[t] = "joined" THEN @ \o frames ELSE @]
        /\ driver' = [driver EXCEPT
                        ![t] = IF frames = <<>> THEN d
                               ELSE [d EXCEPT !.submitted_through = last,
                                              !.awaiting = TRUE]]

\* The outbox's cross-checks: fewer own operations than the service made
\* durable, or a gap in those it would send.
CrossCheck(t, d, from) ==
    IF d.blocked # "no" THEN d.blocked
    ELSE IF Highest(ActorOf[t], d.replica) < from THEN "rewritten"
    ELSE IF ~DenseAfter(t, from) THEN "gap"
    ELSE "no"

\* outbox: one tick of the pump.  expired says that the acknowledgement timer
\* ran out at this tick, which it can do whenever one is awaited.
Outbox(t, expired) ==
    LET d       == IF expired THEN Expire(driver[t]) ELSE driver[t]
        from    == Max({d.submitted_through, d.acknowledged_seq})
        blocked == CrossCheck(t, d, from)
    IN  /\ d.phase = "live"
        /\ conn[t] \in {"joined", "dead"}
        /\ expired => driver[t].awaiting
        /\ IF blocked = "no"
           THEN Send(t, d, from)
           ELSE /\ driver' = [driver EXCEPT ![t] = [d EXCEPT !.blocked = blocked]]
                /\ UNCHANGED up
        /\ UNCHANGED <<commits, conn, old, down, authored, faults>>

\* The socket must go: the driver asked for another, gave up, or its service
\* end is gone.
Doomed(t) ==
    \/ conn[t] = "dead"
    \/ conn[t] # "none" /\ (driver[t].reconnect \/ driver[t].phase = "closed")

\* socket_closed: roll back to what the service is known to hold.  What the
\* socket still carried towards the service may yet arrive, or not.
Close(t) ==
    /\ old[t] = <<>>
    /\ conn' = [conn EXCEPT ![t] = "none"]
    /\ old' = [old EXCEPT ![t] = up[t]]
    /\ up' = [up EXCEPT ![t] = <<>>]
    /\ down' = [down EXCEPT ![t] = <<>>]
    /\ driver' = [driver EXCEPT
                    ![t].submitted_through = driver[t].acknowledged_seq,
                    ![t].awaiting = FALSE,
                    ![t].reconnect = FALSE,
                    ![t].phase = IF @ = "closed" THEN @ ELSE "reconnecting"]
    /\ UNCHANGED <<commits, authored>>

DropDoomed(t) ==
    /\ Doomed(t)
    /\ Close(t)
    /\ UNCHANGED faults

\* The network loses the socket.
Drop(t) ==
    /\ conn[t] \in {"opening", "joined"}
    /\ faults.drops < MaxDrops
    /\ faults' = [faults EXCEPT !.drops = @ + 1]
    /\ Close(t)

----------------------------------------------------------------------------

Init ==
    /\ commits = <<>>
    /\ conn = [t \in Tabs |-> "none"]
    /\ up = [t \in Tabs |-> <<>>]
    /\ old = [t \in Tabs |-> <<>>]
    /\ down = [t \in Tabs |-> <<>>]
    /\ driver = [t \in Tabs |-> NewDriver]
    /\ authored = [t \in Tabs |-> {}]
    /\ faults = [drops |-> 0, store |-> 0]

Next ==
    \/ Restart
    \/ \E t \in Tabs :
        \/ Author(t)
        \/ Begin(t)
        \/ Join(t)
        \/ Ingest(t)
        \/ \E expired \in BOOLEAN : Outbox(t, expired)
        \/ Submit(t)
        \/ SubmitOld(t)
        \/ Leave(t)
        \/ DropDoomed(t)
        \/ Drop(t)

Spec == Init /\ [][Next]_vars

\* The pump and the retry timer of the page run for as long as it is open, and
\* the service's threads read what reaches them.  Nothing makes a user type, a
\* network fail or a service restart.
Fairness ==
    \A t \in Tabs :
        /\ WF_vars(Begin(t)) /\ WF_vars(Join(t)) /\ WF_vars(Ingest(t))
        /\ WF_vars(\E expired \in BOOLEAN : Outbox(t, expired))
        /\ WF_vars(Submit(t)) /\ WF_vars(SubmitOld(t) \/ Leave(t))
        /\ WF_vars(DropDoomed(t))

FairSpec == Spec /\ Fairness

----------------------------------------------------------------------------
(***************************************************************************)
(* Properties                                                              *)
(***************************************************************************)

\* Every variable has its type.
TypeOK ==
    /\ commits \in Seq(Seq(Ops))
    /\ conn \in [Tabs -> {"none", "opening", "joined", "dead"}]
    /\ {up, old} \subseteq [Tabs -> Seq(Seq(Ops))]
    /\ down \in [Tabs -> Seq(Frames)]
    /\ driver \in [Tabs -> Drivers]
    /\ authored \in [Tabs -> SUBSET Ops]
    /\ faults \in [drops : 0..MaxDrops, store : 0..MaxStoreFailures]

\* The log every replica merges is one the merge is defined on: no id twice,
\* every actor's operations dense in log order, and no operation before one it
\* observed, whatever sockets, resends and refusals interleaved
\* (document.rs validate_batch, "Causal honesty").
LogIsSound ==
    \A n \in 1..Len(commits) : \A i \in 1..Len(commits[n]) :
        LET op     == commits[n][i]
            before == LoggedAt(n - 1) \cup {commits[n][k] : k \in 1..(i - 1)}
        IN  /\ op.seq = Cardinality(Of(op.actor, before)) + 1
            /\ \A a \in Actors : op.seen[a] <= Highest(a, before)

\* Nothing a user typed is lost: it is in the log, or the tab that typed it
\* still holds it, through drops, restarts, refusals and rejoins (collab.rs
\* welcome: "silently dropping it would lose a user's typing").
TypedIsNeverLost ==
    \A t \in Tabs : authored[t] \subseteq Logged \cup driver[t].replica

\* What a frame on its way to a tab will bring it.
Brings(frame) ==
    CASE frame.kind = "welcome"   -> LoggedAt(frame.commit)
      [] frame.kind = "committed" -> Range(commits[frame.commit])
      [] OTHER                    -> {}

\* A joined connection misses no commit: between the welcome and the fanout
\* there is no gap a commit could fall into, whoever submitted it and on
\* whichever socket (document.rs join, handle).
JoinedMissesNothing ==
    \A t \in Tabs :
        conn[t] = "joined" /\ driver[t].blocked # "not-applied" =>
            Logged \subseteq driver[t].replica
                            \cup UNION {Brings(f) : f \in Range(down[t])}

\* What a tab says of the log is true.  What it counts as acknowledged is in
\* the log, so that it stops resending nothing the service lacks; and at commit
\* n it holds every operation of the first n commits, although an
\* acknowledgement raises commit_seq before the commit it names is folded in.
WatermarksAreHonest ==
    \A t \in Tabs :
        /\ {op \in authored[t] : op.seq <= driver[t].acknowledged_seq} \subseteq Logged
        /\ LoggedAt(driver[t].commit_seq) \subseteq driver[t].replica

\* An honest tab is refused only because the store failed first, and one
\* failure costs one recovery however many batches were in flight behind it
\* (collab.rs Rejected: "once the first is refused the rest are the same
\* failure arriving again").  Nothing else blocks it: the outbox's cross-checks
\* for a rewritten history and for a sequence gap never fire ("this is no
\* longer an expected state").
RefusalsAreStoreFailures ==
    \A t \in Tabs :
        /\ driver[t].refusals <= faults.store
        /\ driver[t].phase = "closed" => faults.store >= MaxRefusalRecoveries
        /\ Range(down[t]) \cap {Rejected("conflict")} # {} => faults.store > 0
        /\ driver[t].blocked \in {"no", "refused"}

\* Whatever is typed is logged in the end, or the session says it is over.
TypedIsEventuallyLogged ==
    \A t \in Tabs :
        authored[t] # {} ~> \/ authored[t] \subseteq Logged
                           \/ driver[t].phase = "closed"

\* Every replica that is not closed ends with exactly the log.
ReplicasConverge ==
    <>[](\A t \in Tabs : \/ driver[t].phase = "closed"
                          \/ driver[t].replica = Logged)

\* Once nothing more is typed, nothing is left pending: what is logged is in
\* the end acknowledged, and the resends stop (collab.rs
\* expire_unacknowledged_submit: "the worst case of a timeout that fired too
\* early is one redundant frame and one acknowledgement").
PendingDrains ==
    \A t \in Tabs :
        LocalAfter(t, driver[t].acknowledged_seq) # {} ~>
            \/ LocalAfter(t, driver[t].acknowledged_seq) = {}
            \/ driver[t].phase = "closed"
=============================================================================
