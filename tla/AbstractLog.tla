---------------------------- MODULE AbstractLog ----------------------------
(***************************************************************************)
(* What the durable log of one collaborative document promises to the      *)
(* services that use it, with no objects, manifests or branch heads:       *)
(*                                                                         *)
(*   - there is one history, and it only grows, one commit at a time;      *)
(*   - only a service that has seen the whole history can extend it, so    *)
(*     two writers never interleave into one commit (no last-writer-wins); *)
(*   - what any service serves is a prefix of that history.                *)
(*                                                                         *)
(* crates/opendoc-service/src/log.rs states this promise in its module and *)
(* function comments; DocumentLog is the code, shown to implement this.    *)
(***************************************************************************)
EXTENDS Naturals, Sequences

CONSTANTS Services,  \* the service processes that share one object store
          Batches,   \* the batches of operations a commit can carry
          None       \* no document, no view

VARIABLES history,   \* None, or the sequence of batches committed so far
          view       \* per service: None, or the history it serves

vars == <<history, view>>

Init ==
    /\ history = None
    /\ view = [s \in Services |-> None]

\* A document comes into being with an empty history, once.
Create ==
    /\ history = None
    /\ history' = <<>>
    /\ UNCHANGED view

\* A service extends the history it has seen completely.
Commit(s, b) ==
    /\ history # None
    /\ view[s] = history
    /\ history' = Append(history, b)
    /\ UNCHANGED view

\* A service comes to serve some part of the history, never less than before.
Observe(s) ==
    /\ history # None
    /\ \E n \in 0..Len(history) :
        /\ view[s] # None => n >= Len(view[s])
        /\ view' = [view EXCEPT ![s] = SubSeq(history, 1, n)]
    /\ UNCHANGED history

\* A service stops or crashes.
Forget(s) ==
    /\ view' = [view EXCEPT ![s] = None]
    /\ UNCHANGED history

Next ==
    \/ Create
    \/ \E s \in Services :
        \/ \E b \in Batches : Commit(s, b)
        \/ Observe(s)
        \/ Forget(s)

Spec == Init /\ [][Next]_vars
=============================================================================
