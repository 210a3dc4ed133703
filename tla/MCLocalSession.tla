--------------------------- MODULE MCLocalSession ---------------------------
(* The bounds of LocalSession are in the .cfg files.  The specification here *)
(* trades one for another, so that a run has room for all that matters.      *)
EXTENDS LocalSession, TLC

\* Two edits, with a number less to mint for each save, and every failure around
\* them; or a third, to either side of an edit that is taken back by snapshot,
\* with nothing that fails.
FailuresOrEdits ==
    IF edits <= 2 THEN app.next + Len(repo) <= 5
    ELSE faults = 0 /\ process = 1 /\ Len(repo) <= 1

BoundedSpec == Init /\ [][Next /\ FailuresOrEdits']_vars
=============================================================================
