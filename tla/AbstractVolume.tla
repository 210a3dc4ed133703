--------------------------- MODULE AbstractVolume ---------------------------
(***************************************************************************)
(* What the browser's storage promises: durable storage is only ever an    *)
(* exact copy of the whole memory of the page that owns it, taken at one   *)
(* moment.  A crash goes back to such a copy, never to a part of one.      *)
(* (crates/opendoc-store/src/mirrored.rs, the module documentation.)       *)
(*                                                                         *)
(* Nothing here is written key by key: no queue, no batch, no sequence     *)
(* number.  MirroredVolume.tla implements it with all of those.            *)
(***************************************************************************)
CONSTANTS Keys, Values, Nothing    \* Nothing: no owner, no copy, no value

VARIABLES memory,   \* what the owning page holds
          copy,     \* the copy of it being made durable
          durable   \* what survives the page

avars == <<memory, copy, durable>>

Contents == [Keys -> Values \cup {Nothing}]

AInit ==
    /\ memory = Nothing
    /\ copy = Nothing
    /\ durable = [k \in Keys |-> Nothing]

\* A page becomes the owner.  What it finds it adopts, or has work of its own
\* under the same key that outranks it; nothing it finds is forgotten.
Adopt ==
    /\ memory = Nothing
    /\ memory' \in Contents
    /\ \A k \in Keys : durable[k] # Nothing => memory'[k] # Nothing
    /\ UNCHANGED <<copy, durable>>

Mutate ==
    /\ memory # Nothing
    /\ memory' \in Contents
    /\ UNCHANGED <<copy, durable>>

Begin ==
    /\ memory # Nothing
    /\ copy = Nothing
    /\ copy' = memory
    /\ UNCHANGED <<memory, durable>>

Finish ==
    /\ copy # Nothing
    /\ durable' \in {copy, durable}
    /\ copy' = Nothing
    /\ UNCHANGED memory

\* The page goes, with a copy perhaps half made: all of it, or none.
Leave ==
    /\ memory # Nothing
    /\ durable' \in {IF copy = Nothing THEN durable ELSE copy, durable}
    /\ copy' = Nothing
    /\ memory' = Nothing

ANext == Adopt \/ Mutate \/ Begin \/ Finish \/ Leave

ASpec == AInit /\ [][ANext]_avars
=============================================================================
