-------------------------- MODULE MCMirroredVolume --------------------------
(* Two tabs of one site, one document with two first versions and a second   *)
(* one that goes back to the first snapshot, and one recovery segment of two *)
(* frames.                                                                   *)
EXTENDS MirroredVolume, TLC

CONSTANTS s1, s2, m1, m2, m3

MCSnapshotOf == m1 :> s1 @@ m2 :> s2 @@ m3 :> s1
MCParentOf == m1 :> None @@ m2 :> None @@ m3 :> m2
=============================================================================
