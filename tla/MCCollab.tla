------------------------------ MODULE MCCollab ------------------------------
(* Instances of Collab: tabs of different subjects, each with its own       *)
(* actor, and tabs of one subject, which share one.                         *)
EXTENDS Collab, TLC

OwnActor == [t \in Tabs |-> t]

SharedActor == [t \in Tabs |-> CHOOSE a \in Actors : TRUE]

TabSymmetry == Permutations(Tabs)
=============================================================================
