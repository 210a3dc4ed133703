--------------------------- MODULE MCDocumentLog ---------------------------
(* Two services over one store, two actors, batches of one or two          *)
(* operations, chains of up to two commits after genesis.                *)
EXTENDS DocumentLog, TLC

CONSTANT MaxSeq      \* bound: the highest sequence number an actor reaches

MCBatches ==
    {b \in [actor : Actors, first : 1..MaxSeq, last : 1..MaxSeq] :
        b.first <= b.last}

MCSymmetry == Permutations(Services) \cup Permutations(Actors)
=============================================================================
