---------------------------- MODULE MCTextMerge ----------------------------
(* The bounds are in the .cfg file; nothing else needs a definition.         *)
EXTENDS TextMerge, TLC
=============================================================================
