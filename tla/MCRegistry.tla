----------------------------- MODULE MCRegistry -----------------------------
(* Two places in the registry, a thread and a document more than that, and   *)
(* two request handlers.                                                     *)
EXTENDS Registry, TLC
=============================================================================
