------------------------------ MODULE MCGrants ------------------------------
(* A creator and a colleague, two request handlers, one document thread.    *)
EXTENDS Grants, TLC

HandlerSymmetry == Permutations(Handlers)
=============================================================================
