----------------------------- MODULE MCContexts -----------------------------
(***************************************************************************)
(* A small instance of Contexts for TLC.                                   *)
(***************************************************************************)
EXTENDS Contexts, TLC

SameIds == Permutations(Ids) \union Permutations(Replays)
=============================================================================
